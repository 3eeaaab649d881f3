----------------------- MODULE SequencePlayer_proofs -----------------------
(***************************************************************************)
(* SequencePlayer's theorems: its types, that a sequence that plays has    *)
(* its thread, that a bar sounds exactly while it is triggered, and that   *)
(* none does once the sequence has stopped.                                *)
(***************************************************************************)
EXTENDS SequencePlayer, SequenceFacts_proofs

\* The steps of a stack, and those that may be below the first.
Names == {"play", "stop", "pause"}
Plain == {"sought", "exit", "join", "rewind", "listen", "unlisten", "time", "timed", "state",
          "clear", "force"}
Calls == {"trigger", "triggered"} \X Names
Entries == Calls \cup ({"set", "start"} \X BOOLEAN)
           \cup ({"seek", "changed"} \X (0 .. Total) \X BOOLEAN)
           \cup ({"reset", "release", "under", "invalid"} \X Triggers)
           \cup ({"cross"} \X Triggers \X BOOLEAN \X BOOLEAN)
           \cup {<<s>> : s \in Plain}
Lower == {e \in Entries : e[1] \notin {"listen", "exit", "join", "rewind"}}
Stacks == {q \in Seq(Entries) : \A i \in 2 .. Len(q) : q[i] \in Lower}

\* A lock that a caller holds was taken by as many calls as it is still to release, and
\* so was that of the listeners, unless the next step takes it.
Soughts(t) == Count(stack[t], {<<"sought">>})
Opening == IF At_(m, "listen") THEN 1 ELSE 0
Locks == /\ \A t \in Callers : Soughts(t) = IF timeLock.by = t THEN timeLock.n ELSE 0
         /\ player \in {"sought", "advance"} => timeLock.by = "player"
         /\ listening = Count(stack[m], {<<"unlisten">>}) - Opening

Scalars ==
    /\ playing \in BOOLEAN /\ seeking \in BOOLEAN /\ forward \in BOOLEAN /\ loop \in BOOLEAN
    /\ exit \in BOOLEAN /\ backwards \in BOOLEAN /\ wasPlaying \in BOOLEAN
    /\ time \in 0 .. Total /\ prev \in 0 .. Total /\ target \in Int /\ next \in Int
    /\ player \in Stages
    /\ timeLock \in {Free} \cup [by : Callers \cup {"player"}, n : Nat \ {0}]
    /\ listening \in Nat
    /\ posted \in Seq({"time", "playing", "loop"})
    /\ triggering \subseteq Names
    /\ trig \in [Triggers -> States]
    /\ stopped \in Callers \cup {None} /\ interrupted \in BOOLEAN /\ commands \in 0 .. MaxCommands
    /\ player \in {"loop", "jump", "retarget", "set"} => next \in 0 .. Total

Typed == Scalars /\ stack \in [Callers -> Stacks] /\ Locks

\* Every x of X in q has only elements of Y after it.
Followed(q, X, Y) == \A i, j \in 1 .. Len(q) : i < j /\ q[i] \in X => q[j] \in Y
Plays == {<<"trigger", "play">>, <<"set", TRUE>>}
Restarts == {<<"exit">>, <<"join">>, <<"rewind">>} \cup ({"start"} \X BOOLEAN)
Starting == \E i \in 1 .. Len(stack[m]) : stack[m][i][1] = "start"
\* What the message thread's stack may start, and, while the sequence plays, where its
\* thread is.
Nested == Followed(stack[m], Plays, Calls)
Threaded ==
    playing =>
         /\ Followed(stack[m], Restarts, Calls)
         /\ \A i \in 1 .. Len(stack[m]) : stack[m][i] # <<"start", FALSE>>
         /\ Starting \/ At_(m, "rewind") => player = "off"
         /\ \/ Starting \/ At_(m, "exit") \/ At_(m, "join") \/ At_(m, "rewind")
            \/ player \notin {"off", "finishing"} /\ ~exit
OthersFollow == \A i \in 1 .. Len(stack[Other]) : stack[Other][i] \notin Plays
Following == OthersFollow /\ Nested /\ Threaded

\* A bar that has fired is held; and a trigger may fire when its conditions say so, where
\* no bar fires only once.
NoOnce == \A k \in Bars : Options[k].evaluate # "once"
Fits(k, r) == /\ k \in Sustained => r.sounding = IF r.triggered THEN 1 ELSE 0
              /\ r.can = r.valid

\* A clear has the releases of all triggers before it, but for those that were made.
Cleared ==
    \A i \in 1 .. Len(stack[m]) : stack[m][i] = <<"clear">> =>
        \A k \in Triggers : LET p == i - 1 - Cardinality(Triggers) + k
                            IN  IF p > 0 THEN stack[m][p] = <<"release", k>>
                                         ELSE k \in Sustained => ~trig[k].triggered
Sounding == Cleared /\ \A k \in Triggers : Fits(k, trig[k])

\* That nothing sounds once the sequence has stopped, where seeking fires nothing while it
\* is stopped.  The handlers which end in the triggers' own, and what those do not interrupt:
QuietSeeks == EvaluateOnSeek \in {"never", "playing"}
Aheads == {e \in Entries : e[1] \in {"exit", "join", "rewind", "start", "state"}}
Walks == {e \in Entries : e[1] \in {"cross", "under", "changed"}}
Ahead == \E i \in 1 .. Len(stack[m]) : stack[m][i] \in Aheads
\* The triggers know whether the sequence plays, or are going to.
Informed == /\ playing /\ ~wasPlaying => Ahead
            /\ ~playing /\ wasPlaying => Ahead \/ \E i \in 1 .. Len(posted) : posted[i] = "playing"
\* The handlers of a time come first.
Orderly(q) == \A i \in 1 .. Len(q) : /\ q[i][1] = "time" => i = 1
                                     /\ q[i][1] = "changed" => i = 1 \/ (i = 2 /\ q[1][1] = "listen")
\* Until the triggers know that the sequence plays, the time only goes to 0.
Held == time = 0 /\ timeLock.by = m
Rewinds(e, plays, held) ==
    /\ e[1] = "changed" /\ (plays \/ e[3]) => held
    /\ plays => (e[1] = "time" => held) /\ (e[1] = "seek" => e[2] = 0) /\ e[1] # "force"
Rewinding == ~wasPlaying => \A i \in 1 .. Len(stack[m]) : Rewinds(stack[m][i], playing, Held)
\* What may fire a trigger and what releases it: the last release follows all that may fire.
Fires(e, k) == trig[k].valid /\ (e = <<"under", k>> \/ \E b \in BOOLEAN : e = <<"cross", k, TRUE, b>>)
Frees(e, k) == \/ e = <<"release", k>>
               \/ \E b \in BOOLEAN : e = <<"cross", k, FALSE, b>> /\ (b \/ AnyTime(k) \/ trig[k].valid)
Freed(q, k) == \E p \in 1 .. Len(q) : Frees(q[p], k) /\ \A j \in 1 .. Len(q) : j > p => ~Fires(q[j], k)
Endangered(k) == trig[k].triggered \/ \E i \in 1 .. Len(stack[m]) : Fires(stack[m][i], k)
Apart == ~interrupted => Followed(stack[m], Aheads, Entries \ Walks)
Balanced == ~interrupted /\ ~wasPlaying => \A k \in Sustained : Endangered(k) => Freed(stack[m], k)
Silent == Informed /\ Orderly(stack[m]) /\ Rewinding /\ Apart /\ Balanced

-----------------------------------------------------------------------------
\* The triggers' records: what each operator returns is one.
LEMMA NumberedTriggers == IsFiniteSet(Triggers) /\ Triggers \in SUBSET (Nat \ {0})
BY TriggerAssumption, FS_CardinalityType

LEMMA RecordTypes ==
  ASSUME NEW k \in Triggers, NEW r \in States
  PROVE  /\ Updated(k, r) \in States /\ Begun(r) \in States /\ Released(k, r) \in States
         /\ Under(k, r) \in States
         /\ \A on, rewind \in BOOLEAN : Crossed(k, r, on, rewind) \in States
<1>1. Options[k] \in [evaluate : Evaluations, validExit : Exits, invalidExit : Exits, rewind : Exits]
  BY TriggerAssumption
<1>2. ASSUME NEW s \in States PROVE Updated(k, s) \in States
  <2> DEFINE may == s.valid /\ (Options[k].evaluate = "once" => ~s.done)
  <2>1. s.valid \in BOOLEAN /\ may \in BOOLEAN
    BY DEF States
  <2>2. Updated(k, s) = IF k \in Bars THEN [s EXCEPT !.can = may]
                                      ELSE [s EXCEPT !.can = s.valid, !.done = FALSE]
    BY DEF Updated
  <2> HIDE DEF may
  <2>3. \A b \in BOOLEAN : [s EXCEPT !.can = b] \in States /\ [s EXCEPT !.can = b, !.done = FALSE] \in States
    BY DEF States
  <2>4. QED
    BY <2>1, <2>2, <2>3
<1>3. \A s \in States : s.sounding \in Int
  BY DEF States
<1>4. ASSUME NEW s \in States, NEW b \in BOOLEAN, NEW i \in Int
      PROVE  /\ [s EXCEPT !.triggered = b, !.sounding = i] \in States
             /\ [s EXCEPT !.triggered = b, !.sounding = i, !.done = TRUE] \in States
  BY DEF States
<1>5. ASSUME NEW s \in States PROVE Begun(s) \in States
  <2>1. s.sounding + 1 \in Int
    BY <1>3
  <2>2. [s EXCEPT !.triggered = TRUE, !.sounding = s.sounding + 1] \in States
    BY <2>1, <1>4
  <2>3. QED
    BY <2>2 DEF Begun
<1>6. ASSUME NEW s \in States PROVE Released(k, s) \in States
  <2>1. s.sounding - 1 \in Int
    BY <1>3
  <2>2. [s EXCEPT !.triggered = FALSE, !.sounding = s.sounding - 1, !.done = TRUE] \in States
    BY <2>1, <1>4
  <2>3. QED
    BY <2>2, <1>2 DEF Released
<1>7. Under(k, r) \in States
  <2>1. ASSUME NEW s \in States PROVE [s EXCEPT !.inside = TRUE] \in States
    BY DEF States
  <2>2. QED
    BY <2>1, <1>5 DEF Under
<1>8. ASSUME NEW on \in BOOLEAN, NEW rewind \in BOOLEAN PROVE Crossed(k, r, on, rewind) \in States
  <2> DEFINE s == [r EXCEPT !.inside = on]
  <2>1. s \in States
    BY DEF States
  <2> HIDE DEF s
  <2>2. Exited(k, s, rewind) \in States
    <3>1. [s EXCEPT !.triggered = FALSE] \in States
      BY <2>1 DEF States
    <3> DEFINE other == Options[k].invalidExit
               more == IF other \in {"true", "both"} THEN 1 ELSE 0
               less == IF other \in {"false", "both"} THEN 1 ELSE 0
    <3>2. s.sounding + more - less \in Int
      BY <1>3, <2>1
    <3>3. [s EXCEPT !.triggered = FALSE, !.sounding = s.sounding + more - less] \in States
      BY <1>4, <2>1, <3>2
    <3>4. QED
      BY <1>6, <2>1, <3>1, <3>3 DEF Exited
  <2>3. QED
    BY <1>5, <2>1, <2>2 DEF Crossed, s
<1>9. QED
  BY <1>2, <1>5, <1>6, <1>7, <1>8

\* In a finite set of ends each number of ends that are before one is taken, once: InOrder
\* lists them all.
Ends == [at : Nat, of : Triggers, on : BOOLEAN]

LEMMA BeforeIsTotal ==
  ASSUME NEW e \in Ends, NEW f \in Ends
  PROVE  /\ ~Before(e, e)
         /\ e # f => Before(e, f) \/ Before(f, e)
         /\ \A g \in Ends : Before(g, e) /\ Before(e, f) => Before(g, f)
<1>1. e.of \in Nat /\ f.of \in Nat /\ e.at \in Nat /\ f.at \in Nat /\ e.on \in BOOLEAN /\ f.on \in BOOLEAN
  BY NumberedTriggers DEF Ends
<1>2. ~Before(e, e)
  BY <1>1 DEF Before
<1>3. ASSUME e # f PROVE Before(e, f) \/ Before(f, e)
  <2>1. e.at # f.at \/ e.of # f.of \/ e.on # f.on
    BY <1>3 DEF Ends
  <2>2. QED
    BY <1>1, <2>1 DEF Before
<1>4. ASSUME NEW g \in Ends, Before(g, e), Before(e, f) PROVE Before(g, f)
  <2>1. g.of \in Nat /\ g.at \in Nat /\ g.on \in BOOLEAN
    BY NumberedTriggers DEF Ends
  <2>2. QED
    BY <1>1, <1>4, <2>1 DEF Before
<1>5. QED
  BY <1>2, <1>3, <1>4

LEMMA EachPlaceIsTaken ==
  ASSUME NEW E \in SUBSET Ends, IsFiniteSet(E)
  PROVE  /\ Cardinality(E) \in Nat
         /\ \A i \in 1 .. Cardinality(E) :
              \E e \in E : Cardinality({f \in E : Before(f, e)}) = i - 1
         /\ \A e \in E : Cardinality({f \in E : Before(f, e)}) \in 0 .. Cardinality(E) - 1
         /\ \A e, f \in E : Before(e, f) => Cardinality({g \in E : Before(g, e)})
                                               < Cardinality({g \in E : Before(g, f)})
<1> DEFINE n == Cardinality(E)
           Lesser(e) == {f \in E : Before(f, e)}
           rank == [e \in E |-> Cardinality(Lesser(e))]
<1>1. n \in Nat
  BY FS_CardinalityType
<1>2. ASSUME NEW e \in E
      PROVE  IsFiniteSet(Lesser(e)) /\ Cardinality(Lesser(e)) \in 0 .. (n - 1)
  <2>1. Lesser(e) \in SUBSET E /\ Lesser(e) # E
    BY BeforeIsTotal
  <2> HIDE DEF Lesser
  <2>2. IsFiniteSet(Lesser(e)) /\ Cardinality(Lesser(e)) <= n /\ Cardinality(Lesser(e)) # n
    BY <2>1, FS_Subset
  <2>3. Cardinality(Lesser(e)) \in Nat
    BY <2>2, FS_CardinalityType
  <2>4. QED
    BY <1>1, <2>2, <2>3
<1>3. ASSUME NEW e \in E, NEW f \in E, Before(e, f)
      PROVE  Cardinality(Lesser(e)) < Cardinality(Lesser(f))
  <2>1. Lesser(e) \in SUBSET Lesser(f)
    BY <1>3, BeforeIsTotal
  <2>2. e \in Lesser(f) /\ e \notin Lesser(e)
    BY <1>3, BeforeIsTotal
  <2> HIDE DEF Lesser
  <2>3. Cardinality(Lesser(e)) <= Cardinality(Lesser(f)) /\ Cardinality(Lesser(e)) # Cardinality(Lesser(f))
    BY <1>2, <2>1, <2>2, FS_Subset
  <2>4. Cardinality(Lesser(e)) \in Int /\ Cardinality(Lesser(f)) \in Int
    BY <1>1, <1>2
  <2>5. QED
    BY <2>3, <2>4
<1>4. rank \in [E -> 0 .. (n - 1)]
  BY <1>2
<1>5. \A e, f \in E : rank[e] = rank[f] => e = f
  <2>1. ASSUME NEW e \in E, NEW f \in E, e # f PROVE rank[e] # rank[f]
    <3>1. Before(e, f) \/ Before(f, e)
      BY <2>1, BeforeIsTotal
    <3> HIDE DEF Lesser
    <3>2. Cardinality(Lesser(e)) \in Int /\ Cardinality(Lesser(f)) \in Int
      BY <1>1, <1>2
    <3>3. QED
      BY <1>3, <3>1, <3>2
  <2>2. QED
    BY <2>1
<1>6. IsFiniteSet(0 .. (n - 1)) /\ Cardinality(0 .. (n - 1)) = n
  <2>1. n - 1 \in Int
    BY <1>1
  <2>2. IsFiniteSet(0 .. (n - 1)) /\ Cardinality(0 .. (n - 1)) = IF 0 > n - 1 THEN 0 ELSE (n - 1) - 0 + 1
    BY <2>1, FS_Interval
  <2>3. QED
    BY <1>1, <2>2
<1> HIDE DEF rank
<1>7. rank \in Injection(E, 0 .. (n - 1))
  BY <1>4, <1>5 DEF Injection, IsInjective
<1>8. rank \in Surjection(E, 0 .. (n - 1))
  BY <1>6, <1>7, FS_Injection
<1>9. ASSUME NEW i \in 1 .. n PROVE \E e \in E : Cardinality(Lesser(e)) = i - 1
  <2>1. i - 1 \in 0 .. (n - 1)
    BY <1>1
  <2>2. PICK e \in E : rank[e] = i - 1
    BY <1>8, <2>1 DEF Surjection
  <2>3. QED
    BY <2>2 DEF rank
<1>10. QED
  BY <1>1, <1>2, <1>3, <1>9

LEMMA InOrderType ==
  ASSUME NEW E \in SUBSET Ends, IsFiniteSet(E)
  PROVE  InOrder(E) \in Seq(E)
<1>1. ASSUME NEW i \in 1 .. Cardinality(E)
      PROVE  (CHOOSE e \in E : Cardinality({f \in E : Before(f, e)}) = i - 1) \in E
  BY EachPlaceIsTaken
<1>2. Cardinality(E) \in Nat
  BY EachPlaceIsTaken
<1>3. InOrder(E) \in [1 .. Cardinality(E) -> E]
  BY <1>1 DEF InOrder
<1>4. QED
  BY <1>2, <1>3

-----------------------------------------------------------------------------
\* The steps: what they are made of, and what the walks push.
LEMMA EntryParts ==
  ASSUME NEW e \in Entries
  PROVE  /\ e[1] \in {"trigger", "triggered"} => e[2] \in Names /\ e \in Calls
         /\ e[1] \in {"set", "start"} => e[2] \in BOOLEAN
         /\ e[1] \in {"seek", "changed"} => e[2] \in 0 .. Total /\ e[3] \in BOOLEAN
         /\ e[1] \in {"reset", "release", "under", "invalid", "cross"} => e[2] \in Triggers
         /\ e[1] = "cross" => e[3] \in BOOLEAN /\ e[4] \in BOOLEAN
         /\ e[1] \in Plain => e = <<e[1]>>
         /\ e[1] \in Steps
<1>1. CASE e \in {"trigger", "triggered"} \X Names
  BY <1>1 DEF Plain, Steps, Calls
<1>2. CASE e \in {"set", "start"} \X BOOLEAN
  BY <1>2 DEF Plain, Steps
<1>3. CASE e \in {"seek", "changed"} \X (0 .. Total) \X BOOLEAN
  BY <1>3 DEF Plain, Steps
<1>4. CASE e \in {"reset", "release", "under", "invalid"} \X Triggers
  BY <1>4 DEF Plain, Steps
<1>5. CASE e \in {"cross"} \X Triggers \X BOOLEAN \X BOOLEAN
  BY <1>5 DEF Plain, Steps
<1>6. CASE e \in {<<s>> : s \in Plain}
  BY <1>6 DEF Plain, Steps
<1>7. QED
  BY <1>1, <1>2, <1>3, <1>4, <1>5, <1>6 DEF Entries, Calls

\* Those that may be anywhere and open or close nothing.
Quiet == {e \in Lower : e[1] \notin {"sought", "unlisten"}}

LEMMA QuietEntries ==
  /\ \A c \in Names : <<"trigger", c>> \in Quiet /\ <<"triggered", c>> \in Quiet
  /\ \A b \in BOOLEAN : <<"set", b>> \in Quiet /\ <<"start", b>> \in Quiet
  /\ \A v \in 0 .. Total, b \in BOOLEAN : <<"seek", v, b>> \in Quiet /\ <<"changed", v, b>> \in Quiet
  /\ \A k \in Triggers : /\ <<"reset", k>> \in Quiet /\ <<"release", k>> \in Quiet
                         /\ <<"under", k>> \in Quiet /\ <<"invalid", k>> \in Quiet
  /\ {"cross"} \X Triggers \X BOOLEAN \X BOOLEAN \subseteq Quiet
  /\ {<<"time">>, <<"timed">>, <<"state">>, <<"clear">>, <<"force">>} \subseteq Quiet
  /\ {<<"sought">>, <<"unlisten">>} \subseteq Lower
  /\ {<<"exit">>, <<"join">>, <<"rewind">>, <<"listen">>} \subseteq Entries
  /\ Quiet \subseteq Lower /\ Lower \subseteq Entries
<1>1. \A c \in Names : <<"trigger", c>> \in Quiet /\ <<"triggered", c>> \in Quiet
  BY DEF Quiet, Lower, Entries, Calls
<1>2. \A b \in BOOLEAN : <<"set", b>> \in Quiet /\ <<"start", b>> \in Quiet
  BY DEF Quiet, Lower, Entries
<1>3. \A v \in 0 .. Total, b \in BOOLEAN : <<"seek", v, b>> \in Quiet /\ <<"changed", v, b>> \in Quiet
  BY DEF Quiet, Lower, Entries
<1>4. \A k \in Triggers : /\ <<"reset", k>> \in Quiet /\ <<"release", k>> \in Quiet
                          /\ <<"under", k>> \in Quiet /\ <<"invalid", k>> \in Quiet
  BY DEF Quiet, Lower, Entries
<1>5. {"cross"} \X Triggers \X BOOLEAN \X BOOLEAN \subseteq Quiet
  BY DEF Quiet, Lower, Entries
<1>6. \A s \in Plain : <<s>> \in Entries /\ <<s>>[1] = s
  BY DEF Entries
<1>7. QED
  BY <1>1, <1>2, <1>3, <1>4, <1>5, <1>6 DEF Quiet, Lower, Plain

\* The ends that a walk crosses.
Between(from, to, onward, onlyUntrigger) ==
  {e \in UNION {EndsOf(k) : k \in Triggers} : from <= e.at /\ e.at <= to /\ (onlyUntrigger => e.on # onward)}

LEMMA BetweenType ==
  ASSUME NEW from, NEW to, NEW onward, NEW onlyUntrigger
  PROVE  /\ Between(from, to, onward, onlyUntrigger) \in SUBSET Ends
         /\ IsFiniteSet(Between(from, to, onward, onlyUntrigger))
<1> DEFINE ends == Between(from, to, onward, onlyUntrigger)
<1>1. ASSUME NEW k \in Triggers PROVE EndsOf(k) \in SUBSET Ends /\ IsFiniteSet(EndsOf(k))
  <2> DEFINE first == [at |-> At[k], of |-> k, on |-> TRUE]
             last == [at |-> At[k] + Length[k], of |-> k, on |-> FALSE]
  <2>1. At[k] \in Nat /\ Length[k] \in Nat /\ At[k] + Length[k] \in Nat
    BY TriggerAssumption
  <2>2. first \in Ends /\ last \in Ends
    BY <2>1 DEF Ends
  <2>3. EndsOf(k) = IF k \in Bars THEN {first} \cup {last} ELSE {first}
    BY DEF EndsOf
  <2> HIDE DEF first, last
  <2>4. IsFiniteSet({first}) /\ IsFiniteSet({first} \cup {last})
    BY FS_Singleton, FS_AddElement
  <2>5. QED
    BY <2>2, <2>3, <2>4
<1>2. IsFiniteSet(UNION {EndsOf(k) : k \in Triggers})
  <2>1. PICK n \in Nat : ExistsSurjection(1 .. n, Triggers)
    BY NumberedTriggers, FS_NatSurjection
  <2>2. PICK f \in Surjection(1 .. n, Triggers) : TRUE
    BY <2>1 DEF ExistsSurjection
  <2> DEFINE sets == {EndsOf(k) : k \in Triggers}
             g == [i \in 1 .. n |-> EndsOf(f[i])]
  <2>3. g \in Surjection(1 .. n, sets)
    BY <2>2 DEF Surjection
  <2> HIDE DEF g
  <2>4. IsFiniteSet(sets)
    BY <2>3, FS_NatSurjection DEF ExistsSurjection
  <2>5. \A T \in sets : IsFiniteSet(T)
    BY <1>1
  <2> HIDE DEF sets
  <2>6. IsFiniteSet(UNION sets)
    BY <2>4, <2>5, FS_UNION
  <2>7. QED
    BY <2>6 DEF sets
<1>3. ends \in SUBSET UNION {EndsOf(k) : k \in Triggers} /\ ends \in SUBSET Ends
  BY <1>1 DEF Between
<1> HIDE DEF ends
<1>4. IsFiniteSet(ends)
  BY <1>2, <1>3, FS_Subset
<1>5. QED
  BY <1>3, <1>4 DEF ends

LEMMA TimespanType ==
  ASSUME NEW from, NEW to, NEW onward \in BOOLEAN, NEW onlyUntrigger \in BOOLEAN
  PROVE  Timespan(from, to, onward, onlyUntrigger) \in Seq({"cross"} \X Triggers \X BOOLEAN \X BOOLEAN)
<1> DEFINE ends == Between(from, to, onward, onlyUntrigger)
           order == IF onward THEN InOrder(ends) ELSE Reverse(InOrder(ends))
           on(e) == IF onward THEN e.on ELSE ~onlyUntrigger /\ (~e.on \/ e.of \notin Bars)
<1>1. ends \in SUBSET Ends /\ IsFiniteSet(ends)
  BY BetweenType
<1> HIDE DEF ends
<1>2. InOrder(ends) \in Seq(Ends)
  <2>1. InOrder(ends) \in Seq(ends)
    BY <1>1, InOrderType
  <2>2. QED
    BY <1>1, <2>1
<1>3. order \in Seq(Ends)
  <2>1. \A q \in Seq(Ends) : Reverse(q) \in Seq(Ends)
    BY DEF Reverse
  <2>2. QED
    BY <1>2, <2>1
<1> HIDE DEF order
<1>4. ASSUME NEW e \in Ends PROVE <<"cross", e.of, on(e), onlyUntrigger>> \in {"cross"} \X Triggers \X BOOLEAN \X BOOLEAN
  <2>1. e.of \in Triggers /\ e.on \in BOOLEAN
    BY DEF Ends
  <2>2. on(e) \in BOOLEAN
    BY <2>1
  <2>3. QED
    BY <2>1, <2>2
<1> HIDE DEF on
<1>5. [i \in DOMAIN order |-> <<"cross", order[i].of, on(order[i]), onlyUntrigger>>]
        \in Seq({"cross"} \X Triggers \X BOOLEAN \X BOOLEAN)
  <2>1. DOMAIN order = 1 .. Len(order) /\ Len(order) \in Nat /\ \A i \in 1 .. Len(order) : order[i] \in Ends
    BY <1>3
  <2> DEFINE crosses == [i \in DOMAIN order |-> <<"cross", order[i].of, on(order[i]), onlyUntrigger>>]
  <2>2. crosses \in [1 .. Len(order) -> {"cross"} \X Triggers \X BOOLEAN \X BOOLEAN]
    BY <1>4, <2>1
  <2>3. QED
    BY <2>1, <2>2
<1>6. Timespan(from, to, onward, onlyUntrigger)
        = [i \in DOMAIN order |-> <<"cross", order[i].of, on(order[i]), onlyUntrigger>>]
  BY DEF Timespan, Between, order, on, ends
<1>7. QED
  BY <1>5, <1>6

\* A stack takes steps that may be below in place of its first one.
LEMMA QuietConcat ==
  ASSUME NEW q \in Seq(Quiet), NEW r \in Seq(Quiet)
  PROVE  q \o r \in Seq(Quiet)
OBVIOUS

LEMMA ReleasesType ==
  /\ Cardinality(Triggers) \in Nat /\ Triggers = 1 .. Cardinality(Triggers)
  /\ Releases \in Seq({"release"} \X Triggers) /\ Len(Releases) = Cardinality(Triggers)
  /\ Releases \in Seq(Quiet) /\ ReleaseAll \in Seq(Quiet)
<1>1. Cardinality(Triggers) \in Nat /\ Triggers = 1 .. Cardinality(Triggers)
  BY TriggerAssumption, FS_CardinalityType
<1>2. Releases \in [1 .. Cardinality(Triggers) -> {"release"} \X Triggers]
  BY <1>1 DEF Releases
<1>3. Releases \in Seq({"release"} \X Triggers) /\ Len(Releases) = Cardinality(Triggers)
  BY <1>1, <1>2
<1>4. Releases \in [1 .. Cardinality(Triggers) -> Quiet]
  <2>1. \A k \in Triggers : <<"release", k>> \in Quiet
    BY QuietEntries
  <2>2. QED
    BY <1>1, <2>1 DEF Releases
<1>5. Releases \in Seq(Quiet)
  BY <1>1, <1>4
<1>6. <<<<"clear">>>> \in Seq(Quiet)
  BY QuietEntries
<1>7. ReleaseAll \in Seq(Quiet)
  BY <1>5, <1>6 DEF ReleaseAll
<1>8. QED
  BY <1>1, <1>3, <1>5, <1>7

\* What is pushed by the walks and by a trigger that fires, and that there is no clear in it
\* but the one of ReleaseAll.
LEMMA UndersType == Unders \in Seq({"under"} \X Triggers)
<1> DEFINE all == [k \in Triggers |-> k]
           under == Selected(all, UnderCursor)
<1>1. all \in Seq(Triggers)
  BY ReleasesType
<1>2. under \in Seq(Triggers)
  BY <1>1, SelectedPicks
<1>3. Unders = [i \in DOMAIN under |-> <<"under", under[i]>>]
  BY DEF Unders
<1> HIDE DEF under
<1>4. DOMAIN under = 1 .. Len(under) /\ Len(under) \in Nat /\ \A i \in 1 .. Len(under) : under[i] \in Triggers
  BY <1>2
<1>5. [i \in DOMAIN under |-> <<"under", under[i]>>] \in [1 .. Len(under) -> {"under"} \X Triggers]
  BY <1>4
<1>6. QED
  BY <1>3, <1>4, <1>5

Unclear == {e \in Quiet : e # <<"clear">>}

LEMMA UnclearSeqs ==
  /\ Seq({"cross"} \X Triggers \X BOOLEAN \X BOOLEAN) \subseteq Seq(Unclear)
  /\ Seq({"under"} \X Triggers) \subseteq Seq(Unclear)
  /\ Seq({"release"} \X Triggers) \subseteq Seq(Unclear)
  /\ Seq(Unclear) \subseteq Seq(Quiet)
<1>1. {"cross"} \X Triggers \X BOOLEAN \X BOOLEAN \subseteq Unclear
  <2>1. \A e \in {"cross"} \X Triggers \X BOOLEAN \X BOOLEAN : e[1] = "cross"
    OBVIOUS
  <2>2. QED
    BY <2>1, QuietEntries DEF Unclear
<1>2. {"under"} \X Triggers \subseteq Unclear /\ {"release"} \X Triggers \subseteq Unclear
  <2>1. \A e \in {"under", "release"} \X Triggers : e[1] # "clear" /\ e = <<e[1], e[2]>> /\ e[2] \in Triggers
    OBVIOUS
  <2>2. \A e \in {"under", "release"} \X Triggers : e \in Quiet
    BY <2>1, QuietEntries
  <2>3. QED
    BY <2>1, <2>2 DEF Unclear
<1>3. Unclear \subseteq Quiet
  BY DEF Unclear
<1>4. QED
  BY <1>1, <1>2, <1>3

LEMMA WalkType ==
  ASSUME NEW from \in 0 .. Total, NEW evaluate \in BOOLEAN, Scalars
  PROVE  \/ Walk(from, evaluate) \in Seq(Unclear)
         \/ \E q \in Seq(Unclear) : Walk(from, evaluate) = q \o ReleaseAll
<1> DEFINE low == IF from < time THEN from ELSE time
           high == IF from < time THEN time ELSE from
<1>1. forward \in BOOLEAN
  BY DEF Scalars
<1>2. (~forward) \in BOOLEAN
  OBVIOUS
<1>3. <<>> \in Seq(Unclear)
  OBVIOUS
<1>4. Timespan(low, high, forward, FALSE) \in Seq(Unclear)
  BY <1>1, TimespanType, UnclearSeqs
<1>5. Timespan(low, high, ~forward, TRUE) \in Seq(Unclear)
  BY <1>2, TimespanType, UnclearSeqs
<1>6. \/ Walk(from, evaluate) = <<>>
      \/ Walk(from, evaluate) = Timespan(low, high, forward, FALSE)
      \/ Walk(from, evaluate) = Timespan(low, high, ~forward, TRUE) \o ReleaseAll
  BY DEF Walk
<1> HIDE DEF low, high
<1>7. QED
  BY <1>3, <1>4, <1>5, <1>6

LEMMA AffectedType == Affected \in Seq(Unclear)
<1>1. <<>> \in Seq(Unclear)
  OBVIOUS
<1>2. QED
  BY <1>1, UndersType, ReleasesType, UnclearSeqs DEF Affected

LEMMA NamesOfEffects ==
  ASSUME NEW c \in Seq(Names)
  PROVE  [i \in DOMAIN c |-> <<"trigger", c[i]>>] \in Seq(Unclear)
                                                      \cap Seq({"trigger"} \X Names)
<1>1. DOMAIN c = 1 .. Len(c) /\ Len(c) \in Nat /\ \A i \in 1 .. Len(c) : c[i] \in Names
  OBVIOUS
<1>2. \A n \in Names : <<"trigger", n>> \in Unclear /\ <<"trigger", n>> \in {"trigger"} \X Names
  BY QuietEntries DEF Unclear
<1>3. /\ [i \in DOMAIN c |-> <<"trigger", c[i]>>] \in [1 .. Len(c) -> Unclear]
      /\ [i \in DOMAIN c |-> <<"trigger", c[i]>>] \in [1 .. Len(c) -> {"trigger"} \X Names]
  BY <1>1, <1>2
<1>4. QED
  BY <1>1, <1>3

LEMMA EffectNames ==
  ASSUME NEW k \in Triggers
  PROVE  Effect[k] \in Seq(Names)
<1>1. Effect \in [Triggers -> Seq({"play", "stop", "pause"})]
  BY PlayerAssumption, Zenon
<1>2. QED
  BY <1>1 DEF Names

LEMMA GivesType ==
  ASSUME NEW k \in Triggers, NEW r
  PROVE  Gives(k, r) \in Seq(Unclear) \cap Seq({"trigger"} \X Names)
<1>1. Effect[k] \in Seq(Names)
  BY EffectNames
<1>2. [i \in DOMAIN Effect[k] |-> <<"trigger", Effect[k][i]>>] \in Seq(Unclear) \cap Seq({"trigger"} \X Names)
  BY <1>1, NamesOfEffects
<1>3. <<>> \in Seq(Unclear) \cap Seq({"trigger"} \X Names)
  OBVIOUS
<1>4. QED
  BY <1>2, <1>3 DEF Gives

-----------------------------------------------------------------------------
\* What pushing steps in place of the first one does to the stacks and to what is locked.
Calm == {e \in Entries : e[1] \notin {"sought", "listen", "unlisten"}}

LEMMA StackKinds ==
  /\ Stacks \in SUBSET Seq(Entries)
  /\ \A q \in Seq(Lower) : q \in Stacks
  /\ \A q \in Seq(Quiet) : q \in Stacks /\ q \in Seq(Calm)
  /\ \A e \in Entries : <<e>> \in Stacks
  /\ \A e \in Entries, f \in Lower : <<e, f>> \in Stacks
  /\ \A e \in Entries, f, g \in Lower : <<e, f, g>> \in Stacks
  /\ \A e \in Entries, f, g, h \in Lower : <<e, f, g, h>> \in Stacks
  /\ Lower \subseteq Entries /\ Quiet \subseteq Lower /\ Quiet \subseteq Calm
<1>1. Lower \subseteq Entries /\ Quiet \subseteq Lower /\ Quiet \subseteq Calm
  BY DEF Lower, Quiet, Calm
<1>2. Stacks \in SUBSET Seq(Entries)
  BY DEF Stacks
<1>3. \A q \in Seq(Lower) : q \in Stacks
  BY <1>1 DEF Stacks
<1>4. \A q \in Seq(Quiet) : q \in Stacks /\ q \in Seq(Calm)
  BY <1>1, <1>3
<1>5. \A e \in Entries : <<e>> \in Stacks
  BY DEF Stacks
<1>6. \A e \in Entries, f \in Lower : <<e, f>> \in Stacks
  BY <1>1 DEF Stacks
<1>7. \A e \in Entries, f, g \in Lower : <<e, f, g>> \in Stacks
  BY <1>1 DEF Stacks
<1>8. \A e \in Entries, f, g, h \in Lower : <<e, f, g, h>> \in Stacks
  BY <1>1 DEF Stacks
<1>9. QED
  BY <1>1, <1>2, <1>3, <1>4, <1>5, <1>6, <1>7, <1>8

LEMMA Replacement ==
  ASSUME NEW q \in Stacks, q # <<>>, NEW new \in Stacks
  PROVE  /\ new \o Tail(q) \in Stacks
         /\ new \o Tail(q) # <<>> =>
              \/ new # <<>> /\ Head(new \o Tail(q)) = Head(new)
              \/ new = <<>> /\ Head(new \o Tail(q)) \in Lower
         /\ Head(q) \in Entries /\ Head(q) = q[1]
         /\ q \in Seq(Entries) /\ new \in Seq(Entries)
<1>1. q \in Seq(Entries) /\ new \in Seq(Entries) /\ Len(q) \in Nat /\ Len(new) \in Nat
  BY StackKinds
<1> DEFINE s == new \o Tail(q)
<1>2. /\ s \in Seq(Entries) /\ Len(s) = Len(new) + Len(q) - 1
      /\ \A i \in 1 .. Len(new) : s[i] = new[i]
      /\ \A i \in 1 .. Len(s) : i > Len(new) => i - Len(new) + 1 \in 2 .. Len(q)
                                                /\ s[i] = q[i - Len(new) + 1]
  BY <1>1, Replaced
<1> HIDE DEF s
<1>3. \A i \in 2 .. Len(s) : s[i] \in Lower
  <2>1. ASSUME NEW i \in 2 .. Len(s) PROVE s[i] \in Lower
    <3>1. CASE i <= Len(new)
      BY <1>1, <1>2, <3>1 DEF Stacks
    <3>2. CASE i > Len(new)
      BY <1>1, <1>2, <3>2 DEF Stacks
    <3>3. QED
      BY <1>1, <3>1, <3>2
  <2>2. QED
    BY <2>1
<1>4. s \in Stacks
  BY <1>2, <1>3 DEF Stacks
<1>5. ASSUME s # <<>>, new # <<>> PROVE Head(s) = Head(new)
  <2>1. Head(s) = s[1] /\ Head(new) = new[1] /\ Len(new) > 0
    BY <1>1, <1>2, <1>5, HeadTailProperties, EmptySeq
  <2>2. QED
    BY <1>1, <1>2, <2>1
<1>6. ASSUME s # <<>>, new = <<>> PROVE Head(s) \in Lower
  <2>1. Head(s) = s[1] /\ Len(s) > 0 /\ Len(new) = 0
    BY <1>1, <1>2, <1>6, HeadTailProperties, EmptySeq
  <2>2. 2 \in 2 .. Len(q) /\ s[1] = q[2]
    BY <1>1, <1>2, <2>1
  <2>3. QED
    BY <2>1, <2>2 DEF Stacks
<1>7. Head(q) \in Entries /\ Head(q) = q[1]
  BY <1>1, HeadTailProperties
<1>8. QED
  BY <1>1, <1>4, <1>5, <1>6, <1>7 DEF s

\* A sequence with no element of A has none to count.
LEMMA NoneCounted ==
  ASSUME NEW S, NEW q \in Seq(S), NEW A, S \cap A = {}
  PROVE  Count(q, A) = 0
<1>1. \A i \in 1 .. Len(q) : q[i] \notin A
  OBVIOUS
<1>2. Count(q, A) \in Nat /\ ~(Count(q, A) > 0)
  BY <1>1, CountType
<1>3. QED
  BY <1>2

LEMMA CalmCounts ==
  ASSUME NEW q \in Seq(Calm)
  PROVE  Count(q, {<<"sought">>}) = 0 /\ Count(q, {<<"unlisten">>}) = 0
<1>1. Calm \cap {<<"sought">>} = {} /\ Calm \cap {<<"unlisten">>} = {}
  BY DEF Calm
<1>2. QED
  BY <1>1, NoneCounted

LEMMA Pushed ==
  ASSUME stack \in [Callers -> Stacks], NEW t \in Callers, stack[t] # <<>>, NEW new \in Stacks, Do(t, new)
  PROVE  /\ stack' \in [Callers -> Stacks]
         /\ stack'[t] = new \o Tail(stack[t])
         /\ \A u \in Callers \ {t} : stack'[u] = stack[u]
         /\ \A A : Count(stack'[t], A) = Count(new, A) + Count(stack[t], A) - One(Head(stack[t]), A)
         /\ new # <<>> => stack'[t] # <<>> /\ Head(stack'[t]) = Head(new)
         /\ new = <<>> /\ stack'[t] # <<>> => Head(stack'[t]) \in Lower
<1>1. stack[t] \in Stacks
  OBVIOUS
<1>2. stack' = [stack EXCEPT ![t] = new \o Tail(@)]
  BY DEF Do
<1>3. new \o Tail(stack[t]) \in Stacks
  BY <1>1, Replacement
<1>4. stack'[t] = new \o Tail(stack[t]) /\ \A u \in Callers \ {t} : stack'[u] = stack[u]
  BY <1>2
<1>5. stack' \in [Callers -> Stacks]
  BY <1>2, <1>3
<1>6. stack[t] \in Seq(Entries) /\ new \in Seq(Entries)
  BY <1>1, Replacement
<1>7. \A A : Count(stack'[t], A) = Count(new, A) + Count(stack[t], A) - One(Head(stack[t]), A)
  BY <1>4, <1>6, CountReplaced
<1>8. new # <<>> => stack'[t] # <<>>
  <2>1. Len(new \o Tail(stack[t])) = Len(new) + Len(stack[t]) - 1
    BY <1>6, Replaced
  <2>2. new # <<>> => Len(new) > 0 /\ Len(new) \in Nat /\ Len(stack[t]) \in Nat /\ Len(stack[t]) > 0
    BY <1>6, EmptySeq
  <2>3. new # <<>> => Len(new \o Tail(stack[t])) > 0
    BY <2>1, <2>2
  <2>4. QED
    BY <1>4, <2>3
<1>9. QED
  BY <1>1, <1>4, <1>5, <1>7, <1>8, Replacement

LEMMA CalmPush ==
  ASSUME Typed, NEW t \in Callers, stack[t] # <<>>,
         Head(stack[t])[1] \notin {"sought", "listen", "unlisten"},
         NEW new \in Stacks, new \in Seq(Calm), Do(t, new),
         timeLock' = timeLock, listening' = listening, player' = player
  PROVE  stack' \in [Callers -> Stacks] /\ Locks'
<1>1. /\ stack' \in [Callers -> Stacks]
      /\ \A u \in Callers \ {t} : stack'[u] = stack[u]
      /\ \A A : Count(stack'[t], A) = Count(new, A) + Count(stack[t], A) - One(Head(stack[t]), A)
      /\ new # <<>> => stack'[t] # <<>> /\ Head(stack'[t]) = Head(new)
      /\ new = <<>> /\ stack'[t] # <<>> => Head(stack'[t]) \in Lower
  BY Pushed DEF Typed
<1>2. Count(new, {<<"sought">>}) = 0 /\ Count(new, {<<"unlisten">>}) = 0
  BY CalmCounts
<1>3. One(Head(stack[t]), {<<"sought">>}) = 0 /\ One(Head(stack[t]), {<<"unlisten">>}) = 0
  BY DEF One
<1>4. stack[t] \in Seq(Entries)
  BY StackKinds DEF Typed
<1>5. Count(stack[t], {<<"sought">>}) \in Nat /\ Count(stack[t], {<<"unlisten">>}) \in Nat
  BY <1>4, CountType
<1>6. /\ Count(stack'[t], {<<"sought">>}) = Count(stack[t], {<<"sought">>})
      /\ Count(stack'[t], {<<"unlisten">>}) = Count(stack[t], {<<"unlisten">>})
  BY <1>1, <1>2, <1>3, <1>5
<1>7. stack'[t] # <<>> => Head(stack'[t])[1] # "listen"
  <2>1. new # <<>> => Head(new) \in Calm
    BY HeadTailProperties
  <2>2. QED
    BY <1>1, <2>1 DEF Lower, Calm
<1>8. \A u \in Callers : Count(stack'[u], {<<"sought">>}) = Soughts(u)
  BY <1>1, <1>6 DEF Soughts
<1>9. m \in Callers
  BY DEF Callers, m
<1>10. Count(stack'[m], {<<"unlisten">>}) = Count(stack[m], {<<"unlisten">>})
  BY <1>1, <1>6, <1>9
<1>11. Opening' = Opening
  <2>1. CASE t = m
    <3>1. ~At_(m, "listen") /\ ~At_(m, "listen")'
      BY <1>7, <2>1 DEF At_, m
    <3>2. QED
      BY <3>1 DEF Opening
  <2>2. CASE t # m
    <3>1. stack'[m] = stack[m]
      BY <1>1, <1>9, <2>2
    <3>2. QED
      BY <3>1 DEF Opening, At_, m
  <2>3. QED
    BY <2>1, <2>2
<1>12. Locks
  BY DEF Typed
<1>13. Locks'
  <2>1. ASSUME NEW u \in Callers PROVE Soughts(u)' = IF timeLock'.by = u THEN timeLock'.n ELSE 0
    BY <1>8, <1>12 DEF Locks, Soughts
  <2>2. player' \in {"sought", "advance"} => timeLock'.by = "player"
    BY <1>12 DEF Locks
  <2>3. listening' = Count(stack'[m], {<<"unlisten">>}) - Opening'
    BY <1>10, <1>11, <1>12 DEF Locks
  <2>4. QED
    BY <2>1, <2>2, <2>3 DEF Locks, m
<1>14. QED
  BY <1>1, <1>13

-----------------------------------------------------------------------------
\* The types.
LEMMA Sizes == Total \in Nat /\ Total > 0 /\ Total \in Int /\ 0 \in 0 .. Total /\ Total \in 0 .. Total
<1>1. Total \in Nat \ {0}
  BY PlayerAssumption, Zenon
<1>2. QED
  BY <1>1

LEMMA TwoCallers ==
  /\ Callers = {m, Other} /\ m \in Callers /\ Other \in Callers /\ m # Other
  /\ "player" \notin Callers /\ None \notin Callers
<1>1. MessageThread # Other /\ {None, "player"} \cap Callers = {}
  BY PlayerAssumption, Zenon
<1>2. QED
  BY <1>1 DEF Callers, m

LEMMA BodyType ==
  ASSUME NEW c \in Names
  PROVE  Body(c) \o <<<<"triggered", c>>>> \in Seq(Quiet)
<1>1. 0 \in 0 .. Total
  BY Sizes
<1>2. /\ <<"set", TRUE>> \in Quiet /\ <<"set", FALSE>> \in Quiet /\ <<"seek", 0, TRUE>> \in Quiet
      /\ <<"triggered", c>> \in Quiet
  BY <1>1, QuietEntries
<1>3. Body(c) \in Seq(Quiet)
  BY <1>2 DEF Body, Names
<1>4. <<<<"triggered", c>>>> \in Seq(Quiet)
  BY <1>2
<1>5. QED
  BY <1>3, <1>4, QuietConcat

\* The step that a caller makes is one of those above.
LEMMA FirstStep ==
  ASSUME Typed, NEW t \in Callers, NEW do, At_(t, do)
  PROVE  /\ stack[t] # <<>> /\ Head(stack[t]) \in Entries /\ Head(stack[t])[1] = do
         /\ stack[t] \in Stacks /\ stack[t] \in Seq(Entries) /\ Head(stack[t]) = stack[t][1]
         /\ Len(stack[t]) > 0 /\ Len(stack[t]) \in Nat
<1>1. stack[t] # <<>> /\ Head(stack[t])[1] = do
  BY DEF At_
<1>2. stack[t] \in Stacks
  BY DEF Typed
<1>3. stack[t] \in Seq(Entries)
  BY <1>2, StackKinds
<1>4. QED
  BY <1>1, <1>2, <1>3, HeadTailProperties, EmptySeq

LEMMA TypedTrigger ==
  ASSUME Typed, NEW t \in Callers, Trigger(t) \/ Ended(t)
  PROVE  Typed'
<1>1. CASE Trigger(t)
  <2>1. At_(t, "trigger")
    BY <1>1 DEF Trigger
  <2>2. stack[t] # <<>> /\ Head(stack[t]) \in Entries /\ Head(stack[t])[1] = "trigger"
    BY <2>1, FirstStep
  <2>3. Arg(t, 1) \in Names
    BY <2>2, EntryParts DEF Arg
  <2> DEFINE new == IF Arg(t, 1) \in triggering THEN <<>>
                    ELSE Body(Arg(t, 1)) \o <<<<"triggered", Arg(t, 1)>>>>
  <2>4. new \in Seq(Quiet)
    BY <2>3, BodyType
  <2>5. Do(t, new)
    BY <1>1 DEF Trigger
  <2> HIDE DEF new
  <2>6. timeLock' = timeLock /\ listening' = listening /\ player' = player
    BY <1>1 DEF Trigger, thread
  <2>7. stack' \in [Callers -> Stacks] /\ Locks'
    BY <2>2, <2>4, <2>5, <2>6, CalmPush, StackKinds
  <2>8. Scalars'
    BY <1>1, <2>3 DEF Trigger, Typed, Scalars, clock, speed, thread, layer, history
  <2>9. QED
    BY <2>7, <2>8 DEF Typed
<1>2. CASE Ended(t)
  <2>1. At_(t, "triggered")
    BY <1>2 DEF Ended
  <2>2. stack[t] # <<>> /\ Head(stack[t]) \in Entries /\ Head(stack[t])[1] = "triggered"
    BY <2>1, FirstStep
  <2>3. Do(t, <<>>) /\ <<>> \in Seq(Quiet)
    BY <1>2 DEF Ended
  <2>4. timeLock' = timeLock /\ listening' = listening /\ player' = player
    BY <1>2 DEF Ended, thread
  <2>5. stack' \in [Callers -> Stacks] /\ Locks'
    BY <2>2, <2>3, <2>4, CalmPush, StackKinds
  <2>6. Scalars'
    BY <1>2 DEF Ended, Typed, Scalars, clock, speed, thread, layer, history
  <2>7. QED
    BY <2>5, <2>6 DEF Typed
<1>3. QED
  BY <1>1, <1>2

LEMMA TypedSet ==
  ASSUME Typed, NEW t \in Callers, Set(t)
  PROVE  Typed'
<1>1. At_(t, "set")
  BY DEF Set
<1>2. stack[t] # <<>> /\ Head(stack[t]) \in Entries /\ Head(stack[t])[1] = "set"
  BY <1>1, FirstStep
<1>3. Arg(t, 1) \in BOOLEAN
  BY <1>2, EntryParts DEF Arg
<1>4. timeLock' = timeLock /\ listening' = listening /\ player' = player
  BY DEF Set, thread
<1>5. Scalars'
  <2>1. playing' \in BOOLEAN /\ interrupted' \in BOOLEAN /\ stopped' \in Callers \cup {None}
    <3>1. playing' = Arg(t, 1) /\ stopped' = IF playing' THEN None ELSE stopped
      BY DEF Set
    <3>2. interrupted' \in BOOLEAN
      BY DEF Set
    <3>3. QED
      BY <1>3, <3>1, <3>2 DEF Typed, Scalars
  <2>2. posted' \in Seq({"time", "playing", "loop"})
    <3>1. posted' = posted \/ posted' = Append(posted, "playing")
      BY DEF Set, Notify
    <3>2. QED
      BY <3>1 DEF Typed, Scalars
  <2>3. QED
    BY <2>1, <2>2 DEF Set, Typed, Scalars, clock, speed, thread, layer
<1>6. stack' \in [Callers -> Stacks] /\ Locks'
  <2>1. CASE Do(t, <<>>)
    <3>1. <<>> \in Seq(Quiet)
      OBVIOUS
    <3>2. QED
      BY <1>2, <1>4, <2>1, <3>1, CalmPush, StackKinds
  <2>2. CASE Do(t, <<<<"exit">>>>)
    <3>1. <<"exit">> \in Entries /\ <<"exit">> \in Calm
      BY QuietEntries DEF Calm
    <3>2. <<<<"exit">>>> \in Stacks /\ <<<<"exit">>>> \in Seq(Calm)
      BY <3>1, StackKinds
    <3>3. QED
      BY <1>2, <1>4, <2>2, <3>2, CalmPush
  <2>3. Do(t, <<>>) \/ Do(t, Called("playing") \o <<>>)
    BY DEF Set, Notify
  <2>4. Called("playing") \o <<>> = <<<<"exit">>>>
    BY DEF Called
  <2>5. QED
    BY <2>1, <2>2, <2>3, <2>4
<1>7. QED
  BY <1>5, <1>6 DEF Typed

\* A step of m that takes no part in the locks of the listeners leaves them.
LEMMA ListenersKept ==
  ASSUME Typed, NEW t \in Callers, stack[t] # <<>>, Head(stack[t])[1] \notin {"listen", "unlisten"},
         NEW new \in Stacks, Count(new, {<<"unlisten">>}) = 0,
         new # <<>> => Head(new)[1] # "listen", Do(t, new), listening' = listening
  PROVE  listening' = Count(stack'[m], {<<"unlisten">>}) - Opening'
<1>1. /\ \A u \in Callers \ {t} : stack'[u] = stack[u]
      /\ \A A : Count(stack'[t], A) = Count(new, A) + Count(stack[t], A) - One(Head(stack[t]), A)
      /\ new # <<>> => stack'[t] # <<>> /\ Head(stack'[t]) = Head(new)
      /\ new = <<>> /\ stack'[t] # <<>> => Head(stack'[t]) \in Lower
  BY Pushed DEF Typed
<1>2. One(Head(stack[t]), {<<"unlisten">>}) = 0
  BY DEF One
<1>3. stack[t] \in Seq(Entries)
  BY StackKinds DEF Typed
<1>4. Count(stack'[t], {<<"unlisten">>}) = Count(stack[t], {<<"unlisten">>})
  <2>1. Count(stack[t], {<<"unlisten">>}) \in Nat
    BY <1>3, CountType
  <2>2. QED
    BY <1>1, <1>2, <2>1
<1>5. Count(stack'[m], {<<"unlisten">>}) = Count(stack[m], {<<"unlisten">>})
  BY <1>1, <1>4, TwoCallers
<1>6. stack'[t] # <<>> => Head(stack'[t])[1] # "listen"
  BY <1>1 DEF Lower
<1>7. Opening' = Opening
  <2>1. CASE t = m
    <3>1. ~At_(m, "listen") /\ ~At_(m, "listen")'
      BY <1>6, <2>1 DEF At_, m
    <3>2. QED
      BY <3>1 DEF Opening
  <2>2. CASE t # m
    <3>1. stack'[m] = stack[m]
      BY <1>1, <2>2, TwoCallers
    <3>2. QED
      BY <3>1 DEF Opening, At_, m
  <2>3. QED
    BY <2>1, <2>2
<1>8. listening = Count(stack[m], {<<"unlisten">>}) - Opening
  BY DEF Typed, Locks
<1>9. QED
  BY <1>5, <1>7, <1>8

LEMMA PairConcat ==
  ASSUME NEW a, NEW b
  PROVE  <<a>> \o <<b>> = <<a, b>>
<1>1. <<a>> \in Seq({a, b}) /\ <<b>> \in Seq({a, b}) /\ <<a, b>> \in Seq({a, b})
  OBVIOUS
<1>2. <<a>> \o <<b>> \in Seq({a, b}) /\ Len(<<a>> \o <<b>>) = 2
      /\ (<<a>> \o <<b>>)[1] = a /\ (<<a>> \o <<b>>)[2] = b
  BY <1>1, ConcatProperties
<1>3. Len(<<a, b>>) = 2 /\ <<a, b>>[1] = a /\ <<a, b>>[2] = b
  OBVIOUS
<1>4. \A i \in 1 .. 2 : (<<a>> \o <<b>>)[i] = <<a, b>>[i]
  BY <1>2, <1>3
<1>5. QED
  BY <1>1, <1>2, <1>3, <1>4, SeqEqual

LEMMA OtherNames == None # "player"
BY PlayerAssumption, Zenon

LEMMA LockKinds ==
  ASSUME Scalars
  PROVE  /\ timeLock.by \in Callers \cup {None, "player"} /\ timeLock.n \in Nat
         /\ timeLock.by = None <=> timeLock = Free
         /\ timeLock.by = None => timeLock.n = 0
         /\ timeLock.by # None => timeLock.n > 0
         /\ timeLock = [by |-> timeLock.by, n |-> timeLock.n]
         /\ Free.by = None /\ Free.n = 0
<1>1. timeLock = Free \/ timeLock \in [by : Callers \cup {"player"}, n : Nat \ {0}]
  BY DEF Scalars
<1>2. None \notin Callers \cup {"player"}
  BY PlayerAssumption, Zenon
<1>3. QED
  BY <1>1, <1>2 DEF Free

LEMMA TypedSeek ==
  ASSUME Typed, NEW t \in Callers, Seek(t)
  PROVE  Typed'
<1>1. At_(t, "seek") /\ CanLock(t) /\ Lock(t)
  BY DEF Seek
<1>2. stack[t] # <<>> /\ Head(stack[t]) \in Entries /\ Head(stack[t])[1] = "seek"
  BY <1>1, FirstStep
<1>3. Arg(t, 1) \in 0 .. Total /\ Arg(t, 2) \in BOOLEAN
  BY <1>2, EntryParts DEF Arg
<1>4. listening' = listening /\ player' = player
  BY DEF Seek, thread
<1> DEFINE news == {<<<<"sought">>>>, <<<<"time">>, <<"sought">>>>}
<1>5. PICK new \in news : Do(t, new)
  <2>1. Do(t, <<<<"sought">>>>) \/ Do(t, Called("time") \o <<<<"sought">>>>)
    BY DEF Seek, Notify
  <2>2. Called("time") \o <<<<"sought">>>> = <<<<"time">>, <<"sought">>>>
    BY PairConcat DEF Called
  <2>3. QED
    BY <2>1, <2>2
<1>6. /\ new \in Stacks /\ new # <<>> /\ Head(new)[1] # "listen"
      /\ Count(new, {<<"unlisten">>}) = 0 /\ Count(new, {<<"sought">>}) = 1
  <2>1. <<"sought">> \in Lower /\ <<"time">> \in Lower /\ <<"sought">> \in Entries /\ <<"time">> \in Entries
    BY QuietEntries DEF Lower
  <2>2. CASE new = <<<<"sought">>>>
    <3>1. new \in Stacks
      BY <2>1, <2>2, StackKinds
    <3>2. Count(new, {<<"unlisten">>}) = 0 /\ Count(new, {<<"sought">>}) = 1
      BY <2>2, CountOne DEF One
    <3>3. QED
      BY <2>2, <3>1, <3>2
  <2>3. CASE new = <<<<"time">>, <<"sought">>>>
    <3>1. new \in Stacks
      BY <2>1, <2>3, StackKinds
    <3>2. \A A : Count(<<<<"time">>, <<"sought">>>>, A) = One(<<"time">>, A) + One(<<"sought">>, A)
      BY <2>1, CountTwo
    <3>3. Count(new, {<<"unlisten">>}) = 0 /\ Count(new, {<<"sought">>}) = 1
      BY <2>3, <3>2 DEF One
    <3>4. QED
      BY <2>3, <3>1, <3>3
  <2>4. QED
    BY <2>2, <2>3
<1>7. /\ stack' \in [Callers -> Stacks]
      /\ \A u \in Callers \ {t} : stack'[u] = stack[u]
      /\ Count(stack'[t], {<<"sought">>}) = 1 + Soughts(t) - One(Head(stack[t]), {<<"sought">>})
  BY <1>2, <1>5, <1>6, Pushed DEF Typed, Soughts
<1> HIDE DEF news
<1>8. listening' = Count(stack'[m], {<<"unlisten">>}) - Opening'
  BY <1>2, <1>4, <1>5, <1>6, ListenersKept
<1>9. Scalars /\ Locks
  BY DEF Typed
<1>10. timeLock' = [by |-> t, n |-> timeLock.n + 1] /\ timeLock.by \in {None, t}
  BY <1>1 DEF Lock, CanLock
<1>11. \A u \in Callers : Soughts(u) = IF timeLock.by = u THEN timeLock.n ELSE 0
  BY <1>9 DEF Locks
<1>12. Soughts(t) = timeLock.n /\ timeLock.n \in Nat
  BY <1>9, <1>10, <1>11, LockKinds, TwoCallers
<1>13. \A u \in Callers : Soughts(u)' = IF timeLock'.by = u THEN timeLock'.n ELSE 0
  <2>1. One(Head(stack[t]), {<<"sought">>}) = 0
    BY <1>2 DEF One
  <2>2. Soughts(t)' = timeLock.n + 1
    BY <1>7, <1>12, <2>1 DEF Soughts
  <2>3. ASSUME NEW u \in Callers \ {t} PROVE Soughts(u)' = 0
    <3>1. Soughts(u)' = Soughts(u)
      BY <1>7 DEF Soughts
    <3>2. Soughts(u) = 0
      BY <1>10, <1>11, TwoCallers
    <3>3. QED
      BY <3>1, <3>2
  <2>4. timeLock'.by = t /\ timeLock'.n = timeLock.n + 1
    BY <1>10
  <2>5. QED
    BY <2>2, <2>3, <2>4
<1>14. Locks'
  <2>1. player \notin {"sought", "advance"}
    <3>1. timeLock.by # "player"
      BY <1>10, TwoCallers, OtherNames
    <3>2. QED
      BY <1>9, <3>1 DEF Locks
  <2>2. QED
    BY <1>4, <1>8, <1>13, <2>1 DEF Locks, m
<1>15. Scalars'
  <2>1. timeLock' \in [by : Callers \cup {"player"}, n : Nat \ {0}]
    BY <1>10, <1>12
  <2>2. posted' \in Seq({"time", "playing", "loop"})
    <3>1. posted' = posted \/ posted' = Append(posted, "time")
      BY DEF Seek, Notify
    <3>2. QED
      BY <1>9, <3>1 DEF Scalars
  <2>3. /\ time' \in 0 .. Total /\ target' \in Int /\ seeking' \in BOOLEAN
        /\ stopped' \in Callers \cup {None}
    <3>1. time' = Arg(t, 1) /\ target' = Arg(t, 1) /\ seeking' = Arg(t, 2)
      BY DEF Seek
    <3>2. stopped' = t \/ stopped' = None
      BY DEF Seek
    <3>3. Arg(t, 1) \in Int
      BY <1>3, Sizes
    <3>4. QED
      BY <1>3, <3>1, <3>2, <3>3
  <2>4. QED
    BY <1>9, <2>1, <2>2, <2>3 DEF Seek, Scalars, speed, thread, layer
<1>16. QED
  BY <1>7, <1>14, <1>15 DEF Typed

LEMMA TypedSought ==
  ASSUME Typed, NEW t \in Callers, Sought(t)
  PROVE  Typed'
<1>1. At_(t, "sought") /\ Do(t, <<>>) /\ Unlock
  BY DEF Sought
<1>2. /\ stack[t] # <<>> /\ Head(stack[t]) = <<"sought">> /\ stack[t] \in Seq(Entries)
      /\ stack[t][1] = <<"sought">> /\ Len(stack[t]) \in Nat /\ Len(stack[t]) > 0
  <2>1. /\ stack[t] # <<>> /\ Head(stack[t]) \in Entries /\ Head(stack[t])[1] = "sought"
        /\ stack[t] \in Seq(Entries) /\ Head(stack[t]) = stack[t][1]
        /\ Len(stack[t]) \in Nat /\ Len(stack[t]) > 0
    BY <1>1, FirstStep
  <2>2. Head(stack[t]) = <<Head(stack[t])[1]>>
    BY <2>1, EntryParts DEF Plain
  <2>3. QED
    BY <2>1, <2>2
<1>3. listening' = listening /\ player' = player
  BY DEF Sought, thread
<1>4. <<>> \in Stacks /\ \A A : Count(<<>>, A) = 0
  <2>1. <<>> \in Seq(Lower)
    OBVIOUS
  <2>2. QED
    BY <2>1, StackKinds, CountOne
<1>5. /\ stack' \in [Callers -> Stacks]
      /\ \A u \in Callers \ {t} : stack'[u] = stack[u]
      /\ Count(stack'[t], {<<"sought">>}) = 0 + Soughts(t) - One(Head(stack[t]), {<<"sought">>})
  BY <1>1, <1>2, <1>4, Pushed DEF Typed, Soughts
<1>6. listening' = Count(stack'[m], {<<"unlisten">>}) - Opening'
  <2>1. Head(stack[t])[1] \notin {"listen", "unlisten"}
    BY <1>2
  <2>2. QED
    BY <1>1, <1>2, <1>3, <1>4, <2>1, ListenersKept
<1>7. Scalars /\ Locks
  BY DEF Typed
<1>8. \A u \in Callers : Soughts(u) = IF timeLock.by = u THEN timeLock.n ELSE 0
  BY <1>7 DEF Locks
<1>9. Soughts(t) > 0
  <2>1. 1 \in 1 .. Len(stack[t]) /\ stack[t][1] \in {<<"sought">>}
    BY <1>2
  <2>2. \E i \in 1 .. Len(stack[t]) : stack[t][i] \in {<<"sought">>}
    BY <2>1
  <2>3. QED
    BY <1>2, <2>2, CountType DEF Soughts
<1>10. timeLock.by = t /\ Soughts(t) = timeLock.n /\ timeLock.n \in Nat
  BY <1>7, <1>8, <1>9, LockKinds
<1>11. One(Head(stack[t]), {<<"sought">>}) = 1
  BY <1>2 DEF One
<1>12. timeLock' = IF timeLock.n = 1 THEN Free ELSE [by |-> t, n |-> timeLock.n - 1]
  BY <1>1, <1>7, <1>10, LockKinds DEF Unlock
<1>13. \A u \in Callers : Soughts(u)' = IF timeLock'.by = u THEN timeLock'.n ELSE 0
  <2>1. Soughts(t)' = timeLock.n - 1
    BY <1>5, <1>10, <1>11 DEF Soughts
  <2>2. ASSUME NEW u \in Callers \ {t} PROVE Soughts(u)' = 0
    <3>1. Soughts(u)' = Soughts(u)
      BY <1>5 DEF Soughts
    <3>2. QED
      BY <1>8, <1>10, <3>1
  <2>3. CASE timeLock.n = 1
    <3>1. timeLock'.by = None
      BY <1>12, <2>3 DEF Free
    <3>2. QED
      BY <2>1, <2>2, <2>3, <3>1, TwoCallers
  <2>4. CASE timeLock.n # 1
    <3>1. timeLock'.by = t /\ timeLock'.n = timeLock.n - 1
      BY <1>12, <2>4
    <3>2. QED
      BY <2>1, <2>2, <3>1
  <2>5. QED
    BY <2>3, <2>4
<1>14. Locks'
  <2>1. player \notin {"sought", "advance"}
    <3>1. timeLock.by # "player"
      BY <1>10, TwoCallers
    <3>2. QED
      BY <1>7, <3>1 DEF Locks
  <2>2. QED
    BY <1>3, <1>6, <1>13, <2>1 DEF Locks, m
<1>15. Scalars'
  <2>1. timeLock' \in {Free} \cup [by : Callers \cup {"player"}, n : Nat \ {0}]
    BY <1>9, <1>10, <1>12
  <2>2. QED
    BY <1>7, <2>1 DEF Sought, Scalars, speed, thread, layer, history
<1>16. QED
  BY <1>5, <1>14, <1>15 DEF Typed

\* Pushing the steps that open a call of the listeners.
LEMMA OpeningPush ==
  ASSUME Typed, stack[m] # <<>>, Head(stack[m])[1] \notin {"sought", "listen", "unlisten"},
         NEW new \in Stacks, new # <<>>, Head(new) = <<"listen">>,
         Count(new, {<<"sought">>}) = 0, Count(new, {<<"unlisten">>}) = 1, Do(m, new),
         timeLock' = timeLock, listening' = listening,
         player' \in {"sought", "advance"} => player \in {"sought", "advance"}
  PROVE  stack' \in [Callers -> Stacks] /\ Locks'
<1>1. /\ stack' \in [Callers -> Stacks]
      /\ \A u \in Callers \ {m} : stack'[u] = stack[u]
      /\ \A A : Count(stack'[m], A) = Count(new, A) + Count(stack[m], A) - One(Head(stack[m]), A)
      /\ stack'[m] # <<>> /\ Head(stack'[m]) = <<"listen">>
  BY Pushed, TwoCallers DEF Typed
<1>2. One(Head(stack[m]), {<<"sought">>}) = 0 /\ One(Head(stack[m]), {<<"unlisten">>}) = 0
  BY DEF One
<1>3. stack[m] \in Seq(Entries)
  BY StackKinds, TwoCallers DEF Typed
<1>4. Count(stack[m], {<<"sought">>}) \in Nat /\ Count(stack[m], {<<"unlisten">>}) \in Nat
  BY <1>3, CountType
<1>5. /\ Count(stack'[m], {<<"sought">>}) = Count(stack[m], {<<"sought">>})
      /\ Count(stack'[m], {<<"unlisten">>}) = Count(stack[m], {<<"unlisten">>}) + 1
  BY <1>1, <1>2, <1>4
<1>6. \A u \in Callers : Count(stack'[u], {<<"sought">>}) = Soughts(u)
  BY <1>1, <1>5 DEF Soughts
<1>7. Opening = 0 /\ Opening' = 1
  BY <1>1 DEF Opening, At_, m
<1>8. Locks
  BY DEF Typed
<1>9. Locks'
  <2>1. ASSUME NEW u \in Callers PROVE Soughts(u)' = IF timeLock'.by = u THEN timeLock'.n ELSE 0
    BY <1>6, <1>8 DEF Locks, Soughts
  <2>2. player' \in {"sought", "advance"} => timeLock'.by = "player"
    BY <1>8 DEF Locks
  <2>3. listening' = Count(stack'[m], {<<"unlisten">>}) - Opening'
    BY <1>4, <1>5, <1>7, <1>8 DEF Locks
  <2>4. QED
    BY <2>1, <2>2, <2>3 DEF Locks, m
<1>10. QED
  BY <1>1, <1>9

\* Giving steps to a caller that has none.
LEMMA Given ==
  ASSUME Typed, NEW t \in Callers, stack[t] = <<>>, NEW new \in Stacks,
         stack' = [stack EXCEPT ![t] = new], Count(new, {<<"sought">>}) = 0,
         Count(new, {<<"unlisten">>}) = (IF new # <<>> /\ Head(new) = <<"listen">> THEN 1 ELSE 0),
         timeLock' = timeLock, listening' = listening, player' = player
  PROVE  stack' \in [Callers -> Stacks] /\ Locks'
<1>1. /\ stack' \in [Callers -> Stacks] /\ stack'[t] = new
      /\ \A u \in Callers \ {t} : stack'[u] = stack[u]
  BY DEF Typed
<1>2. \A A : Count(<<>>, A) = 0
  BY CountOne
<1>3. \A u \in Callers : Count(stack'[u], {<<"sought">>}) = Soughts(u)
  BY <1>1, <1>2 DEF Soughts
<1>4. Count(stack'[m], {<<"unlisten">>}) - Opening' = Count(stack[m], {<<"unlisten">>}) - Opening
  <2>1. CASE t = m
    <3>1. Opening = 0 /\ Count(stack[m], {<<"unlisten">>}) = 0
      BY <1>2, <2>1 DEF Opening, At_
    <3>2. Opening' = IF new # <<>> /\ Head(new)[1] = "listen" THEN 1 ELSE 0
      BY <1>1, <2>1 DEF Opening, At_, m
    <3>3. new # <<>> => (Head(new)[1] = "listen" <=> Head(new) = <<"listen">>)
      <4>1. new \in Seq(Entries)
        BY StackKinds
      <4>2. new # <<>> => Head(new) \in Entries
        BY <4>1, HeadTailProperties
      <4>3. QED
        BY <4>2, EntryParts DEF Plain
    <3>4. Count(stack'[m], {<<"unlisten">>}) = Opening'
      BY <1>1, <2>1, <3>2, <3>3
    <3>5. Opening' \in Int
      BY <3>2
    <3>6. QED
      BY <3>1, <3>4, <3>5
  <2>2. CASE t # m
    <3>1. stack'[m] = stack[m]
      BY <1>1, <2>2, TwoCallers
    <3>2. QED
      BY <3>1 DEF Opening, At_, m
  <2>3. QED
    BY <2>1, <2>2
<1>5. Locks
  BY DEF Typed
<1>6. Locks'
  <2>1. ASSUME NEW u \in Callers PROVE Soughts(u)' = IF timeLock'.by = u THEN timeLock'.n ELSE 0
    BY <1>3, <1>5 DEF Locks, Soughts
  <2>2. listening' = Count(stack'[m], {<<"unlisten">>}) - Opening'
    BY <1>4, <1>5 DEF Locks
  <2>3. QED
    BY <1>5, <2>1, <2>2 DEF Locks, m
<1>7. QED
  BY <1>1, <1>6

\* The handlers, by what they push: one step that may only be the first, or steps that may
\* be anywhere.
LEMMA OneStep ==
  ASSUME NEW e \in Entries, e \in Calm
  PROVE  <<e>> \in Stacks /\ <<e>> \in Seq(Calm)
BY StackKinds

LEMMA TypedExits ==
  ASSUME Typed, Exit \/ Join \/ Rewind
  PROVE  Typed'
<1>1. <<"join">> \in Entries /\ <<"rewind">> \in Entries /\ <<"join">> \in Calm /\ <<"rewind">> \in Calm
  BY QuietEntries DEF Calm
<1>2. timeLock' = timeLock /\ listening' = listening /\ player' = player
  BY DEF Exit, Join, Rewind, thread
<1>3. PICK do \in {"exit", "join", "rewind"} : At_(m, do)
  BY DEF Exit, Join, Rewind
<1>4. stack[m] # <<>> /\ Head(stack[m])[1] \notin {"sought", "listen", "unlisten"}
  BY <1>3, FirstStep, TwoCallers
<1>5. PICK new \in Stacks : new \in Seq(Calm) /\ Do(m, new)
  <2>1. CASE Exit
    BY <1>1, <2>1, OneStep DEF Exit
  <2>2. CASE Join
    BY <1>1, <2>2, OneStep DEF Join
  <2>3. CASE Rewind
    <3>1. playing \in BOOLEAN
      BY DEF Typed, Scalars
    <3>2. <<"seek", 0, TRUE>> \in Quiet /\ <<"start", playing>> \in Quiet
      BY <3>1, Sizes, QuietEntries
    <3>3. (IF playing /\ time >= Total THEN <<<<"seek", 0, TRUE>>>> ELSE <<>>) \in Seq(Quiet)
          /\ <<<<"start", playing>>>> \in Seq(Quiet)
      BY <3>2
    <3>4. (IF playing /\ time >= Total THEN <<<<"seek", 0, TRUE>>>> ELSE <<>>) \o <<<<"start", playing>>>>
            \in Seq(Quiet)
      BY <3>3, QuietConcat
    <3>5. QED
      BY <2>3, <3>4, StackKinds DEF Rewind
  <2>4. QED
    BY <2>1, <2>2, <2>3
<1>6. stack' \in [Callers -> Stacks] /\ Locks'
  BY <1>2, <1>4, <1>5, CalmPush, TwoCallers
<1>7. Scalars'
  <2>1. exit' \in BOOLEAN
    BY DEF Exit, Join, Rewind, thread, Typed, Scalars
  <2>2. QED
    BY <2>1 DEF Exit, Join, Rewind, Typed, Scalars, clock, speed, thread, layer, history
<1>8. QED
  BY <1>6, <1>7 DEF Typed

\* The calls of listeners: one that opens them and one that ends them.
Opens(new) == /\ new \in Stacks /\ new # <<>> /\ Head(new) = <<"listen">>
              /\ Count(new, {<<"sought">>}) = 0 /\ Count(new, {<<"unlisten">>}) = 1

LEMMA ShortOpenings ==
  ASSUME NEW a \in Quiet, NEW b \in Quiet
  PROVE  /\ Opens(<<<<"listen">>, a, <<"unlisten">>>>)
         /\ Opens(<<<<"listen">>, a, <<"unlisten">>, b>>)
<1> DEFINE S == Entries
<1>1. <<"listen">> \in S /\ <<"unlisten">> \in Lower /\ <<"unlisten">> \in S /\ a \in S /\ b \in S
      /\ a \in Lower /\ b \in Lower
  BY QuietEntries
<1>2. /\ <<<<"listen">>, a, <<"unlisten">>>> \in Stacks
      /\ <<<<"listen">>, a, <<"unlisten">>, b>> \in Stacks
  BY <1>1, StackKinds
<1>3. \A A : Count(<<<<"listen">>, a, <<"unlisten">>>>, A)
               = One(<<"listen">>, A) + One(a, A) + One(<<"unlisten">>, A)
  BY <1>1, CountThree
<1>4. \A A : Count(<<<<"listen">>, a, <<"unlisten">>, b>>, A)
               = One(<<"listen">>, A) + One(a, A) + One(<<"unlisten">>, A) + One(b, A)
  BY <1>1, CountFour
<1>5. \A e \in {a, b} : One(e, {<<"sought">>}) = 0 /\ One(e, {<<"unlisten">>}) = 0
  BY DEF Quiet, One
<1>6. /\ One(<<"listen">>, {<<"sought">>}) = 0 /\ One(<<"listen">>, {<<"unlisten">>}) = 0
      /\ One(<<"unlisten">>, {<<"sought">>}) = 0 /\ One(<<"unlisten">>, {<<"unlisten">>}) = 1
  BY DEF One
<1>7. Opens(<<<<"listen">>, a, <<"unlisten">>>>)
  BY <1>2, <1>3, <1>5, <1>6 DEF Opens
<1>8. Opens(<<<<"listen">>, a, <<"unlisten">>, b>>)
  BY <1>2, <1>4, <1>5, <1>6 DEF Opens
<1>9. QED
  BY <1>7, <1>8

LEMMA EvaluatesType ==
  ASSUME Scalars
  PROVE  Evaluates \in BOOLEAN
<1>1. playing \in BOOLEAN /\ (~playing) \in BOOLEAN /\ (EvaluateOnSeek = "always") \in BOOLEAN
  BY DEF Scalars
<1>2. EvaluateOnSeek = "playing" => Evaluates = playing
  BY DEF Evaluates
<1>3. EvaluateOnSeek = "not playing" => Evaluates = (~playing)
  BY DEF Evaluates
<1>4. EvaluateOnSeek \notin {"playing", "not playing"} => Evaluates = (EvaluateOnSeek = "always")
  BY DEF Evaluates
<1>5. QED
  BY <1>1, <1>2, <1>3, <1>4

LEMMA TypedOpenings ==
  ASSUME Typed, Start \/ TimeChanged
  PROVE  Typed'
<1>1. Scalars
  BY DEF Typed
<1>2. PICK do \in {"start", "time"} : At_(m, do)
  BY DEF Start, TimeChanged
<1>3. stack[m] # <<>> /\ Head(stack[m])[1] \notin {"sought", "listen", "unlisten"}
  BY <1>2, FirstStep, TwoCallers
<1>4. PICK new : Opens(new) /\ Do(m, new)
  <2>1. CASE Start
    <3>1. <<"state">> \in Quiet
      BY QuietEntries
    <3>2. Do(m, <<<<"listen">>, <<"state">>, <<"unlisten">>>>)
      BY <2>1 DEF Start
    <3>3. QED
      BY <3>1, <3>2, ShortOpenings
  <2>2. CASE TimeChanged
    <3>1. prev \in 0 .. Total /\ Evaluates \in BOOLEAN
      BY <1>1, EvaluatesType DEF Scalars
    <3>2. <<"timed">> \in Quiet /\ <<"changed", prev, Evaluates>> \in Quiet
      BY <3>1, QuietEntries
    <3>3. Do(m, <<<<"listen">>, <<"changed", prev, Evaluates>>, <<"unlisten">>, <<"timed">>>>)
      BY <2>2 DEF TimeChanged
    <3>4. QED
      BY <3>2, <3>3, ShortOpenings
  <2>3. QED
    BY <2>1, <2>2
<1>5. /\ timeLock' = timeLock /\ listening' = listening
      /\ player' \in {"sought", "advance"} => player \in {"sought", "advance"}
  BY DEF Start, TimeChanged, thread
<1>6. stack' \in [Callers -> Stacks] /\ Locks'
  BY <1>3, <1>4, <1>5, OpeningPush DEF Opens
<1>7. Scalars'
  <2>1. CASE Start
    <3>1. prev' \in 0 .. Total
      BY <1>1, <2>1 DEF Start, Scalars
    <3>2. (player' = player \/ player' = "begin") /\ exit' \in BOOLEAN
      BY <1>1, <2>1 DEF Start, Scalars
    <3>3. player' \in Stages /\ (player' \in {"loop", "jump", "retarget", "set"} => next' \in 0 .. Total)
      BY <1>1, <2>1, <3>2 DEF Start, Scalars, Stages
    <3>4. QED
      BY <1>1, <2>1, <3>1, <3>2, <3>3 DEF Start, Scalars, speed, layer, history
  <2>2. CASE TimeChanged
    BY <1>1, <2>2 DEF TimeChanged, Scalars, clock, speed, thread, layer, history
  <2>3. QED
    BY <2>1, <2>2
<1>8. QED
  BY <1>6, <1>7 DEF Typed

LEMMA TypedListen ==
  ASSUME Typed, Listen
  PROVE  Typed'
<1>1. PICK do \in {"listen", "unlisten"} : At_(m, do)
  BY DEF Listen
<1>2. /\ stack[m] # <<>> /\ Head(stack[m]) = <<do>> /\ stack[m] \in Seq(Entries)
      /\ stack[m][1] = <<do>> /\ Len(stack[m]) \in Nat /\ Len(stack[m]) > 0
  <2>1. /\ stack[m] # <<>> /\ Head(stack[m]) \in Entries /\ Head(stack[m])[1] = do
        /\ stack[m] \in Seq(Entries) /\ Head(stack[m]) = stack[m][1]
        /\ Len(stack[m]) \in Nat /\ Len(stack[m]) > 0
    BY <1>1, FirstStep, TwoCallers
  <2>2. Head(stack[m]) = <<Head(stack[m])[1]>>
    BY <2>1, EntryParts DEF Plain
  <2>3. QED
    BY <2>1, <2>2
<1>3. Do(m, <<>>) /\ <<>> \in Stacks /\ \A A : Count(<<>>, A) = 0
  <2>1. <<>> \in Seq(Lower)
    OBVIOUS
  <2>2. QED
    BY <2>1, StackKinds, CountOne DEF Listen
<1>4. /\ stack' \in [Callers -> Stacks]
      /\ \A u \in Callers \ {m} : stack'[u] = stack[u]
      /\ \A A : Count(stack'[m], A) = 0 + Count(stack[m], A) - One(Head(stack[m]), A)
      /\ stack'[m] # <<>> => Head(stack'[m]) \in Lower
  BY <1>2, <1>3, Pushed, TwoCallers DEF Typed
<1>5. Scalars /\ Locks
  BY DEF Typed
<1>6. Count(stack[m], {<<"sought">>}) \in Nat /\ Count(stack[m], {<<"unlisten">>}) \in Nat
  BY <1>2, CountType
<1>7. Count(stack'[m], {<<"sought">>}) = Count(stack[m], {<<"sought">>})
  BY <1>2, <1>4, <1>6 DEF One
<1>8. Opening' = 0
  BY <1>4 DEF Opening, At_, m, Lower
<1>9. listening' = Count(stack'[m], {<<"unlisten">>}) /\ listening' \in Nat
  <2>1. listening = Count(stack[m], {<<"unlisten">>}) - Opening
    BY <1>5 DEF Locks
  <2>2. CASE do = "listen"
    <3>1. At_(m, "listen") /\ Opening = 1
      BY <1>1, <2>2 DEF Opening
    <3>2. listening' = listening + 1 /\ One(Head(stack[m]), {<<"unlisten">>}) = 0
      BY <1>2, <2>2, <3>1 DEF Listen, One
    <3>3. QED
      BY <1>4, <1>6, <2>1, <3>1, <3>2
  <2>3. CASE do = "unlisten"
    <3>1. ~At_(m, "listen") /\ Opening = 0
      BY <1>2, <2>3 DEF Opening, At_
    <3>2. listening' = listening - 1 /\ One(Head(stack[m]), {<<"unlisten">>}) = 1
      <4>1. listening' = listening + (-1)
        BY <3>1 DEF Listen
      <4>2. QED
        BY <1>2, <1>5, <2>3, <4>1 DEF One, Scalars
    <3>3. Count(stack[m], {<<"unlisten">>}) > 0
      <4>1. 1 \in 1 .. Len(stack[m]) /\ stack[m][1] \in {<<"unlisten">>}
        BY <1>2, <2>3
      <4>2. \E i \in 1 .. Len(stack[m]) : stack[m][i] \in {<<"unlisten">>}
        BY <4>1
      <4>3. QED
        BY <1>2, <4>2, CountType
    <3>4. QED
      BY <1>4, <1>6, <2>1, <3>1, <3>2, <3>3
  <2>4. QED
    BY <2>2, <2>3
<1>10. Locks'
  <2>1. ASSUME NEW u \in Callers PROVE Soughts(u)' = IF timeLock'.by = u THEN timeLock'.n ELSE 0
    <3>1. Soughts(u)' = Soughts(u) /\ timeLock' = timeLock
      BY <1>4, <1>7 DEF Soughts, Listen
    <3>2. QED
      BY <1>5, <3>1 DEF Locks
  <2>2. player' \in {"sought", "advance"} => timeLock'.by = "player"
    BY <1>5 DEF Locks, Listen, thread
  <2>3. listening' = Count(stack'[m], {<<"unlisten">>}) - Opening'
    BY <1>8, <1>9
  <2>4. QED
    BY <2>1, <2>2, <2>3 DEF Locks, m
<1>11. Scalars'
  BY <1>5, <1>9 DEF Listen, Scalars, clock, speed, thread, layer, history
<1>12. QED
  BY <1>4, <1>10, <1>11 DEF Typed

LEMMA QuietHandler ==
  ASSUME Typed, NEW do, At_(m, do), do \notin {"sought", "listen", "unlisten"},
         NEW new \in Seq(Quiet), Do(m, new), UNCHANGED <<thread, timeLock, listening>>
  PROVE  stack' \in [Callers -> Stacks] /\ Locks'
<1>1. stack[m] # <<>> /\ Head(stack[m])[1] \notin {"sought", "listen", "unlisten"}
  BY FirstStep, TwoCallers
<1>2. new \in Stacks /\ new \in Seq(Calm)
  BY StackKinds
<1>3. timeLock' = timeLock /\ listening' = listening /\ player' = player
  BY DEF thread
<1>4. QED
  BY <1>1, <1>2, <1>3, CalmPush, TwoCallers

LEMMA WalkQuiet ==
  ASSUME NEW from \in 0 .. Total, NEW evaluate \in BOOLEAN, Scalars
  PROVE  Walk(from, evaluate) \in Seq(Quiet)
<1>1. CASE Walk(from, evaluate) \in Seq(Unclear)
  BY <1>1, UnclearSeqs
<1>2. ASSUME NEW q \in Seq(Unclear), Walk(from, evaluate) = q \o ReleaseAll
      PROVE  Walk(from, evaluate) \in Seq(Quiet)
  <2>1. q \in Seq(Quiet) /\ ReleaseAll \in Seq(Quiet)
    BY UnclearSeqs, ReleasesType
  <2>2. QED
    BY <1>2, <2>1, QuietConcat
<1>3. QED
  BY <1>1, <1>2, WalkType

LEMMA TypedWalks ==
  ASSUME Typed, Timed \/ Changed \/ StateChanged \/ ForceUpdate
  PROVE  Typed'
<1>1. Scalars
  BY DEF Typed
<1>2. CASE Timed
  <2>1. At_(m, "timed") /\ Do(m, <<>>) /\ UNCHANGED <<thread, timeLock, listening>> /\ <<>> \in Seq(Quiet)
    BY <1>2 DEF Timed
  <2>2. stack' \in [Callers -> Stacks] /\ Locks'
    BY <2>1, QuietHandler
  <2>3. Scalars'
    BY <1>1, <1>2 DEF Timed, Scalars, speed, thread, layer, history
  <2>4. QED
    BY <2>2, <2>3 DEF Typed
<1>3. CASE Changed
  <2>1. At_(m, "changed") /\ UNCHANGED <<thread, timeLock, listening>>
    BY <1>3 DEF Changed
  <2>2. Head(stack[m]) \in Entries /\ Head(stack[m])[1] = "changed"
    BY <2>1, FirstStep, TwoCallers
  <2>3. Arg(m, 1) \in 0 .. Total /\ Arg(m, 2) \in BOOLEAN
    BY <2>2, EntryParts DEF Arg
  <2>4. Walk(Arg(m, 1), Arg(m, 2)) \in Seq(Quiet) /\ Do(m, Walk(Arg(m, 1), Arg(m, 2)))
    BY <1>1, <1>3, <2>3, WalkQuiet DEF Changed
  <2>5. stack' \in [Callers -> Stacks] /\ Locks'
    BY <2>1, <2>4, QuietHandler
  <2>6. Scalars'
    BY <1>1, <1>3 DEF Changed, Scalars, clock, speed, thread, layer, history
  <2>7. QED
    BY <2>5, <2>6 DEF Typed
<1>4. CASE StateChanged
  <2>1. At_(m, "state") /\ UNCHANGED <<thread, timeLock, listening>>
    BY <1>4 DEF StateChanged
  <2>2. Affected \in Seq(Quiet) /\ Do(m, Affected)
    BY <1>4, AffectedType, UnclearSeqs DEF StateChanged
  <2>3. stack' \in [Callers -> Stacks] /\ Locks'
    BY <2>1, <2>2, QuietHandler
  <2>4. Scalars'
    BY <1>1, <1>4 DEF StateChanged, Scalars, clock, speed, thread, history
  <2>5. QED
    BY <2>3, <2>4 DEF Typed
<1>5. CASE ForceUpdate
  <2>1. At_(m, "force") /\ UNCHANGED <<thread, timeLock, listening>>
    BY <1>5 DEF ForceUpdate
  <2>2. time \in 0 .. Total
    BY <1>1 DEF Scalars
  <2>3. <<"seek", time, FALSE>> \in Quiet
    BY <2>2, QuietEntries
  <2>4. <<<<"seek", time, FALSE>>>> \in Seq(Quiet) /\ Do(m, <<<<"seek", time, FALSE>>>>)
    BY <1>5, <2>3 DEF ForceUpdate
  <2>5. stack' \in [Callers -> Stacks] /\ Locks'
    BY <2>1, <2>4, QuietHandler
  <2>6. Scalars'
    BY <1>1, <1>5 DEF ForceUpdate, Scalars, clock, speed, thread, layer, history
  <2>7. QED
    BY <2>5, <2>6 DEF Typed
<1>6. QED
  BY <1>2, <1>3, <1>4, <1>5

\* A trigger that has become r.
Pushes(k, r, steps) == Gives(k, r) \o (IF r.can # trig[k].can THEN <<<<"state">>>> ELSE <<>>) \o steps

LEMMA PushesType ==
  ASSUME NEW k \in Triggers, NEW r, NEW steps \in Seq(Quiet)
  PROVE  Pushes(k, r, steps) \in Seq(Quiet)
<1>1. Gives(k, r) \in Seq(Quiet)
  BY GivesType, UnclearSeqs
<1>2. <<"state">> \in Quiet
  BY QuietEntries
<1>3. (IF r.can # trig[k].can THEN <<<<"state">>>> ELSE <<>>) \in Seq(Quiet)
  BY <1>2
<1>4. Gives(k, r) \o (IF r.can # trig[k].can THEN <<<<"state">>>> ELSE <<>>) \in Seq(Quiet)
  BY <1>1, <1>3, QuietConcat
<1>5. QED
  BY <1>4, QuietConcat DEF Pushes

\* What each of the handlers of a trigger makes of it.
TriggerSteps == {"cross", "reset", "release", "under", "invalid"}
Handled(do, k) ==
  LET r == trig[k]
  IN  CASE do = "cross" -> Crossed(k, r, Arg(m, 2), Arg(m, 3))
        [] do = "reset" -> Updated(k, [r EXCEPT !.done = FALSE])
        [] do = "release" -> IF k \in Bars THEN Released(k, r) ELSE r
        [] do = "under" -> Under(k, r)
        [] do = "invalid" -> IF r.inside /\ AnyTime(k) /\ ~r.valid THEN Released(k, r) ELSE r
After(do, k) == IF do = "cross" /\ ~Arg(m, 2) THEN <<<<"reset", k>>>> ELSE <<>>

LEMMA TriggerHandlers ==
  ASSUME Typed, Cross \/ Reset \/ Release \/ EnterUnder \/ Invalid
  PROVE  \E do \in TriggerSteps, k \in Triggers :
           /\ At_(m, do) /\ k = Arg(m, 1)
           /\ Becomes(k, Handled(do, k), After(do, k))
           /\ Handled(do, k) \in States /\ After(do, k) \in Seq(Quiet)
<1>1. PICK do \in TriggerSteps : /\ At_(m, do)
                                 /\ Becomes(Arg(m, 1), Handled(do, Arg(m, 1)), After(do, Arg(m, 1)))
  <2>1. CASE Cross
    <3>1. At_(m, "cross") /\ "cross" \in TriggerSteps
      BY <2>1 DEF Cross, TriggerSteps
    <3>2. Becomes(Arg(m, 1), Handled("cross", Arg(m, 1)), After("cross", Arg(m, 1)))
      BY <2>1 DEF Cross, Handled, After
    <3>3. QED
      BY <3>1, <3>2
  <2>2. CASE Reset
    <3>1. At_(m, "reset") /\ "reset" \in TriggerSteps
      BY <2>2 DEF Reset, TriggerSteps
    <3>2. Becomes(Arg(m, 1), Handled("reset", Arg(m, 1)), After("reset", Arg(m, 1)))
      BY <2>2 DEF Reset, Handled, After
    <3>3. QED
      BY <3>1, <3>2
  <2>3. CASE Release
    <3>1. At_(m, "release") /\ "release" \in TriggerSteps
      BY <2>3 DEF Release, TriggerSteps
    <3>2. Becomes(Arg(m, 1), Handled("release", Arg(m, 1)), After("release", Arg(m, 1)))
      BY <2>3 DEF Release, Handled, After
    <3>3. QED
      BY <3>1, <3>2
  <2>4. CASE EnterUnder
    <3>1. At_(m, "under") /\ "under" \in TriggerSteps
      BY <2>4 DEF EnterUnder, TriggerSteps
    <3>2. Becomes(Arg(m, 1), Handled("under", Arg(m, 1)), After("under", Arg(m, 1)))
      BY <2>4 DEF EnterUnder, Handled, After
    <3>3. QED
      BY <3>1, <3>2
  <2>5. CASE Invalid
    <3>1. At_(m, "invalid") /\ "invalid" \in TriggerSteps
      BY <2>5 DEF Invalid, TriggerSteps
    <3>2. Becomes(Arg(m, 1), Handled("invalid", Arg(m, 1)), After("invalid", Arg(m, 1)))
      BY <2>5 DEF Invalid, Handled, After
    <3>3. QED
      BY <3>1, <3>2
  <2>6. QED
    BY <2>1, <2>2, <2>3, <2>4, <2>5
<1> DEFINE k == Arg(m, 1)
<1>2. Head(stack[m]) \in Entries /\ Head(stack[m])[1] = do
  BY <1>1, FirstStep, TwoCallers
<1>3. k \in Triggers /\ (do = "cross" => Arg(m, 2) \in BOOLEAN /\ Arg(m, 3) \in BOOLEAN)
  BY <1>2, EntryParts DEF Arg, TriggerSteps
<1> HIDE DEF k
<1>4. trig[k] \in States
  BY <1>3 DEF Typed, Scalars
<1>5. [trig[k] EXCEPT !.done = FALSE] \in States
  BY <1>4 DEF States
<1>6. Handled(do, k) \in States
  <2>1. /\ Released(k, trig[k]) \in States /\ Under(k, trig[k]) \in States
        /\ Updated(k, [trig[k] EXCEPT !.done = FALSE]) \in States
        /\ do = "cross" => Crossed(k, trig[k], Arg(m, 2), Arg(m, 3)) \in States
    BY <1>3, <1>4, <1>5, RecordTypes
  <2>2. QED
    BY <1>4, <2>1 DEF Handled, TriggerSteps
<1>7. After(do, k) \in Seq(Quiet)
  <2>1. <<"reset", k>> \in Quiet
    BY <1>3, QuietEntries
  <2>2. QED
    BY <2>1 DEF After
<1>8. QED
  BY <1>1, <1>3, <1>6, <1>7 DEF k

LEMMA TypedTriggers ==
  ASSUME Typed, Cross \/ Reset \/ Release \/ EnterUnder \/ Invalid
  PROVE  Typed'
<1>1. PICK do \in TriggerSteps, k \in Triggers :
         /\ At_(m, do) /\ Becomes(k, Handled(do, k), After(do, k))
         /\ Handled(do, k) \in States /\ After(do, k) \in Seq(Quiet)
  BY TriggerHandlers
<1> DEFINE r == Handled(do, k)
           steps == After(do, k)
<1>2. r \in States /\ steps \in Seq(Quiet) /\ Becomes(k, r, steps)
  BY <1>1
<1> HIDE DEF r, steps
<1>3. Pushes(k, r, steps) \in Seq(Quiet) /\ Do(m, Pushes(k, r, steps))
  BY <1>2, PushesType DEF Becomes, Pushes
<1>4. UNCHANGED <<thread, timeLock, listening>> /\ do \notin {"sought", "listen", "unlisten"}
  BY <1>2 DEF Becomes, TriggerSteps
<1>5. stack' \in [Callers -> Stacks] /\ Locks'
  BY <1>1, <1>3, <1>4, QuietHandler
<1>6. Scalars'
  <2>1. trig' \in [Triggers -> States]
    BY <1>2 DEF Becomes, Typed, Scalars
  <2>2. QED
    BY <1>2, <2>1 DEF Becomes, Typed, Scalars, clock, speed, thread, history
<1>7. QED
  BY <1>5, <1>6 DEF Typed

LEMMA TypedClear ==
  ASSUME Typed, Clear
  PROVE  Typed'
<1>1. At_(m, "clear") /\ Do(m, <<>>) /\ UNCHANGED <<thread, timeLock, listening>> /\ <<>> \in Seq(Quiet)
  BY DEF Clear
<1>2. stack' \in [Callers -> Stacks] /\ Locks'
  BY <1>1, QuietHandler
<1>3. trig' \in [Triggers -> States]
  <2>1. \A k \in Triggers : [trig[k] EXCEPT !.triggered = FALSE] \in States
    BY DEF Typed, Scalars, States
  <2>2. QED
    BY <2>1 DEF Clear
<1>4. Scalars'
  BY <1>3 DEF Clear, Typed, Scalars, clock, speed, thread, history
<1>5. QED
  BY <1>2, <1>4 DEF Typed

\* What a caller that does nothing is given: steps that open nothing.
LEMMA QuietGiven ==
  ASSUME Typed, NEW t \in Callers, stack[t] = <<>>, NEW new \in Stacks, new \in Seq(Calm),
         stack' = [stack EXCEPT ![t] = new], UNCHANGED <<thread, timeLock, listening>>
  PROVE  stack' \in [Callers -> Stacks] /\ Locks'
<1>1. Count(new, {<<"sought">>}) = 0 /\ Count(new, {<<"unlisten">>}) = 0
  BY CalmCounts
<1>2. new # <<>> => Head(new) # <<"listen">>
  <2>1. new # <<>> => Head(new) \in Calm
    BY HeadTailProperties
  <2>2. QED
    BY <2>1 DEF Calm
<1>3. timeLock' = timeLock /\ listening' = listening /\ player' = player
  BY DEF thread
<1>4. QED
  BY <1>1, <1>2, <1>3, Given

LEMMA TypedPosted ==
  ASSUME Typed, HandlePosted
  PROVE  Typed'
<1>1. Scalars
  BY DEF Typed
<1>2. stack[m] = <<>> /\ posted # <<>> /\ posted \in Seq({"time", "playing", "loop"})
  BY <1>1 DEF HandlePosted, Scalars
<1>3. Head(posted) \in {"time", "playing", "loop"} /\ Tail(posted) \in Seq({"time", "playing", "loop"})
  BY <1>2, HeadTailProperties
<1> DEFINE new == IF Head(posted) = "loop" THEN ReleaseAll ELSE Called(Head(posted))
<1>4. new \in Stacks /\ new \in Seq(Calm)
  <2>1. <<"time">> \in Entries /\ <<"time">> \in Calm /\ <<"exit">> \in Entries /\ <<"exit">> \in Calm
    BY QuietEntries DEF Calm, Quiet, Lower
  <2>2. \A e \in {<<"time">>, <<"exit">>} : <<e>> \in Stacks /\ <<e>> \in Seq(Calm)
    BY <2>1, OneStep
  <2>3. ReleaseAll \in Stacks /\ ReleaseAll \in Seq(Calm)
    BY ReleasesType, StackKinds
  <2>4. QED
    BY <2>2, <2>3 DEF Called
<1>5. stack' = [stack EXCEPT ![m] = new] /\ UNCHANGED <<thread, timeLock, listening>>
  BY DEF HandlePosted
<1> HIDE DEF new
<1>6. stack' \in [Callers -> Stacks] /\ Locks'
  BY <1>2, <1>4, <1>5, QuietGiven, TwoCallers
<1>7. posted' \in Seq({"time", "playing", "loop"})
  BY <1>3 DEF HandlePosted
<1>8. Scalars'
  BY <1>1, <1>7 DEF HandlePosted, Scalars, clock, speed, thread, layer, history
<1>9. QED
  BY <1>6, <1>8 DEF Typed

\* A command is given as triggers of the parameters, or as a seek.
LEMMA CommandSteps ==
  ASSUME NEW t \in Callers, Command(t)
  PROVE  \E new \in Seq(Quiet) :
           /\ Give(t, new)
           /\ \/ \E v \in 0 .. Total : new = <<<<"seek", v, TRUE>>>>
              \/ \E c \in Commands[t] : c \in Seq(Names) /\ new = [i \in DOMAIN c |-> <<"trigger", c[i]>>]
<1>1. PICK c \in Commands[t] :
         IF c = <<"seek">> THEN \E v \in 0 .. Total : Give(t, <<<<"seek", v, TRUE>>>>)
                           ELSE Give(t, [i \in DOMAIN c |-> <<"trigger", c[i]>>])
  BY DEF Command
<1>2. CASE c = <<"seek">>
  <2>1. PICK v \in 0 .. Total : Give(t, <<<<"seek", v, TRUE>>>>)
    BY <1>1, <1>2
  <2>2. <<"seek", v, TRUE>> \in Quiet
    BY QuietEntries
  <2>3. <<<<"seek", v, TRUE>>>> \in Seq(Quiet)
    BY <2>2
  <2>4. QED
    BY <2>1, <2>3
<1>3. CASE c # <<"seek">>
  <2>1. \A u \in Callers : Commands[u] \subseteq Seq({"play", "stop", "pause"}) \cup {<<"seek">>}
    BY PlayerAssumption, Zenon
  <2>2. c \in Seq(Names)
    BY <1>3, <2>1 DEF Names
  <2>3. [i \in DOMAIN c |-> <<"trigger", c[i]>>] \in Seq(Quiet)
    BY <2>2, NamesOfEffects, UnclearSeqs
  <2>4. QED
    BY <1>1, <1>3, <2>2, <2>3
<1>4. QED
  BY <1>2, <1>3

LEMMA OneMoreCommand ==
  ASSUME commands \in 0 .. MaxCommands, NEW t, NEW new, Give(t, new)
  PROVE  commands' \in 0 .. MaxCommands
<1>1. {MaxCommands, MaxPosted} \subseteq Nat
  BY PlayerAssumption, Zenon
<1>2. QED
  BY <1>1 DEF Give

LEMMA TypedCommand ==
  ASSUME Typed, NEW t \in Callers, Command(t)
  PROVE  Typed'
<1>1. Scalars
  BY DEF Typed
<1>2. PICK new \in Seq(Quiet) : Give(t, new)
  BY CommandSteps
<1>3. stack[t] = <<>> /\ stack' = [stack EXCEPT ![t] = new] /\ new \in Stacks /\ new \in Seq(Calm)
  BY <1>2, StackKinds DEF Give
<1>4. UNCHANGED <<thread, timeLock, listening>>
  BY DEF Command
<1>5. stack' \in [Callers -> Stacks] /\ Locks'
  BY <1>3, <1>4, QuietGiven
<1>6. commands' \in 0 .. MaxCommands
  BY <1>1, <1>2, OneMoreCommand DEF Scalars
<1>7. Scalars'
  BY <1>1, <1>6 DEF Command, Scalars, clock, speed, thread, layer
<1>8. QED
  BY <1>5, <1>7 DEF Typed

LEMMA TypedEdits ==
  ASSUME Typed, ChangeSpeed \/ ChangeCondition
  PROVE  Typed'
<1>1. Scalars
  BY DEF Typed
<1>2. CASE ChangeSpeed
  <2> DEFINE rest == ReleaseAll \o <<<<"unlisten">>, <<"force">>>>
             new == <<<<"listen">>>> \o ReleaseAll \o <<<<"unlisten">>, <<"force">>>>
  <2>1. Give(m, new)
    BY <1>2 DEF ChangeSpeed
  <2>2. /\ <<"listen">> \in Entries /\ <<"unlisten">> \in Lower /\ <<"force">> \in Lower
        /\ <<"unlisten">> \in Entries /\ <<"force">> \in Entries
    BY QuietEntries
  <2>3. ReleaseAll \in Seq(Quiet) /\ ReleaseAll \in Seq(Lower) /\ ReleaseAll \in Seq(Entries)
        /\ ReleaseAll \in Seq(Calm)
    BY ReleasesType, StackKinds
  <2>4. <<<<"unlisten">>, <<"force">>>> \in Seq(Lower) /\ <<<<"unlisten">>, <<"force">>>> \in Seq(Entries)
        /\ <<<<"listen">>>> \in Seq(Entries)
    BY <2>2
  <2>5. new \in Seq(Entries)
    BY <2>3, <2>4
  <2>6. <<<<"listen">>>> \o ReleaseAll \in Seq(Entries)
    BY <2>3, <2>4
  <2>7. ASSUME NEW A
        PROVE  Count(new, A) = One(<<"listen">>, A) + Count(ReleaseAll, A)
                                 + (One(<<"unlisten">>, A) + One(<<"force">>, A))
    <3>1. Count(<<<<"listen">>>> \o ReleaseAll, A) = Count(<<<<"listen">>>>, A) + Count(ReleaseAll, A)
      BY <2>3, <2>4, CountConcat
    <3>2. Count((<<<<"listen">>>> \o ReleaseAll) \o <<<<"unlisten">>, <<"force">>>>, A)
            = Count(<<<<"listen">>>> \o ReleaseAll, A) + Count(<<<<"unlisten">>, <<"force">>>>, A)
      BY <2>4, <2>6, CountConcat
    <3>3. Count(<<<<"listen">>>>, A) = One(<<"listen">>, A)
      BY CountOne
    <3>4. Count(<<<<"unlisten">>, <<"force">>>>, A) = One(<<"unlisten">>, A) + One(<<"force">>, A)
      BY <2>2, CountTwo
    <3>5. QED
      BY <3>1, <3>2, <3>3, <3>4
  <2>8. Count(ReleaseAll, {<<"sought">>}) = 0 /\ Count(ReleaseAll, {<<"unlisten">>}) = 0
    BY <2>3, CalmCounts
  <2>9. Count(new, {<<"sought">>}) = 0 /\ Count(new, {<<"unlisten">>}) = 1
    BY <2>7, <2>8 DEF One
  <2>10. new # <<>> /\ Head(new) = <<"listen">> /\ new \in Stacks
    <3>1. Len(<<<<"listen">>>> \o ReleaseAll) = 1 + Len(ReleaseAll) /\ Len(ReleaseAll) \in Nat
          /\ (<<<<"listen">>>> \o ReleaseAll)[1] = <<"listen">>
          /\ \A i \in 2 .. (1 + Len(ReleaseAll)) : (<<<<"listen">>>> \o ReleaseAll)[i] = ReleaseAll[i - 1]
      BY <2>3, <2>4, ConcatProperties
    <3> DEFINE most == <<<<"listen">>>> \o ReleaseAll
               last == <<<<"unlisten">>, <<"force">>>>
    <3>2. last \in Seq(Lower) /\ Len(last) = 2
      BY <2>4
    <3>3. most \in Seq(Entries) /\ Len(most) = 1 + Len(ReleaseAll) /\ most[1] = <<"listen">>
          /\ \A i \in 2 .. Len(most) : most[i] \in Lower
      <4>1. \A i \in 1 .. Len(ReleaseAll) : ReleaseAll[i] \in Lower
        BY <2>3
      <4>2. QED
        BY <2>6, <3>1, <4>1
    <3> HIDE DEF most, last
    <3>4. /\ Len(most \o last) = Len(most) + 2
          /\ \A i \in 1 .. (Len(most) + 2) :
               (most \o last)[i] = IF i <= Len(most) THEN most[i] ELSE last[i - Len(most)]
      BY <2>4, <3>2, <3>3, ConcatProperties DEF last
    <3>5. (most \o last)[1] = <<"listen">> /\ Len(most \o last) > 0
      BY <3>1, <3>3, <3>4
    <3>6. \A i \in 2 .. Len(most \o last) : (most \o last)[i] \in Lower
      <4>1. ASSUME NEW i \in 2 .. Len(most \o last) PROVE (most \o last)[i] \in Lower
        <5>1. Len(most) \in Nat
          BY <3>1, <3>3
        <5>2. CASE i <= Len(most)
          BY <3>3, <3>4, <5>1, <5>2
        <5>3. CASE i > Len(most)
          <6>1. i - Len(most) \in 1 .. 2 /\ (most \o last)[i] = last[i - Len(most)]
            BY <3>4, <5>1, <5>3
          <6>2. QED
            BY <3>2, <6>1
        <5>4. QED
          BY <5>1, <5>2, <5>3
      <4>2. QED
        BY <4>1
    <3>7. new = most \o last
      BY DEF most, last
    <3>8. new \in Stacks
      BY <2>5, <3>6, <3>7 DEF Stacks
    <3>9. QED
      BY <2>5, <3>5, <3>7, <3>8, HeadTailProperties, EmptySeq
  <2> HIDE DEF new
  <2>11. timeLock' = timeLock /\ listening' = listening /\ player' = player
    BY <1>2 DEF ChangeSpeed, thread
  <2>12. stack' \in [Callers -> Stacks] /\ Locks'
    BY <2>1, <2>9, <2>10, <2>11, Given, TwoCallers DEF Give
  <2>13. commands' \in 0 .. MaxCommands
    BY <1>1, <2>1, OneMoreCommand DEF Scalars
  <2>14. forward' \in BOOLEAN
    BY <1>2 DEF ChangeSpeed
  <2>15. Scalars'
    BY <1>1, <1>2, <2>13, <2>14 DEF ChangeSpeed, Scalars, clock, thread, layer
  <2>16. QED
    BY <2>12, <2>15 DEF Typed
<1>3. CASE ChangeCondition
  <2> DEFINE new(k, r) == (IF r.can # trig[k].can THEN <<<<"state">>>> ELSE <<>>) \o <<<<"invalid", k>>>>
             r(k) == Updated(k, [trig[k] EXCEPT !.valid = ~@])
  <2>1. PICK k \in Triggers : trig' = [trig EXCEPT ![k] = r(k)] /\ Give(m, new(k, r(k)))
    BY <1>3 DEF ChangeCondition
  <2>2. r(k) \in States
    <3>1. trig[k] \in States
      BY <1>1 DEF Scalars
    <3>2. (~trig[k].valid) \in BOOLEAN
      OBVIOUS
    <3>3. \A b \in BOOLEAN : [trig[k] EXCEPT !.valid = b] \in States
      BY <3>1 DEF States
    <3>4. QED
      BY <3>2, <3>3, RecordTypes
  <2>3. new(k, r(k)) \in Seq(Quiet)
    <3>1. <<"state">> \in Quiet /\ <<"invalid", k>> \in Quiet
      BY QuietEntries
    <3>2. (IF r(k).can # trig[k].can THEN <<<<"state">>>> ELSE <<>>) \in Seq(Quiet)
          /\ <<<<"invalid", k>>>> \in Seq(Quiet)
      BY <3>1
    <3>3. QED
      BY <3>2, QuietConcat
  <2> HIDE DEF new, r
  <2>4. UNCHANGED <<thread, timeLock, listening>>
    BY <1>3 DEF ChangeCondition
  <2>5. stack' \in [Callers -> Stacks] /\ Locks'
    BY <2>1, <2>3, <2>4, QuietGiven, StackKinds, TwoCallers DEF Give
  <2>6. commands' \in 0 .. MaxCommands
    BY <1>1, <2>1, OneMoreCommand DEF Scalars
  <2>7. trig' \in [Triggers -> States]
    BY <1>1, <2>1, <2>2 DEF Scalars
  <2>8. Scalars'
    BY <1>1, <1>3, <2>6, <2>7 DEF ChangeCondition, Scalars, clock, speed, thread
  <2>9. QED
    BY <2>5, <2>8 DEF Typed
<1>4. QED
  BY <1>2, <1>3

\* A step of the play thread leaves the stacks.
LEMMA TypedPlay ==
  ASSUME Typed, Play
  PROVE  Typed'
<1>1. Scalars /\ Locks
  BY DEF Typed
<1>2. /\ playing' \in BOOLEAN
      /\ UNCHANGED <<speed, listening, stack, triggering, layer, history>>
  <2>1. playing' = IF player = "finish" THEN FALSE ELSE playing
    BY DEF Play
  <2>2. QED
    BY <1>1, <2>1 DEF Play, Scalars
<1>3. \A u \in Callers : Soughts(u)' = Soughts(u)
  BY <1>2 DEF Soughts
<1>4. Opening' = Opening /\ stack' = stack /\ listening' = listening
  BY <1>2 DEF Opening, At_, m
<1> DEFINE Kinds == /\ time' \in 0 .. Total /\ prev' \in 0 .. Total /\ target' \in Int /\ next' \in Int
                    /\ seeking' \in BOOLEAN /\ exit' \in BOOLEAN /\ backwards' \in BOOLEAN /\ player' \in Stages
                    /\ timeLock' \in {Free} \cup [by : Callers \cup {"player"}, n : Nat \ {0}]
                    /\ posted' \in Seq({"time", "playing", "loop"})
                    /\ player' \in {"loop", "jump", "retarget", "set"} => next' \in 0 .. Total
           Kept == timeLock' = timeLock /\ player' \notin {"sought", "advance"}
<1>5. ASSUME Begin PROVE Kinds /\ Kept
  BY <1>1, <1>5, Sizes DEF Begin, Scalars, Stages
<1>6. ASSUME Compute PROVE Kinds /\ Kept
  <2>1. CASE exit
    BY <1>1, <1>6, <2>1 DEF Compute, Scalars, Stages, clock
  <2>2. CASE ~exit
    <3>1. PICK d \in 1 .. MaxFrame : next' = IF forward THEN target + d ELSE target - d
      BY <1>6, <2>2 DEF Compute
    <3>2. next' \in Int
      BY <1>1, <3>1 DEF Scalars
    <3>3. QED
      BY <1>1, <1>6, <2>2, <3>2 DEF Compute, Scalars, Stages, clock
  <2>3. QED
    BY <2>1, <2>2
<1>7. ASSUME Write PROVE Kinds /\ Kept
  BY <1>1, <1>7 DEF Write, Scalars, Stages
<1>8. ASSUME Frame
      PROVE  Kinds /\ (Kept \/ (timeLock = Free /\ timeLock' = [by |-> "player", n |-> 1]))
  <2>1. UNCHANGED <<next, exit, backwards, clock, posted>> /\ timeLock = Free
    BY <1>8 DEF Frame
  <2>2. CASE playing /\ ~seeking /\ (loop => target \in 1 .. Total - 1)
    <3>1. player' = "advance" /\ timeLock' = [by |-> "player", n |-> 1]
      BY <1>8, <2>2 DEF Frame
    <3>2. timeLock' \in [by : Callers \cup {"player"}, n : Nat \ {0}]
      BY <3>1
    <3>3. QED
      BY <1>1, <2>1, <3>1, <3>2 DEF Scalars, Stages, clock
  <2>3. CASE ~(playing /\ ~seeking /\ (loop => target \in 1 .. Total - 1))
    <3>1. player' \in {"end", "off"} /\ timeLock' = timeLock
      BY <1>8, <2>3 DEF Frame
    <3>2. QED
      BY <1>1, <2>1, <3>1 DEF Scalars, Stages, clock
  <2>4. QED
    BY <2>2, <2>3
<1>9. ASSUME Tick PROVE Kinds /\ Kept
  BY <1>1, <1>9 DEF Tick, Scalars, Stages, clock
<1>10. ASSUME End PROVE Kinds /\ Kept
  <2>1. backwards' \in BOOLEAN /\ player' \in {"compute", "offset", "finish"}
    BY <1>10 DEF End
  <2>2. QED
    BY <1>1, <1>10, <2>1 DEF End, Scalars, Stages, clock
<1>20. ASSUME Offset PROVE Kinds /\ Kept
  <2>1. target % Total \in 0 .. (Total - 1)
    BY <1>1, Sizes DEF Scalars
  <2>2. next' \in 0 .. Total /\ next' \in Int
    BY <1>20, <2>1, Sizes DEF Offset
  <2>3. QED
    BY <1>1, <1>20, <2>2 DEF Offset, Scalars, Stages, clock
<1>11. ASSUME Looped PROVE Kinds /\ Kept
  <2>1. posted' \in Seq({"time", "playing", "loop"})
    BY <1>1, <1>11 DEF Looped, Scalars
  <2>2. QED
    BY <1>1, <1>11, <2>1 DEF Looped, Scalars, Stages, clock
<1>12. ASSUME Jump PROVE Kinds /\ Kept
  <2>1. prev' \in 0 .. Total
    BY <1>12, Sizes DEF Jump
  <2>2. QED
    BY <1>1, <1>12, <2>1 DEF Jump, Scalars, Stages
<1>21. ASSUME Retarget PROVE Kinds /\ Kept
  BY <1>1, <1>21, Sizes DEF Retarget, Scalars, Stages
<1>13. ASSUME Finish PROVE Kinds /\ Kept
  <2>1. posted' \in Seq({"time", "playing", "loop"})
    BY <1>1, <1>13 DEF Finish, Scalars
  <2>2. QED
    BY <1>1, <1>13, <2>1 DEF Finish, Scalars, Stages, clock
<1>14. ASSUME Finished PROVE Kinds /\ Kept
  BY <1>1, <1>14 DEF Finished, Scalars, Stages, clock
<1>15. ASSUME SetOffset PROVE Kinds /\ timeLock = Free /\ timeLock' = [by |-> "player", n |-> 1]
  <2>1. player = "set" /\ next \in 0 .. Total /\ next \in Int
    BY <1>1, <1>15 DEF SetOffset, Scalars
  <2>2. timeLock' = [by |-> "player", n |-> 1] /\ timeLock = Free
    BY <1>15 DEF SetOffset
  <2>3. timeLock' \in [by : Callers \cup {"player"}, n : Nat \ {0}]
    BY <2>2
  <2>4. posted' \in Seq({"time", "playing", "loop"})
    BY <1>1, <1>15 DEF SetOffset, Scalars
  <2>5. QED
    BY <1>1, <1>15, <2>1, <2>2, <2>3, <2>4 DEF SetOffset, Scalars, Stages
<1> DEFINE Left == /\ timeLock' = Free /\ player \in {"sought", "advance"}
                   /\ player' \notin {"sought", "advance"}
<1>16. ASSUME OffsetSet PROVE Kinds /\ Left
  BY <1>1, <1>16 DEF OffsetSet, Scalars, Stages
<1>22. ASSUME Advance PROVE Kinds /\ Left
  <2>1. Clip(target) \in 0 .. Total /\ Clip(target) \in Int
    BY <1>1, Sizes DEF Clip, Scalars
  <2>2. posted' \in Seq({"time", "playing", "loop"})
    BY <1>1, <1>22 DEF Advance, Scalars
  <2>3. QED
    BY <1>1, <1>22, <2>1, <2>2 DEF Advance, Scalars, Stages
<1>17. CASE Kinds /\ Kept
  <2>1. Locks'
    BY <1>1, <1>3, <1>4, <1>17 DEF Locks, m
  <2>2. Scalars'
    BY <1>1, <1>2, <1>17 DEF Scalars, speed, layer, history
  <2>3. QED
    BY <1>4, <2>1, <2>2 DEF Typed
<1>18. CASE Kinds /\ timeLock = Free /\ timeLock' = [by |-> "player", n |-> 1]
  <2>1. \A u \in Callers : Soughts(u) = 0 /\ u # "player"
    BY <1>1, <1>18, LockKinds, TwoCallers DEF Locks
  <2>2. Locks'
    BY <1>1, <1>3, <1>4, <1>18, <2>1 DEF Locks, m
  <2>3. Scalars'
    BY <1>1, <1>2, <1>18 DEF Scalars, speed, layer, history
  <2>4. QED
    BY <1>4, <2>2, <2>3 DEF Typed
<1>19. CASE Kinds /\ Left
  <2>1. \A u \in Callers : Soughts(u) = 0 /\ u # None
    BY <1>1, <1>19, TwoCallers DEF Locks
  <2>2. timeLock'.by = None
    BY <1>19 DEF Free
  <2>3. Locks'
    BY <1>1, <1>3, <1>4, <1>19, <2>1, <2>2 DEF Locks, m
  <2>4. Scalars'
    BY <1>1, <1>2, <1>19 DEF Scalars, speed, layer, history
  <2>5. QED
    BY <1>4, <2>3, <2>4 DEF Typed
<1> HIDE DEF Kinds, Kept, Left
<1>23. QED
  BY <1>5, <1>6, <1>7, <1>8, <1>9, <1>10, <1>11, <1>12, <1>13, <1>14, <1>15, <1>16, <1>17, <1>18, <1>19,
     <1>20, <1>21, <1>22 DEF Play

LEMMA InitTyped == Init => Typed
<1> SUFFICES ASSUME Init PROVE Typed
  OBVIOUS
<1>1. trig \in [Triggers -> States]
  BY DEF Init, Idle, States
<1>2. loop \in BOOLEAN
  <2>1. Loops \subseteq BOOLEAN
    BY PlayerAssumption, Zenon
  <2>2. QED
    BY <2>1 DEF Init
<1>3. commands \in 0 .. MaxCommands
  <2>1. {MaxCommands, MaxPosted} \subseteq Nat
    BY PlayerAssumption, Zenon
  <2>2. QED
    BY <2>1 DEF Init
<1>4. Scalars
  <2>1. time = 0 /\ target = 0 /\ prev = 0 /\ next = 0 /\ listening = 0 /\ posted = <<>>
    BY DEF Init
  <2>2. /\ time \in 0 .. Total /\ prev \in 0 .. Total /\ target \in Int /\ next \in Int
        /\ listening \in Nat /\ posted \in Seq({"time", "playing", "loop"})
    BY <2>1, Sizes
  <2>3. /\ playing \in BOOLEAN /\ seeking \in BOOLEAN /\ forward \in BOOLEAN
        /\ exit \in BOOLEAN /\ backwards \in BOOLEAN /\ wasPlaying \in BOOLEAN /\ interrupted \in BOOLEAN
    BY DEF Init
  <2>4. player = "off" /\ timeLock = Free /\ triggering = {} /\ stopped = None
    BY DEF Init
  <2>5. player \in Stages /\ player \notin {"loop", "jump", "retarget", "set"}
    BY <2>4 DEF Stages
  <2>6. QED
    BY <1>1, <1>2, <1>3, <2>2, <2>3, <2>4, <2>5 DEF Scalars
<1>5. <<>> \in Stacks /\ \A A : Count(<<>>, A) = 0
  <2>1. <<>> \in Seq(Lower)
    OBVIOUS
  <2>2. QED
    BY <2>1, StackKinds, CountOne
<1>6. \A t \in Callers : stack[t] = <<>> /\ stack \in [Callers -> Stacks]
  BY <1>5 DEF Init
<1>7. Opening = 0
  BY <1>6, TwoCallers DEF Opening, At_
<1>8. Locks
  <2>1. \A t \in Callers : Soughts(t) = 0 /\ timeLock.by # t
    BY <1>5, <1>6, TwoCallers DEF Soughts, Init, Free
  <2>2. player \notin {"sought", "advance"} /\ listening = 0
    BY DEF Init
  <2>3. Count(stack[m], {<<"unlisten">>}) = 0
    BY <1>5, <1>6, TwoCallers
  <2>4. QED
    BY <1>7, <2>1, <2>2, <2>3 DEF Locks
<1>9. stack \in [Callers -> Stacks]
  BY <1>6, TwoCallers
<1>10. QED
  BY <1>4, <1>8, <1>9 DEF Typed

LEMMA TypedStutter ==
  ASSUME Typed, UNCHANGED vars
  PROVE  Typed'
<1>1. Scalars'
  BY DEF vars, clock, speed, thread, layer, history, Typed, Scalars
<1>2. stack' = stack /\ player' = player /\ timeLock' = timeLock /\ listening' = listening
  BY DEF vars, thread
<1>3. Locks'
  BY <1>2 DEF Typed, Locks, Soughts, Opening, At_, m
<1>4. QED
  BY <1>1, <1>2, <1>3 DEF Typed

LEMMA StepTyped == Typed /\ [Next]_vars => Typed'
<1> SUFFICES ASSUME Typed, [Next]_vars PROVE Typed'
  OBVIOUS
<1>1. ASSUME NEW t \in Callers, Call(t) PROVE Typed'
  BY <1>1, TypedTrigger, TypedSet, TypedSeek, TypedSought DEF Call
<1>2. ASSUME NEW t \in Callers, Command(t) PROVE Typed'
  BY <1>2, TypedCommand
<1>3. ASSUME Handler PROVE Typed'
  BY <1>3, TypedExits, TypedOpenings, TypedListen, TypedWalks, TypedTriggers, TypedClear, TypedPosted
     DEF Handler
<1>4. QED
  BY <1>1, <1>2, <1>3, TypedPlay, TypedEdits, TypedStutter DEF Next

LEMMA TypedTypes == Typed => TypeOK
<1> SUFFICES ASSUME Typed PROVE TypeOK
  OBVIOUS
<1>1. \A t \in Callers : \A i \in DOMAIN stack[t] : stack[t][i][1] \in Steps
  <2>1. ASSUME NEW t \in Callers, NEW i \in DOMAIN stack[t] PROVE stack[t][i][1] \in Steps
    <3>1. stack[t] \in Seq(Entries)
      BY StackKinds DEF Typed
    <3>2. stack[t][i] \in Entries
      BY <3>1
    <3>3. QED
      BY <3>2, EntryParts
  <2>2. QED
    BY <2>1
<1>2. Scalars
  BY DEF Typed
<1>3. {playing, seeking, forward, loop, exit, backwards, wasPlaying} \subseteq BOOLEAN
  BY <1>2 DEF Scalars
<1>4. QED
  BY <1>1, <1>2, <1>3 DEF TypeOK, Scalars, Names

\* TypeOK, of every instance: in particular the current time and the time that is given
\* to the listeners stay on the time line, and the call of the listeners ends for each
\* one that began.
THEOREM TypeCorrect == Spec => []TypeOK
<1>1. Spec => []Typed
  BY InitTyped, StepTyped, PTL DEF Spec
<1>2. QED
  BY <1>1, TypedTypes, PTL

-----------------------------------------------------------------------------
\* That a sequence which plays has its thread.  It is so where neither a consequence nor
\* the other thread starts it.
OneStarter == /\ \A k \in Triggers : \A i \in DOMAIN Effect[k] : Effect[k][i] # "play"
              /\ \A c \in Commands[Other] : c \in Seq(Names) => \A i \in DOMAIN c : c[i] # "play"

\* What is pushed is followed by what it must be.
LEMMA FollowedPush ==
  ASSUME NEW S, NEW q \in Seq(S), q # <<>>, NEW new \in Seq(S), NEW X, NEW Y,
         Followed(q, X, Y), Followed(new, X, Y),
         (\A i \in 1 .. Len(new) : new[i] \notin X) \/ (\A j \in 2 .. Len(q) : q[j] \in Y)
  PROVE  Followed(new \o Tail(q), X, Y)
<1> DEFINE s == new \o Tail(q)
<1>1. /\ Len(s) = Len(new) + Len(q) - 1 /\ Len(new) \in Nat /\ Len(q) \in Nat
      /\ \A i \in 1 .. Len(new) : s[i] = new[i]
      /\ \A i \in 1 .. Len(s) : i > Len(new) => i - Len(new) + 1 \in 2 .. Len(q)
                                                /\ s[i] = q[i - Len(new) + 1]
  BY Replaced
<1> HIDE DEF s
<1>2. ASSUME NEW i \in 1 .. Len(s), NEW j \in 1 .. Len(s), i < j, s[i] \in X
      PROVE  s[j] \in Y
  <2>1. CASE j <= Len(new)
    <3>1. i \in 1 .. Len(new) /\ j \in 1 .. Len(new) /\ s[i] = new[i] /\ s[j] = new[j]
      BY <1>1, <1>2, <2>1
    <3>2. QED
      BY <1>2, <3>1 DEF Followed
  <2>2. CASE j > Len(new) /\ i <= Len(new)
    <3>1. i \in 1 .. Len(new) /\ new[i] \in X
      BY <1>1, <1>2, <2>2
    <3>2. \A l \in 2 .. Len(q) : q[l] \in Y
      BY <3>1
    <3>3. QED
      BY <1>1, <2>2, <3>2
  <2>3. CASE i > Len(new)
    <3> DEFINE a == i - Len(new) + 1
               b == j - Len(new) + 1
    <3>1. a \in 2 .. Len(q) /\ b \in 2 .. Len(q) /\ s[i] = q[a] /\ s[j] = q[b] /\ a < b
      BY <1>1, <1>2, <2>3
    <3> HIDE DEF a, b
    <3>2. a \in 1 .. Len(q) /\ b \in 1 .. Len(q)
      BY <1>1, <3>1
    <3>3. QED
      BY <1>2, <3>1, <3>2 DEF Followed
  <2>4. QED
    BY <1>1, <2>1, <2>2, <2>3
<1>3. QED
  BY <1>2 DEF Followed, s

\* The steps that start nothing.
Harmless == {e \in Entries : e \notin Plays /\ e \notin Restarts}

LEMMA NoneFollowed ==
  ASSUME NEW S, NEW q \in Seq(S), NEW X, NEW Y, S \cap X = {}
  PROVE  Followed(q, X, Y) /\ \A i \in 1 .. Len(q) : q[i] \notin X
<1>1. \A i \in 1 .. Len(q) : q[i] \notin X
  OBVIOUS
<1>2. QED
  BY <1>1 DEF Followed

\* What a step leaves of them.
LEMMA NestedPush ==
  ASSUME Typed, Nested, stack[m] # <<>>, NEW new \in Stacks, Do(m, new),
         \A i \in 1 .. Len(new) : new[i] \notin Plays
  PROVE  Nested'
<1>1. stack[m] \in Seq(Entries) /\ new \in Seq(Entries)
  BY StackKinds, TwoCallers DEF Typed
<1>2. stack'[m] = new \o Tail(stack[m])
  BY Pushed, TwoCallers DEF Typed
<1>3. Followed(new, Plays, Calls)
  BY DEF Followed
<1>4. Followed(new \o Tail(stack[m]), Plays, Calls)
  BY <1>1, <1>3, FollowedPush DEF Nested
<1>5. QED
  BY <1>2, <1>4 DEF Nested, m

\* What a step that neither is nor pushes a restart keeps.
LEMMA ThreadedPush ==
  ASSUME Typed, Threaded, stack[m] # <<>>, Head(stack[m]) \notin Restarts,
         NEW new \in Stacks, Do(m, new), \A i \in 1 .. Len(new) : new[i] \notin Restarts,
         playing' => playing, player' = player, exit' = exit
  PROVE  Threaded'
<1> SUFFICES ASSUME playing'
             PROVE  /\ Followed(stack'[m], Restarts, Calls)
                    /\ \A i \in 1 .. Len(stack'[m]) : stack'[m][i] # <<"start", FALSE>>
                    /\ Starting' \/ At_(m, "rewind")' => player' = "off"
                    /\ \/ Starting' \/ At_(m, "exit")' \/ At_(m, "join")' \/ At_(m, "rewind")'
                       \/ player' \notin {"off", "finishing"} /\ ~exit'
  BY DEF Threaded, m
<1> DEFINE q == stack[m]
           s == stack'[m]
<1>1. /\ q \in Seq(Entries) /\ new \in Seq(Entries) /\ q # <<>> /\ q \in Stacks
      /\ Len(q) \in Nat /\ Len(q) > 0 /\ Len(new) \in Nat /\ Head(q) = q[1]
  BY StackKinds, TwoCallers, HeadTailProperties, EmptySeq DEF Typed
<1>2. s = new \o Tail(q) /\ s \in Seq(Entries)
  <2>1. s = new \o Tail(q) /\ s \in Stacks
    BY Pushed, TwoCallers DEF Typed
  <2>2. QED
    BY <2>1, StackKinds
<1>3. /\ Len(s) = Len(new) + Len(q) - 1
      /\ \A i \in 1 .. Len(new) : s[i] = new[i]
      /\ \A i \in 2 .. Len(q) : s[Len(new) + i - 1] = q[i]
      /\ \A i \in 1 .. Len(s) : i > Len(new) => i - Len(new) + 1 \in 2 .. Len(q)
                                                /\ s[i] = q[i - Len(new) + 1]
  BY <1>1, <1>2, Replaced
<1>4. Followed(s, Restarts, Calls)
  <2>1. Followed(q, Restarts, Calls) /\ Followed(new, Restarts, Calls)
    BY DEF Threaded, Followed
  <2>2. QED
    BY <1>1, <1>2, <2>1, FollowedPush
<1>5. \A i \in 1 .. Len(s) : s[i] \in Restarts => i > Len(new)
  BY <1>1, <1>3
<1>6. \A e \in Entries : e[1] \in {"start", "exit", "join", "rewind"} => e \in Restarts
  <2>1. ASSUME NEW e \in Entries, e[1] \in {"exit", "join", "rewind"} PROVE e \in Restarts
    BY <2>1, EntryParts DEF Plain, Restarts
  <2>2. ASSUME NEW e \in Entries, e[1] = "start" PROVE e \in Restarts
    BY <2>2 DEF Entries, Calls, Plain, Restarts
  <2>3. QED
    BY <2>1, <2>2
<1>7. \A i \in 1 .. Len(s) : s[i] # <<"start", FALSE>>
  <2>1. <<"start", FALSE>> \in Restarts
    BY DEF Restarts
  <2>2. \A i \in 1 .. Len(q) : q[i] # <<"start", FALSE>>
    BY DEF Threaded
  <2>3. ASSUME NEW i \in 1 .. Len(s), s[i] = <<"start", FALSE>> PROVE FALSE
    <3>1. i > Len(new)
      BY <1>5, <2>1, <2>3
    <3>2. i - Len(new) + 1 \in 2 .. Len(q) /\ s[i] = q[i - Len(new) + 1]
      BY <1>3, <3>1
    <3>3. i - Len(new) + 1 \in 1 .. Len(q)
      BY <1>1, <3>2
    <3>4. QED
      BY <2>2, <2>3, <3>2, <3>3
  <2>4. QED
    BY <2>3
<1>8. Starting' <=> Starting
  <2>1. ASSUME NEW i \in 1 .. Len(s), s[i][1] = "start" PROVE Starting
    <3>1. s[i] \in Restarts
      BY <1>2, <1>6, <2>1
    <3>2. i - Len(new) + 1 \in 1 .. Len(q) /\ s[i] = q[i - Len(new) + 1]
      BY <1>1, <1>3, <1>5, <3>1
    <3>3. QED
      BY <2>1, <3>2 DEF Starting
  <2>2. ASSUME NEW i \in 1 .. Len(q), q[i][1] = "start" PROVE \E j \in 1 .. Len(s) : s[j][1] = "start"
    <3>1. q[i] \in Restarts /\ i # 1
      BY <1>1, <1>6, <2>2
    <3>2. i \in 2 .. Len(q) /\ Len(new) + i - 1 \in 1 .. Len(s) /\ s[Len(new) + i - 1] = q[i]
      BY <1>1, <1>3, <3>1
    <3>3. QED
      BY <2>2, <3>2
  <2>3. QED
    BY <2>1, <2>2 DEF Starting, m
<1>9. ~At_(m, "exit")' /\ ~At_(m, "join")' /\ ~At_(m, "rewind")'
  <2>1. ASSUME s # <<>> PROVE Head(s) \notin Restarts \/ Head(s) \in Lower
    <3>1. new # <<>> => Head(s) = Head(new) /\ Head(new) = new[1] /\ Len(new) > 0
      BY <1>1, <2>1, Pushed, TwoCallers, HeadTailProperties, EmptySeq DEF Typed
    <3>2. new = <<>> => Head(s) \in Lower
      BY <2>1, Pushed, TwoCallers DEF Typed
    <3>3. QED
      BY <1>1, <3>1, <3>2
  <2>2. s # <<>> => Head(s) \in Entries
    BY <1>2, HeadTailProperties
  <2>3. s # <<>> => Head(s)[1] \notin {"exit", "join", "rewind"}
    BY <1>6, <2>1, <2>2 DEF Lower
  <2>4. QED
    BY <2>3 DEF At_, m
<1>10. ~At_(m, "exit") /\ ~At_(m, "join") /\ ~At_(m, "rewind")
  BY <1>1, <1>6, HeadTailProperties DEF At_
<1>11. QED
  BY <1>4, <1>7, <1>8, <1>9, <1>10 DEF Threaded

LEMMA HarmlessEntries ==
  /\ {<<"sought">>, <<"set", FALSE>>, <<"time">>, <<"timed">>, <<"state">>, <<"clear">>, <<"force">>,
      <<"listen">>, <<"unlisten">>} \subseteq Harmless
  /\ ({"seek", "changed"} \X (0 .. Total) \X BOOLEAN) \subseteq Harmless
  /\ \A c \in Names : <<"triggered", c>> \in Harmless /\ (c # "play" => <<"trigger", c>> \in Harmless)
  /\ ({"reset", "release", "under", "invalid"} \X Triggers) \subseteq Harmless
  /\ ({"cross"} \X Triggers \X BOOLEAN \X BOOLEAN) \subseteq Harmless
  /\ Harmless \subseteq Entries
<1>1. \A e \in Entries : e[1] \notin {"trigger", "set", "start", "exit", "join", "rewind"} => e \in Harmless
  <2>1. <<"trigger", "play">>[1] = "trigger" /\ <<"set", TRUE>>[1] = "set"
    OBVIOUS
  <2>2. \A e : e \in Restarts => e[1] \in {"start", "exit", "join", "rewind"}
    <3>1. \A e : e \in {<<"exit">>, <<"join">>, <<"rewind">>} => e[1] \in {"exit", "join", "rewind"}
      OBVIOUS
    <3>2. \A e : e \in {"start"} \X BOOLEAN => e[1] = "start"
      OBVIOUS
    <3>3. QED
      BY <3>1, <3>2 DEF Restarts
  <2>3. QED
    BY <2>1, <2>2 DEF Harmless, Plays
<1>2. {<<"sought">>, <<"time">>, <<"timed">>, <<"state">>, <<"clear">>, <<"force">>, <<"listen">>, <<"unlisten">>}
        \subseteq Harmless
  <2>1. \A s \in {"sought", "time", "timed", "state", "clear", "force", "listen", "unlisten"} :
           <<s>> \in Entries /\ <<s>>[1] = s
    BY DEF Entries, Plain
  <2>2. \A s \in {"sought", "time", "timed", "state", "clear", "force", "listen", "unlisten"} : <<s>> \in Harmless
    BY <1>1, <2>1
  <2>3. QED
    BY <2>2
<1>3. <<"set", FALSE>> \in Harmless
  <2>1. <<"set", FALSE>> \in Entries
    BY DEF Entries
  <2>2. <<"set", FALSE>> \notin Plays
    BY DEF Plays
  <2>3. <<"set", FALSE>> \notin Restarts
    BY DEF Restarts
  <2>4. QED
    BY <2>1, <2>2, <2>3 DEF Harmless
<1>4. ({"seek", "changed"} \X (0 .. Total) \X BOOLEAN) \subseteq Harmless
  BY <1>1 DEF Entries
<1>5. ASSUME NEW c \in Names
      PROVE  <<"triggered", c>> \in Harmless /\ (c # "play" => <<"trigger", c>> \in Harmless)
  <2>1. <<"triggered", c>> \in Entries /\ <<"trigger", c>> \in Entries
    BY DEF Entries, Calls
  <2>2. c # "play" => <<"trigger", c>> \notin Plays
    BY DEF Plays
  <2>3. <<"trigger", c>> \notin Restarts
    BY DEF Restarts
  <2>4. <<"triggered", c>>[1] = "triggered"
    OBVIOUS
  <2>5. QED
    BY <1>1, <2>1, <2>2, <2>3, <2>4 DEF Harmless
<1>6. ({"reset", "release", "under", "invalid"} \X Triggers) \subseteq Harmless
  BY <1>1 DEF Entries
<1>7. ({"cross"} \X Triggers \X BOOLEAN \X BOOLEAN) \subseteq Harmless
  BY <1>1 DEF Entries
<1>8. QED
  BY <1>2, <1>3, <1>4, <1>5, <1>6, <1>7 DEF Harmless

LEMMA HarmlessConcat ==
  ASSUME NEW q \in Seq(Harmless), NEW r \in Seq(Harmless)
  PROVE  q \o r \in Seq(Harmless)
OBVIOUS

LEMMA HarmlessPush ==
  ASSUME Typed, Following, stack[m] # <<>>, Head(stack[m]) \notin Restarts,
         NEW new \in Stacks, new \in Seq(Harmless), Do(m, new),
         playing' => playing, player' = player, exit' = exit
  PROVE  Following'
<1>1. \A i \in 1 .. Len(new) : new[i] \notin Plays /\ new[i] \notin Restarts
  BY DEF Harmless
<1>2. Nested' /\ Threaded'
  BY <1>1, NestedPush, ThreadedPush DEF Following
<1>3. stack'[Other] = stack[Other]
  BY Pushed, TwoCallers DEF Typed
<1>4. OthersFollow'
  BY <1>3 DEF Following, OthersFollow
<1>5. QED
  BY <1>2, <1>4 DEF Following

\* Steps that push nothing on the message thread's stack.
LEMMA FollowingKept ==
  ASSUME Typed, Following, stack'[m] = stack[m], playing' => playing, player' = player, exit' = exit
  PROVE  Nested' /\ Threaded'
<1>1. Nested'
  BY DEF Following, Nested, m
<1>2. Starting' <=> Starting
  BY DEF Starting, m
<1>3. \A do : At_(m, do)' <=> At_(m, do)
  BY DEF At_, m
<1>4. Threaded'
  BY <1>2, <1>3 DEF Following, Threaded, m
<1>5. QED
  BY <1>1, <1>4

\* What a call pushes, unless it starts the sequence.
LEMMA TriggerPushes ==
  ASSUME NEW c \in Names, c # "play"
  PROVE  Body(c) \o <<<<"triggered", c>>>> \in Seq(Harmless)
<1>1. 0 \in 0 .. Total
  BY Sizes
<1>2. /\ <<"set", FALSE>> \in Harmless /\ <<"seek", 0, TRUE>> \in Harmless
      /\ <<"triggered", c>> \in Harmless
  BY <1>1, HarmlessEntries
<1>3. Body(c) \in Seq(Harmless)
  BY <1>2 DEF Body, Names
<1>4. <<<<"triggered", c>>>> \in Seq(Harmless)
  BY <1>2
<1>5. QED
  BY <1>3, <1>4, HarmlessConcat

LEMMA CallPushes ==
  ASSUME Typed, NEW t \in Callers, Call(t), Head(stack[t]) \notin Plays
  PROVE  /\ stack[t] # <<>> /\ Head(stack[t]) \notin Restarts
         /\ (playing' => playing) /\ player' = player /\ exit' = exit
         /\ \/ \E new \in Stacks : new \in Seq(Harmless) /\ Do(t, new)
            \/ t = m /\ Do(m, <<<<"exit">>>>) /\ ~playing'
<1>1. PICK do \in {"trigger", "triggered", "set", "seek", "sought"} : At_(t, do)
  BY DEF Call, Trigger, Ended, Set, Seek, Sought
<1>2. stack[t] # <<>> /\ Head(stack[t]) \in Entries /\ Head(stack[t])[1] = do
  BY <1>1, FirstStep
<1>3. Head(stack[t]) \notin Restarts
  BY <1>2 DEF Restarts
<1>4. player' = player /\ exit' = exit
  BY DEF Call, Trigger, Ended, Set, Seek, Sought, thread
<1>5. ASSUME ~Set(t) PROVE playing' = playing
  BY <1>5 DEF Call, Trigger, Ended, Seek, Sought
<1>6. <<>> \in Stacks /\ <<>> \in Seq(Harmless)
  <2>1. <<>> \in Seq(Lower) /\ <<>> \in Seq(Harmless)
    OBVIOUS
  <2>2. QED
    BY <2>1, StackKinds
<1>7. CASE Trigger(t)
  <2> DEFINE c == Arg(t, 1)
  <2>1. At_(t, "trigger")
    BY <1>7 DEF Trigger
  <2>2. c \in Names /\ Head(stack[t]) \in Calls /\ Head(stack[t])[1] = "trigger" /\ c = Head(stack[t])[2]
    BY <2>1, FirstStep, EntryParts DEF Arg
  <2>3. c # "play"
    <3>1. Head(stack[t]) = <<"trigger", c>>
      BY <2>2 DEF Calls
    <3>2. QED
      BY <3>1 DEF Plays
  <2>4. Do(t, <<>>) \/ Do(t, Body(c) \o <<<<"triggered", c>>>>)
    BY <1>7 DEF Trigger
  <2> HIDE DEF c
  <2>5. /\ Body(c) \o <<<<"triggered", c>>>> \in Seq(Harmless)
        /\ Body(c) \o <<<<"triggered", c>>>> \in Stacks
    BY <2>2, <2>3, TriggerPushes, BodyType, StackKinds
  <2>6. ~Set(t)
    <3>1. do = "trigger"
      BY <1>2, <2>2
    <3>2. QED
      BY <1>2, <3>1 DEF Set, At_
  <2>7. \E new \in Stacks : new \in Seq(Harmless) /\ Do(t, new)
    BY <1>6, <2>4, <2>5
  <2>8. QED
    BY <1>2, <1>3, <1>4, <1>5, <2>6, <2>7
<1>8. CASE Ended(t) \/ Sought(t)
  <2>1. Do(t, <<>>) /\ playing' = playing
    BY <1>8 DEF Ended, Sought
  <2>2. QED
    BY <1>2, <1>3, <1>4, <1>6, <2>1
<1>9. CASE Set(t)
  <2>1. At_(t, "set")
    BY <1>9 DEF Set
  <2>2. Head(stack[t]) \in Entries /\ Head(stack[t])[1] = "set" /\ Head(stack[t])[2] = Arg(t, 1)
    BY <2>1, FirstStep DEF Arg
  <2>3. Head(stack[t]) \in {"set", "start"} \X BOOLEAN
    BY <2>2 DEF Entries, Calls, Plain
  <2>4. Arg(t, 1) # TRUE
    <3>1. Head(stack[t]) = <<"set", Arg(t, 1)>>
      BY <2>2, <2>3
    <3>2. QED
      BY <3>1 DEF Plays
  <2>5. Arg(t, 1) = FALSE
    BY <2>2, <2>3, <2>4
  <2>6. playing' = FALSE
    BY <1>9, <2>5 DEF Set
  <2>7. Do(t, <<>>) \/ (t = m /\ Do(m, <<<<"exit">>>>))
    <3>1. Do(t, <<>>) \/ Notify(t, "playing", <<>>)
      BY <1>9 DEF Set
    <3>2. Called("playing") \o <<>> = <<<<"exit">>>>
      BY DEF Called
    <3>3. QED
      BY <3>1, <3>2 DEF Notify, m
  <2>8. QED
    BY <1>2, <1>3, <1>4, <1>6, <2>6, <2>7
<1>10. CASE Seek(t)
  <2>1. playing' = playing
    BY <1>10 DEF Seek
  <2>2. Do(t, <<<<"sought">>>>) \/ Do(t, <<<<"time">>, <<"sought">>>>)
    <3>1. Do(t, <<<<"sought">>>>) \/ Notify(t, "time", <<<<"sought">>>>)
      BY <1>10 DEF Seek
    <3>2. Called("time") \o <<<<"sought">>>> = <<<<"time">>, <<"sought">>>>
      BY PairConcat DEF Called
    <3>3. QED
      BY <3>1, <3>2 DEF Notify, m
  <2>3. <<"sought">> \in Lower /\ <<"time">> \in Entries /\ <<"sought">> \in Entries
        /\ <<"sought">> \in Harmless /\ <<"time">> \in Harmless
    BY QuietEntries, HarmlessEntries
  <2>4. /\ <<<<"sought">>>> \in Stacks /\ <<<<"sought">>>> \in Seq(Harmless)
        /\ <<<<"time">>, <<"sought">>>> \in Stacks /\ <<<<"time">>, <<"sought">>>> \in Seq(Harmless)
    BY <2>3, StackKinds
  <2>5. QED
    BY <1>2, <1>3, <1>4, <2>1, <2>2, <2>4
<1>11. QED
  BY <1>7, <1>8, <1>9, <1>10 DEF Call

\* The other thread starts nothing.
LEMMA OtherPushes ==
  ASSUME Typed, Following, NEW q, NEW new, stack[Other] = q, stack'[Other] = new,
         \/ q = <<>> /\ \A i \in 1 .. Len(new) : new[i] \notin Plays
         \/ /\ q # <<>>
            /\ \E p \in Seq(Harmless) : new = p \o Tail(q)
  PROVE  OthersFollow'
<1>1. CASE q = <<>> /\ \A i \in 1 .. Len(new) : new[i] \notin Plays
  BY <1>1 DEF OthersFollow
<1>2. ASSUME q # <<>>, NEW p \in Seq(Harmless), new = p \o Tail(q) PROVE OthersFollow'
  <2>1. q \in Seq(Entries) /\ p \in Seq(Entries) /\ Len(q) \in Nat /\ Len(p) \in Nat
    <3>1. q \in Seq(Entries)
      BY StackKinds, TwoCallers DEF Typed
    <3>2. p \in Seq(Entries)
      BY <1>2, HarmlessEntries
    <3>3. QED
      BY <3>1, <3>2
  <2>2. /\ \A i \in 1 .. Len(p) : new[i] = p[i]
        /\ \A i \in 1 .. Len(new) : i > Len(p) => i - Len(p) + 1 \in 2 .. Len(q)
                                                 /\ new[i] = q[i - Len(p) + 1]
    BY <1>2, <2>1, Replaced
  <2>3. \A i \in 1 .. Len(p) : p[i] \notin Plays
    BY <1>2 DEF Harmless
  <2>4. \A i \in 1 .. Len(q) : q[i] \notin Plays
    BY DEF Following, OthersFollow
  <2>5. ASSUME NEW i \in 1 .. Len(new) PROVE new[i] \notin Plays
    <3>1. CASE i <= Len(p)
      BY <2>1, <2>2, <2>3, <3>1
    <3>2. CASE i > Len(p)
      <4>1. i - Len(p) + 1 \in 1 .. Len(q) /\ new[i] = q[i - Len(p) + 1]
        BY <2>1, <2>2, <3>2
      <4>2. QED
        BY <2>4, <4>1
    <3>3. QED
      BY <2>1, <3>1, <3>2
  <2>6. QED
    BY <2>5 DEF OthersFollow
<1>3. QED
  BY <1>1, <1>2

LEMMA FollowingOtherCall ==
  ASSUME Typed, Following, Call(Other)
  PROVE  Following'
<1>1. stack[Other] # <<>>
  BY TwoCallers DEF Call, Trigger, Ended, Set, Seek, Sought, At_
<1>2. stack[Other] \in Seq(Entries) /\ Len(stack[Other]) \in Nat /\ Len(stack[Other]) > 0
      /\ Head(stack[Other]) = stack[Other][1]
  <2>1. stack[Other] \in Seq(Entries)
    BY StackKinds, TwoCallers DEF Typed
  <2>2. QED
    BY <1>1, <2>1, EmptySeq, HeadTailProperties
<1>3. Head(stack[Other]) \notin Plays
  BY <1>2 DEF Following, OthersFollow
<1>4. /\ (playing' => playing) /\ player' = player /\ exit' = exit
      /\ \E new \in Stacks : new \in Seq(Harmless) /\ Do(Other, new)
  BY <1>3, CallPushes, TwoCallers
<1>5. PICK new \in Stacks : new \in Seq(Harmless) /\ Do(Other, new)
  BY <1>4
<1>6. stack'[m] = stack[m] /\ stack'[Other] = new \o Tail(stack[Other])
  BY <1>1, <1>5, Pushed, TwoCallers DEF Typed
<1>7. OthersFollow'
  BY <1>1, <1>5, <1>6, OtherPushes
<1>8. QED
  BY <1>4, <1>6, <1>7, FollowingKept DEF Following

LEMMA FollowingOtherCommand ==
  ASSUME Typed, Following, OneStarter, Command(Other)
  PROVE  Following'
<1>1. PICK new \in Seq(Quiet) :
         /\ Give(Other, new)
         /\ \/ \E v \in 0 .. Total : new = <<<<"seek", v, TRUE>>>>
            \/ \E c \in Commands[Other] : c \in Seq(Names) /\ new = [i \in DOMAIN c |-> <<"trigger", c[i]>>]
  BY CommandSteps, TwoCallers
<1>2. stack[Other] = <<>> /\ stack' = [stack EXCEPT ![Other] = new]
  BY <1>1 DEF Give
<1>3. stack'[m] = stack[m] /\ stack'[Other] = new
  BY <1>2, TwoCallers DEF Typed
<1>4. \A i \in 1 .. Len(new) : new[i] \notin Plays
  <2>1. ASSUME NEW v \in 0 .. Total, new = <<<<"seek", v, TRUE>>>>
        PROVE  \A i \in 1 .. Len(new) : new[i] \notin Plays
    <3>1. <<"seek", v, TRUE>> \notin Plays
      BY DEF Plays
    <3>2. Len(new) = 1 /\ new[1] = <<"seek", v, TRUE>>
      BY <2>1
    <3>3. \A i \in 1 .. Len(new) : i = 1
      BY <3>2
    <3>4. QED
      BY <3>1, <3>2, <3>3
  <2>2. ASSUME NEW c \in Commands[Other], c \in Seq(Names), new = [i \in DOMAIN c |-> <<"trigger", c[i]>>]
        PROVE  \A i \in 1 .. Len(new) : new[i] \notin Plays
    <3>1. \A i \in DOMAIN c : c[i] # "play"
      BY <2>2 DEF OneStarter
    <3>2. DOMAIN c = 1 .. Len(c) /\ Len(c) \in Nat
      BY <2>2
    <3>3. DOMAIN new = 1 .. Len(c) /\ \A i \in 1 .. Len(c) : new[i] = <<"trigger", c[i]>>
      BY <2>2, <3>2
    <3>4. DOMAIN new = 1 .. Len(new)
      OBVIOUS
    <3>5. \A i \in 1 .. Len(new) : <<"trigger", c[i]>> \notin Plays
      BY <3>1, <3>2, <3>3, <3>4 DEF Plays
    <3>6. QED
      BY <3>3, <3>4, <3>5
  <2>3. QED
    BY <1>1, <2>1, <2>2
<1>5. OthersFollow'
  BY <1>2, <1>3, <1>4, OtherPushes
<1>6. playing' = playing /\ player' = player /\ exit' = exit
  BY DEF Command, thread
<1>7. QED
  BY <1>3, <1>5, <1>6, FollowingKept DEF Following

\* A step of the play thread.
LEMMA FollowingPlay ==
  ASSUME Typed, Following, Play
  PROVE  Following'
<1>1. stack' = stack /\ (playing' => playing /\ player # "finish")
  BY DEF Play
<1>2. OthersFollow' /\ Nested'
  BY <1>1 DEF Following, OthersFollow, Nested, m
<1>3. /\ Starting' <=> Starting
      /\ \A do : At_(m, do)' <=> At_(m, do)
  BY <1>1 DEF Starting, At_, m
<1>4. player # "off"
  BY DEF Play, Begin, Compute, Write, Frame, Advance, Tick, End, Offset, Looped, Jump, Retarget, SetOffset,
     OffsetSet, Finish, Finished
<1>5. ASSUME playing', player \notin {"off", "finishing"}, ~exit
      PROVE  player' \notin {"off", "finishing"} /\ ~exit'
  <2>1. playing /\ player # "finish"
    BY <1>1, <1>5
  <2>2. player' \notin {"off", "finishing"}
    BY <1>5, <2>1
       DEF Play, Begin, Compute, Write, Frame, Advance, Tick, End, Offset, Looped, Jump, Retarget, SetOffset,
     OffsetSet, Finish, Finished
  <2>3. exit' = exit
    BY DEF Play, Begin, Compute, Write, Frame, Advance, Tick, End, Offset, Looped, Jump, Retarget, SetOffset,
     OffsetSet, Finish, Finished
  <2>4. QED
    BY <1>5, <2>2, <2>3
<1>6. Threaded'
  <2> SUFFICES ASSUME playing'
               PROVE  /\ Followed(stack'[m], Restarts, Calls)
                      /\ \A i \in 1 .. Len(stack'[m]) : stack'[m][i] # <<"start", FALSE>>
                      /\ Starting' \/ At_(m, "rewind")' => player' = "off"
                      /\ \/ Starting' \/ At_(m, "exit")' \/ At_(m, "join")' \/ At_(m, "rewind")'
                         \/ player' \notin {"off", "finishing"} /\ ~exit'
    BY DEF Threaded, m
  <2>1. playing
    BY <1>1
  <2>2. /\ Followed(stack[m], Restarts, Calls)
        /\ \A i \in 1 .. Len(stack[m]) : stack[m][i] # <<"start", FALSE>>
        /\ Starting \/ At_(m, "rewind") => player = "off"
        /\ \/ Starting \/ At_(m, "exit") \/ At_(m, "join") \/ At_(m, "rewind")
           \/ player \notin {"off", "finishing"} /\ ~exit
    BY <2>1 DEF Following, Threaded
  <2>3. QED
    BY <1>1, <1>3, <1>4, <1>5, <2>2
<1>7. QED
  BY <1>2, <1>6 DEF Following

\* The message thread starts the sequence: its other calls are those it is in.
TailCalls == \A j \in 2 .. Len(stack[m]) : stack[m][j] \in Calls

LEMMA CallsApart ==
  /\ \A e \in Calls : e \notin Restarts /\ e[1] \in {"trigger", "triggered"}
  /\ \A e \in Calls : e # <<"sought">> /\ e # <<"unlisten">>
  /\ \A e \in Plays : e \notin Restarts
<1>1. \A e \in Calls : e[1] \in {"trigger", "triggered"}
  BY DEF Calls
<1>2. \A e \in Restarts : e[1] \in {"exit", "join", "rewind", "start"}
  BY DEF Restarts
<1>3. <<"trigger", "play">>[1] = "trigger" /\ <<"set", TRUE>>[1] = "set"
      /\ <<"sought">>[1] = "sought" /\ <<"unlisten">>[1] = "unlisten"
  OBVIOUS
<1>4. \A e \in Plays : e[1] \in {"trigger", "set"}
  BY <1>3 DEF Plays
<1>5. QED
  BY <1>1, <1>2, <1>3, <1>4

LEMMA RestartPush ==
  ASSUME Typed, stack[m] # <<>>, TailCalls, NEW new \in Stacks, new # <<>>, Do(m, new),
         Followed(new, Restarts, Calls)
  PROVE  /\ Followed(stack'[m], Restarts, Calls)
         /\ \A i \in 1 .. Len(stack'[m]) :
              stack'[m][i] \in Calls \/ \E j \in 1 .. Len(new) : stack'[m][i] = new[j]
         /\ \A j \in 1 .. Len(new) : j \in 1 .. Len(stack'[m]) /\ stack'[m][j] = new[j]
         /\ stack'[m] # <<>> /\ Head(stack'[m]) = Head(new)
<1> DEFINE q == stack[m]
           s == stack'[m]
<1>1. /\ q \in Seq(Entries) /\ new \in Seq(Entries) /\ q # <<>> /\ Len(q) \in Nat /\ Len(q) > 0
      /\ Len(new) \in Nat
  <2>1. q \in Seq(Entries) /\ new \in Seq(Entries)
    BY StackKinds, TwoCallers DEF Typed
  <2>2. QED
    BY <2>1, EmptySeq
<1>2. s = new \o Tail(q) /\ s # <<>> /\ Head(s) = Head(new)
  BY Pushed, TwoCallers DEF Typed
<1>3. /\ Len(s) = Len(new) + Len(q) - 1
      /\ \A i \in 1 .. Len(new) : s[i] = new[i]
      /\ \A i \in 1 .. Len(s) : i > Len(new) => i - Len(new) + 1 \in 2 .. Len(q)
                                                /\ s[i] = q[i - Len(new) + 1]
  BY <1>1, <1>2, Replaced
<1>4. \A j \in 2 .. Len(q) : q[j] \in Calls
  BY DEF TailCalls
<1> HIDE DEF q, s
<1>5. ASSUME NEW i \in 1 .. Len(s), i > Len(new) PROVE s[i] \in Calls
  BY <1>3, <1>4, <1>5
<1>6. ASSUME NEW i \in 1 .. Len(s), NEW j \in 1 .. Len(s), i < j, s[i] \in Restarts PROVE s[j] \in Calls
  <2>1. i \in 1 .. Len(new) /\ s[i] = new[i]
    <3>1. ~(i > Len(new))
      BY <1>5, <1>6, CallsApart
    <3>2. QED
      BY <1>1, <1>3, <3>1
  <2>2. CASE j \in 1 .. Len(new)
    BY <1>3, <1>6, <2>1, <2>2 DEF Followed
  <2>3. CASE j \notin 1 .. Len(new)
    BY <1>1, <1>5, <2>3
  <2>4. QED
    BY <2>2, <2>3
<1>7. Followed(s, Restarts, Calls)
  BY <1>6 DEF Followed
<1>8. ASSUME NEW i \in 1 .. Len(s)
      PROVE  s[i] \in Calls \/ \E j \in 1 .. Len(new) : s[i] = new[j]
  BY <1>1, <1>3, <1>5
<1>9. \A j \in 1 .. Len(new) : j \in 1 .. Len(s) /\ s[j] = new[j]
  BY <1>1, <1>3
<1>10. QED
  BY <1>2, <1>7, <1>8, <1>9 DEF s

\* The parameter is triggered, or set from FALSE to TRUE.
LEMMA FollowingStarts ==
  ASSUME Typed, Following, Call(m), Head(stack[m]) \in Plays
  PROVE  Following'
<1>1. stack[m] # <<>>
  BY DEF Call, Trigger, Ended, Set, Seek, Sought, At_
<1>2. stack[m] \in Seq(Entries) /\ Len(stack[m]) \in Nat /\ Len(stack[m]) > 0 /\ Head(stack[m]) = stack[m][1]
  <2>1. stack[m] \in Seq(Entries)
    BY StackKinds, TwoCallers DEF Typed
  <2>2. QED
    BY <1>1, <2>1, EmptySeq, HeadTailProperties
<1>3. TailCalls
  <2>1. ASSUME NEW j \in 2 .. Len(stack[m]) PROVE stack[m][j] \in Calls
    <3>1. 1 \in 1 .. Len(stack[m]) /\ j \in 1 .. Len(stack[m]) /\ 1 < j
      BY <1>2
    <3>2. QED
      BY <1>2, <3>1 DEF Following, Nested, Followed
  <2>2. QED
    BY <2>1 DEF TailCalls
<1>4. Head(stack[m]) \notin Restarts
  BY CallsApart
<1>5. OthersFollow
  BY DEF Following
<1>6. <<>> \in Stacks /\ <<>> \in Seq(Harmless)
  <2>1. <<>> \in Seq(Lower) /\ <<>> \in Seq(Harmless)
    OBVIOUS
  <2>2. QED
    BY <2>1, StackKinds
<1>7. CASE Head(stack[m]) = <<"trigger", "play">>
  <2>1. Head(stack[m])[1] = "trigger" /\ Arg(m, 1) = "play"
    BY <1>7 DEF Arg
  <2>2. Trigger(m)
    BY <2>1 DEF Call, Ended, Set, Seek, Sought, At_
  <2>3. playing' = playing /\ player' = player /\ exit' = exit
    BY <2>2 DEF Trigger, thread
  <2>4. CASE Do(m, <<>>)
    BY <1>1, <1>4, <1>6, <2>3, <2>4, HarmlessPush
  <2> DEFINE new == <<<<"set", TRUE>>, <<"triggered", "play">>>>
  <2>5. CASE Do(m, new)
    <3>1. /\ <<"set", TRUE>> \in Entries /\ <<"triggered", "play">> \in Lower /\ <<"triggered", "play">> \in Entries
          /\ <<"triggered", "play">> \in Calls
      <4>1. "play" \in Names
        BY DEF Names
      <4>2. QED
        BY <4>1, QuietEntries DEF Calls
    <3>2. new \in Stacks /\ new \in Seq(Entries) /\ Len(new) = 2 /\ new[1] = <<"set", TRUE>>
          /\ new[2] = <<"triggered", "play">>
      BY <3>1, StackKinds
    <3> HIDE DEF new
    <3>3. \A i \in 1 .. Len(new) : i = 1 \/ i = 2
      BY <3>2
    <3>4. \A i \in 1 .. Len(new) : new[i] \notin Restarts
      <4>1. <<"set", TRUE>> \in Plays
        BY DEF Plays
      <4>2. QED
        BY <3>1, <3>2, <3>3, <4>1, CallsApart
    <3>5. Followed(new, Plays, Calls)
      <4>1. ASSUME NEW i \in 1 .. Len(new), NEW j \in 1 .. Len(new), i < j PROVE new[j] \in Calls
        <5>1. j = 2
          BY <3>3, <4>1
        <5>2. QED
          BY <3>1, <3>2, <5>1
      <4>2. QED
        BY <4>1 DEF Followed
    <3>6. Threaded'
      BY <1>1, <1>4, <2>3, <2>5, <3>2, <3>4, ThreadedPush DEF Following
    <3>7. stack'[m] = new \o Tail(stack[m]) /\ stack'[Other] = stack[Other]
      BY <1>1, <2>5, <3>2, Pushed, TwoCallers DEF Typed
    <3>8. Followed(new \o Tail(stack[m]), Plays, Calls)
      BY <1>1, <1>2, <1>3, <3>2, <3>5, FollowedPush DEF Following, Nested, TailCalls
    <3>9. QED
      BY <1>5, <3>6, <3>7, <3>8 DEF Following, Nested, OthersFollow, m
  <2>6. Body("play") \o <<<<"triggered", "play">>>> = new
    BY PairConcat DEF Body
  <2>7. Do(m, <<>>) \/ Do(m, new)
    BY <2>1, <2>2, <2>6 DEF Trigger
  <2>8. QED
    BY <2>4, <2>5, <2>7
<1>8. CASE Head(stack[m]) = <<"set", TRUE>>
  <2>1. Head(stack[m])[1] = "set" /\ Arg(m, 1) = TRUE
    <3>1. <<"set", TRUE>>[1] = "set" /\ <<"set", TRUE>>[2] = TRUE
      OBVIOUS
    <3>2. Arg(m, 1) = Head(stack[m])[2]
      BY DEF Arg
    <3>3. QED
      BY <1>8, <3>1, <3>2
  <2>2. Set(m)
    BY <2>1 DEF Call, Trigger, Ended, Seek, Sought, At_
  <2>3. playing' = TRUE /\ player' = player /\ exit' = exit
    BY <2>1, <2>2 DEF Set, thread
  <2>4. CASE playing = TRUE
    <3>1. Do(m, <<>>)
      BY <2>1, <2>2, <2>4 DEF Set
    <3>2. QED
      BY <1>1, <1>4, <1>6, <2>3, <2>4, <3>1, HarmlessPush
  <2>5. CASE playing # TRUE
    <3> DEFINE new == <<<<"exit">>>>
    <3>1. Do(m, new)
      <4>1. Notify(m, "playing", <<>>)
        BY <2>1, <2>2, <2>5 DEF Set
      <4>2. Called("playing") \o <<>> = new
        BY DEF Called
      <4>3. QED
        BY <4>1, <4>2 DEF Notify, m
    <3>2. <<"exit">> \in Entries /\ <<"exit">>[1] = "exit"
      BY QuietEntries
    <3>3. new \in Stacks /\ new # <<>> /\ Head(new) = <<"exit">> /\ Len(new) = 1 /\ new[1] = <<"exit">>
      BY <3>2, StackKinds
    <3> HIDE DEF new
    <3>4. \A i \in 1 .. Len(new) : i = 1
      BY <3>3
    <3>5. Followed(new, Restarts, Calls)
      BY <3>4 DEF Followed
    <3>6. /\ Followed(stack'[m], Restarts, Calls)
          /\ \A i \in 1 .. Len(stack'[m]) :
               stack'[m][i] \in Calls \/ \E j \in 1 .. Len(new) : stack'[m][i] = new[j]
          /\ stack'[m] # <<>> /\ Head(stack'[m]) = <<"exit">>
      BY <1>1, <1>3, <3>1, <3>3, <3>5, RestartPush
    <3>7. \A i \in 1 .. Len(stack'[m]) : stack'[m][i][1] # "start"
      BY <3>2, <3>3, <3>4, <3>6, CallsApart
    <3>8. At_(m, "exit")' /\ ~At_(m, "rewind")' /\ ~Starting'
      BY <3>2, <3>6, <3>7 DEF At_, Starting, m
    <3>9. \A i \in 1 .. Len(stack'[m]) : stack'[m][i] # <<"start", FALSE>>
      <4>1. <<"start", FALSE>>[1] = "start"
        OBVIOUS
      <4>2. QED
        BY <3>7, <4>1
    <3>10. Threaded'
      BY <3>6, <3>8, <3>9 DEF Threaded, m
    <3>11. Nested'
      <4>1. \A i \in 1 .. Len(new) : new[i] \notin Plays
        <5>1. <<"exit">> \notin Plays
          BY CallsApart DEF Restarts
        <5>2. QED
          BY <3>3, <3>4, <5>1
      <4>2. QED
        BY <1>1, <3>1, <3>3, <4>1, NestedPush DEF Following
    <3>12. stack'[Other] = stack[Other]
      BY <1>1, <3>1, <3>3, Pushed, TwoCallers DEF Typed
    <3>13. QED
      BY <1>5, <3>10, <3>11, <3>12 DEF Following, OthersFollow
  <2>6. QED
    BY <2>4, <2>5
<1>9. QED
  BY <1>7, <1>8 DEF Plays

LEMMA AloneConcat ==
  ASSUME NEW b
  PROVE  <<>> \o <<b>> = <<b>>
<1>1. <<>> \in Seq({b}) /\ <<b>> \in Seq({b}) /\ Len(<<b>>) = 1 /\ Len(<<>>) = 0
  OBVIOUS
<1>2. <<>> \o <<b>> \in Seq({b}) /\ Len(<<>> \o <<b>>) = 1 /\ (<<>> \o <<b>>)[1] = <<b>>[1]
  BY <1>1, ConcatProperties
<1>3. \A i \in 1 .. 1 : (<<>> \o <<b>>)[i] = <<b>>[i]
  BY <1>2
<1>4. QED
  BY <1>1, <1>2, <1>3, SeqEqual

\* The four steps that start the thread anew.
LEMMA RestartTail ==
  ASSUME Typed, Threaded, playing, stack[m] # <<>>, Head(stack[m]) \in Restarts
  PROVE  TailCalls
<1>1. stack[m] \in Seq(Entries) /\ Len(stack[m]) \in Nat /\ Len(stack[m]) > 0 /\ Head(stack[m]) = stack[m][1]
  <2>1. stack[m] \in Seq(Entries)
    BY StackKinds, TwoCallers DEF Typed
  <2>2. QED
    BY <2>1, EmptySeq, HeadTailProperties
<1>2. ASSUME NEW j \in 2 .. Len(stack[m]) PROVE stack[m][j] \in Calls
  <2>1. 1 \in 1 .. Len(stack[m]) /\ j \in 1 .. Len(stack[m]) /\ 1 < j
    BY <1>1
  <2>2. QED
    BY <1>1, <2>1 DEF Threaded, Followed
<1>3. QED
  BY <1>2 DEF TailCalls

\* Nothing below holds a lock: the wait is over only because the thread has ended.
LEMMA NotStuck ==
  ASSUME Typed, TailCalls, At_(m, "join")
  PROVE  ~Stuck
<1>1. /\ stack[m] # <<>> /\ Head(stack[m])[1] = "join" /\ stack[m] \in Seq(Entries)
      /\ Head(stack[m]) = stack[m][1] /\ Len(stack[m]) \in Nat /\ Len(stack[m]) > 0
  BY FirstStep, TwoCallers
<1>2. \A i \in 1 .. Len(stack[m]) : stack[m][i] # <<"sought">> /\ stack[m][i] # <<"unlisten">>
  <2>1. <<"sought">>[1] = "sought" /\ <<"unlisten">>[1] = "unlisten"
    OBVIOUS
  <2>2. ASSUME NEW i \in 1 .. Len(stack[m]) PROVE stack[m][i] # <<"sought">> /\ stack[m][i] # <<"unlisten">>
    <3>1. CASE i = 1
      BY <1>1, <2>1, <3>1
    <3>2. CASE i # 1
      <4>1. i \in 2 .. Len(stack[m])
        BY <1>1, <3>2
      <4>2. QED
        BY <4>1, CallsApart DEF TailCalls
    <3>3. QED
      BY <3>1, <3>2
  <2>3. QED
    BY <2>2
<1>3. Count(stack[m], {<<"sought">>}) = 0 /\ Count(stack[m], {<<"unlisten">>}) = 0
  <2>1. \A A : Count(stack[m], A) \in Nat /\ ((\E i \in 1 .. Len(stack[m]) : stack[m][i] \in A) <=> Count(stack[m], A) > 0)
    BY <1>1, CountType
  <2>2. /\ Count(stack[m], {<<"sought">>}) \in Nat /\ ~(Count(stack[m], {<<"sought">>}) > 0)
        /\ Count(stack[m], {<<"unlisten">>}) \in Nat /\ ~(Count(stack[m], {<<"unlisten">>}) > 0)
    BY <1>2, <2>1
  <2>3. QED
    BY <2>2
<1>4. Locks /\ Scalars
  BY DEF Typed
<1>5. timeLock.by # m
  <2>1. Soughts(m) = IF timeLock.by = m THEN timeLock.n ELSE 0
    BY <1>4, TwoCallers DEF Locks
  <2>2. timeLock.by = m => timeLock.n # 0
    <3>1. CASE timeLock = Free
      BY <3>1, TwoCallers DEF Free
    <3>2. CASE timeLock \in [by : Callers \cup {"player"}, n : Nat \ {0}]
      BY <3>2
    <3>3. QED
      BY <1>4, <3>1, <3>2 DEF Scalars
  <2>3. QED
    BY <1>3, <2>1, <2>2 DEF Soughts
<1>6. ~(listening > 0)
  <2>1. Opening = 0
    BY <1>1 DEF Opening, At_
  <2>2. listening = 0
    BY <1>3, <1>4, <2>1 DEF Locks
  <2>3. QED
    BY <2>2
<1>7. QED
  BY <1>5, <1>6 DEF Stuck

\* What such a step must push to keep Threaded.
LEMMA RestartStep ==
  ASSUME Typed, Following, stack[m] # <<>>, Head(stack[m]) \in Restarts,
         NEW new \in Stacks, new # <<>>, Do(m, new), playing' = playing,
         \A i \in 1 .. Len(new) : new[i] \notin Plays,
         playing =>
           /\ Followed(new, Restarts, Calls)
           /\ \A i \in 1 .. Len(new) : new[i] # <<"start", FALSE>>
           /\ (\E i \in 1 .. Len(new) : new[i][1] = "start") \/ Head(new)[1] = "rewind" => player' = "off"
           /\ \/ (\E i \in 1 .. Len(new) : new[i][1] = "start") \/ Head(new)[1] \in {"exit", "join", "rewind"}
              \/ player' \notin {"off", "finishing"} /\ ~exit'
  PROVE  Following'
<1>1. Nested'
  BY NestedPush DEF Following
<1>2. stack'[Other] = stack[Other]
  BY Pushed, TwoCallers DEF Typed
<1>3. OthersFollow'
  BY <1>2 DEF Following, OthersFollow
<1>4. ASSUME playing PROVE Threaded'
  <2>1. TailCalls
    BY <1>4, RestartTail DEF Following
  <2>2. /\ Followed(stack'[m], Restarts, Calls)
        /\ \A i \in 1 .. Len(stack'[m]) :
             stack'[m][i] \in Calls \/ \E j \in 1 .. Len(new) : stack'[m][i] = new[j]
        /\ \A j \in 1 .. Len(new) : j \in 1 .. Len(stack'[m]) /\ stack'[m][j] = new[j]
        /\ stack'[m] # <<>> /\ Head(stack'[m]) = Head(new)
    BY <1>4, <2>1, RestartPush
  <2>3. Starting' <=> \E i \in 1 .. Len(new) : new[i][1] = "start"
    <3>1. ASSUME NEW i \in 1 .. Len(stack'[m]), stack'[m][i][1] = "start"
          PROVE  \E j \in 1 .. Len(new) : new[j][1] = "start"
      BY <2>2, <3>1, CallsApart
    <3>2. QED
      BY <2>2, <3>1 DEF Starting, m
  <2>4. \A i \in 1 .. Len(stack'[m]) : stack'[m][i] # <<"start", FALSE>>
    <3>1. <<"start", FALSE>> \notin Calls
      <4>1. <<"start", FALSE>>[1] = "start"
        OBVIOUS
      <4>2. QED
        BY <4>1, CallsApart
    <3>2. QED
      BY <1>4, <2>2, <3>1
  <2>5. \A do : At_(m, do)' <=> Head(new)[1] = do
    BY <2>2 DEF At_, m
  <2>6. QED
    BY <1>4, <2>2, <2>3, <2>4, <2>5 DEF Threaded, m
<1>5. ASSUME ~playing PROVE Threaded'
  BY <1>5 DEF Threaded
<1>6. QED
  BY <1>1, <1>3, <1>4, <1>5 DEF Following

LEMMA FollowingRestarts ==
  ASSUME Typed, Following, Exit \/ Join \/ Rewind \/ Start
  PROVE  Following'
<1>1. PICK do \in {"exit", "join", "rewind", "start"} : At_(m, do)
  BY DEF Exit, Join, Rewind, Start
<1>2. stack[m] # <<>> /\ Head(stack[m])[1] = do /\ Head(stack[m]) \in Entries
      /\ Head(stack[m]) = stack[m][1] /\ 1 \in 1 .. Len(stack[m])
  BY <1>1, FirstStep, TwoCallers
<1>3. Head(stack[m]) \in Restarts
  <2>1. CASE do \in {"exit", "join", "rewind"}
    <3>1. Head(stack[m]) = <<do>>
      BY <1>2, <2>1, EntryParts DEF Plain
    <3>2. QED
      BY <2>1, <3>1 DEF Restarts
  <2>2. CASE do = "start"
    <3>1. Head(stack[m]) \in {"set", "start"} \X BOOLEAN
      BY <1>2, <2>2 DEF Entries, Calls, Plain
    <3>2. QED
      BY <1>2, <2>2, <3>1 DEF Restarts
  <2>3. QED
    BY <2>1, <2>2
<1>4. playing' = playing
  BY DEF Exit, Join, Rewind, Start
<1>5. playing => TailCalls
  BY <1>2, <1>3, RestartTail DEF Following
<1>6. \A e \in Restarts : e \notin Plays
  BY CallsApart
<1>7. CASE Exit \/ Join
  <2> DEFINE e == IF Exit THEN <<"join">> ELSE <<"rewind">>
             new == <<e>>
  <2>1. Do(m, new) /\ e \in Entries /\ e \in Restarts
    <3>1. <<"join">> \in Entries /\ <<"rewind">> \in Entries /\ <<"join">> \in Restarts /\ <<"rewind">> \in Restarts
      BY QuietEntries DEF Restarts
    <3>2. CASE Exit
      BY <3>1, <3>2 DEF Exit
    <3>3. CASE ~Exit
      BY <1>7, <3>1, <3>3 DEF Join
    <3>4. QED
      BY <3>2, <3>3
  <2>2. ASSUME playing, ~Exit PROVE player' = "off"
    <3>1. Join /\ TailCalls
      BY <1>5, <1>7, <2>2
    <3>2. At_(m, "join")
      BY <3>1 DEF Join
    <3>3. ~Stuck
      BY <3>1, <3>2, NotStuck
    <3>4. QED
      BY <3>1, <3>3 DEF Join, thread
  <2>3. e[1] = IF Exit THEN "join" ELSE "rewind"
    OBVIOUS
  <2> HIDE DEF e
  <2>4. new \in Stacks /\ new # <<>> /\ Len(new) = 1 /\ new[1] = e /\ Head(new) = e
    BY <2>1, StackKinds
  <2> HIDE DEF new
  <2>5. \A i \in 1 .. Len(new) : i = 1
    BY <2>4
  <2>6. Followed(new, Restarts, Calls)
    BY <2>5 DEF Followed
  <2>7. /\ \A i \in 1 .. Len(new) : new[i] \notin Plays
        /\ \A i \in 1 .. Len(new) : new[i][1] # "start"
    BY <1>6, <2>1, <2>3, <2>4, <2>5
  <2>8. \A i \in 1 .. Len(new) : new[i] # <<"start", FALSE>>
    <3>1. <<"start", FALSE>>[1] = "start"
      OBVIOUS
    <3>2. QED
      BY <2>7, <3>1
  <2>9. Head(new)[1] \in {"exit", "join", "rewind"} /\ (Head(new)[1] = "rewind" /\ playing => player' = "off")
    BY <2>2, <2>3, <2>4
  <2>10. QED
    BY <1>2, <1>3, <1>4, <2>1, <2>4, <2>6, <2>7, <2>8, <2>9, RestartStep
<1>8. CASE Rewind
  <2>1. At_(m, "rewind")
    BY <1>8 DEF Rewind
  <2>2. player' = player /\ (playing => player = "off")
    BY <1>8, <2>1 DEF Rewind, thread, Following, Threaded
  <2>3. <<"seek", 0, TRUE>> \in Quiet /\ <<"start", playing>> \in Quiet
    <3>1. playing \in BOOLEAN
      BY DEF Typed, Scalars
    <3>2. QED
      BY <3>1, Sizes, QuietEntries
  <2>4. <<"seek", 0, TRUE>>[1] = "seek" /\ <<"start", playing>>[1] = "start" /\ <<"start", playing>>[2] = playing
    OBVIOUS
  <2>5. <<"seek", 0, TRUE>> \notin Restarts /\ <<"seek", 0, TRUE>> \notin Plays /\ <<"start", playing>> \notin Plays
    <3>1. \A x \in Plays : x[1] \in {"trigger", "set"}
      <4>1. <<"trigger", "play">>[1] = "trigger" /\ <<"set", TRUE>>[1] = "set"
        OBVIOUS
      <4>2. QED
        BY <4>1 DEF Plays
    <3>2. \A x \in Restarts : x[1] \in {"exit", "join", "rewind", "start"}
      BY DEF Restarts
    <3>3. QED
      BY <2>4, <3>1, <3>2
  <2>6. ASSUME playing PROVE <<"start", playing>> # <<"start", FALSE>>
    <3>1. <<"start", FALSE>>[2] = FALSE
      OBVIOUS
    <3>2. QED
      BY <2>4, <2>6, <3>1
  <2> DEFINE a == <<"seek", 0, TRUE>>
             b == <<"start", playing>>
  <2>7. Do(m, <<b>>) \/ Do(m, <<a, b>>)
    <3>1. <<>> \o <<b>> = <<b>> /\ <<a>> \o <<b>> = <<a, b>>
      BY AloneConcat, PairConcat
    <3>2. QED
      BY <1>8, <3>1 DEF Rewind
  <2> HIDE DEF a, b
  <2>8. a \in Quiet /\ b \in Quiet /\ a \notin Restarts /\ a \notin Plays /\ b \notin Plays
        /\ a[1] = "seek" /\ b[1] = "start" /\ (playing => b # <<"start", FALSE>>)
        /\ <<"start", FALSE>>[1] = "start"
    BY <2>3, <2>4, <2>5, <2>6 DEF a, b
  <2>9. PICK new \in {<<b>>, <<a, b>>} : Do(m, new)
    BY <2>7
  <2>10. new \in Stacks
    <3>1. a \in Entries /\ b \in Entries /\ b \in Lower
      BY <2>8, QuietEntries
    <3>2. QED
      BY <2>9, <3>1, StackKinds
  <2>11. new # <<>> /\ Len(new) \in {1, 2} /\ new[Len(new)] = b
         /\ \A i \in 1 .. Len(new) : i # Len(new) => i = 1 /\ new[i] = a
    <3>1. CASE new = <<b>>
      BY <3>1
    <3>2. CASE new = <<a, b>>
      BY <3>2
    <3>3. QED
      BY <2>9, <3>1, <3>2
  <2>12. Len(new) \in 1 .. Len(new)
    BY <2>11
  <2>13. Followed(new, Restarts, Calls)
    <3>1. ASSUME NEW i \in 1 .. Len(new), NEW j \in 1 .. Len(new), i < j PROVE new[i] \notin Restarts
      <4>1. i # Len(new)
        BY <2>11, <3>1
      <4>2. QED
        BY <2>8, <2>11, <4>1
    <3>2. QED
      BY <3>1 DEF Followed
  <2>14. \A i \in 1 .. Len(new) : new[i] \in {a, b}
    BY <2>11
  <2>15. \A i \in 1 .. Len(new) : new[i] \notin Plays /\ (playing => new[i] # <<"start", FALSE>>)
    BY <2>8, <2>14
  <2>16. \E i \in 1 .. Len(new) : new[i][1] = "start"
    BY <2>8, <2>11, <2>12
  <2>17. QED
    BY <1>2, <1>3, <1>4, <2>2, <2>9, <2>10, <2>11, <2>13, <2>15, <2>16, RestartStep
<1>9. CASE Start
  <2>1. At_(m, "start")
    BY <1>9 DEF Start
  <2>2. Head(stack[m])[1] = "start" /\ Head(stack[m])[2] = Arg(m, 1) /\ Arg(m, 1) \in BOOLEAN
    BY <2>1, FirstStep, TwoCallers, EntryParts DEF Arg
  <2>3. ASSUME playing PROVE player' \notin {"off", "finishing"} /\ ~exit'
    <3>1. Starting
      BY <1>2, <2>2 DEF Starting
    <3>2. player = "off"
      BY <2>3, <3>1 DEF Following, Threaded
    <3>3. Head(stack[m]) # <<"start", FALSE>>
      BY <1>2, <2>3 DEF Following, Threaded
    <3>4. Arg(m, 1) = TRUE
      <4>1. Head(stack[m]) \in {"set", "start"} \X BOOLEAN
        BY <1>2, <2>2 DEF Entries, Calls, Plain
      <4>2. Head(stack[m]) = <<"start", Arg(m, 1)>>
        BY <2>2, <4>1
      <4>3. QED
        BY <2>2, <3>3, <4>2
    <3>5. player' = "begin" /\ exit' = FALSE
      BY <1>9, <3>2, <3>4 DEF Start
    <3>6. QED
      BY <3>5
  <2> DEFINE a == <<"listen">>
             b == <<"state">>
             c == <<"unlisten">>
             new == <<a, b, c>>
  <2>4. Do(m, new)
    BY <1>9 DEF Start
  <2>5. /\ a \in Entries /\ b \in Lower /\ c \in Lower /\ {a, b, c} \subseteq Harmless
        /\ a[1] = "listen" /\ b[1] = "state" /\ c[1] = "unlisten" /\ <<"start", FALSE>>[1] = "start"
    BY QuietEntries, HarmlessEntries
  <2> HIDE DEF a, b, c
  <2>6. new \in Stacks /\ new # <<>> /\ Len(new) = 3 /\ Head(new) = a
        /\ \A i \in 1 .. Len(new) : new[i] \in {a, b, c}
    BY <2>5, StackKinds
  <2> HIDE DEF new
  <2>7. \A i \in 1 .. Len(new) : new[i] \notin Plays /\ new[i] \notin Restarts /\ new[i] # <<"start", FALSE>>
                                 /\ new[i][1] # "start"
    BY <2>5, <2>6 DEF Harmless
  <2>8. Followed(new, Restarts, Calls)
    BY <2>7 DEF Followed
  <2>9. Head(new)[1] # "rewind"
    BY <2>5, <2>6
  <2>10. QED
    BY <1>2, <1>3, <1>4, <2>3, <2>4, <2>6, <2>7, <2>8, <2>9, RestartStep
<1>10. QED
  BY <1>7, <1>8, <1>9

\* The handlers that start nothing, and what is given to a thread that does nothing.
LEMMA HarmlessSeqs ==
  /\ Seq({"cross"} \X Triggers \X BOOLEAN \X BOOLEAN) \subseteq Seq(Harmless)
  /\ Seq({"under"} \X Triggers) \subseteq Seq(Harmless)
  /\ Seq({"release"} \X Triggers) \subseteq Seq(Harmless)
  /\ Releases \in Seq(Harmless) /\ ReleaseAll \in Seq(Harmless)
<1>1. \A q \in Seq({"cross"} \X Triggers \X BOOLEAN \X BOOLEAN) : q \in Seq(Harmless)
  <2>1. ({"cross"} \X Triggers \X BOOLEAN \X BOOLEAN) \subseteq Harmless
    BY HarmlessEntries
  <2> DEFINE S == {"cross"} \X Triggers \X BOOLEAN \X BOOLEAN
  <2>2. S \subseteq Harmless
    BY <2>1
  <2> HIDE DEF S
  <2>3. \A q \in Seq(S) : q \in Seq(Harmless)
    BY <2>2
  <2>4. QED
    BY <2>3 DEF S
<1>2. ({"release", "under"} \X Triggers) \subseteq Harmless
  BY HarmlessEntries
<1>3. \A q \in Seq({"under"} \X Triggers) : q \in Seq(Harmless)
  <2> DEFINE S == {"under"} \X Triggers
  <2>1. S \subseteq Harmless
    BY <1>2
  <2> HIDE DEF S
  <2>2. \A q \in Seq(S) : q \in Seq(Harmless)
    BY <2>1
  <2>3. QED
    BY <2>2 DEF S
<1>4. \A q \in Seq({"release"} \X Triggers) : q \in Seq(Harmless)
  <2> DEFINE S == {"release"} \X Triggers
  <2>1. S \subseteq Harmless
    BY <1>2
  <2> HIDE DEF S
  <2>2. \A q \in Seq(S) : q \in Seq(Harmless)
    BY <2>1
  <2>3. QED
    BY <2>2 DEF S
<1>5. Releases \in Seq(Harmless)
  BY <1>4, ReleasesType
<1>6. <<<<"clear">>>> \in Seq(Harmless)
  BY HarmlessEntries
<1>7. ReleaseAll \in Seq(Harmless)
  BY <1>5, <1>6, HarmlessConcat DEF ReleaseAll
<1>8. QED
  BY <1>1, <1>3, <1>4, <1>5, <1>7

LEMMA HarmlessWalk ==
  ASSUME Scalars, NEW from \in 0 .. Total, NEW evaluate \in BOOLEAN
  PROVE  Walk(from, evaluate) \in Seq(Harmless)
<1> DEFINE low == IF from < time THEN from ELSE time
           high == IF from < time THEN time ELSE from
<1>1. forward \in BOOLEAN /\ (~forward) \in BOOLEAN
  BY DEF Scalars
<1>2. <<>> \in Seq(Harmless)
  OBVIOUS
<1>3. Timespan(low, high, forward, FALSE) \in Seq(Harmless)
  BY <1>1, TimespanType, HarmlessSeqs
<1>4. Timespan(low, high, ~forward, TRUE) \o ReleaseAll \in Seq(Harmless)
  <2>1. Timespan(low, high, ~forward, TRUE) \in Seq(Harmless)
    BY <1>1, TimespanType, HarmlessSeqs
  <2>2. QED
    BY <2>1, HarmlessSeqs, HarmlessConcat
<1>5. \/ Walk(from, evaluate) = <<>>
      \/ Walk(from, evaluate) = Timespan(low, high, forward, FALSE)
      \/ Walk(from, evaluate) = Timespan(low, high, ~forward, TRUE) \o ReleaseAll
  BY DEF Walk
<1> HIDE DEF low, high
<1>6. QED
  BY <1>2, <1>3, <1>4, <1>5

\* A trigger starts nothing where its consequences do not.
LEMMA HarmlessGives ==
  ASSUME OneStarter, NEW k \in Triggers, NEW r
  PROVE  Gives(k, r) \in Seq(Harmless)
<1> DEFINE gifts == [i \in DOMAIN Effect[k] |-> <<"trigger", Effect[k][i]>>]
<1>1. Effect[k] \in Seq(Names)
  BY EffectNames
<1>2. DOMAIN Effect[k] = 1 .. Len(Effect[k]) /\ Len(Effect[k]) \in Nat
      /\ \A i \in 1 .. Len(Effect[k]) : Effect[k][i] \in Names /\ Effect[k][i] # "play"
  BY <1>1 DEF OneStarter
<1>3. \A i \in 1 .. Len(Effect[k]) : <<"trigger", Effect[k][i]>> \in Harmless
  BY <1>2, HarmlessEntries
<1>4. gifts \in [1 .. Len(Effect[k]) -> Harmless]
  BY <1>2, <1>3
<1>5. gifts \in Seq(Harmless) /\ <<>> \in Seq(Harmless)
  BY <1>2, <1>4
<1>6. QED
  BY <1>5 DEF Gives

LEMMA HarmlessPushes ==
  ASSUME OneStarter, NEW k \in Triggers, NEW r, NEW steps \in Seq(Harmless)
  PROVE  Pushes(k, r, steps) \in Seq(Harmless)
<1>1. Gives(k, r) \in Seq(Harmless)
  BY HarmlessGives
<1>2. (IF r.can # trig[k].can THEN <<<<"state">>>> ELSE <<>>) \in Seq(Harmless)
  BY HarmlessEntries
<1>3. Gives(k, r) \o (IF r.can # trig[k].can THEN <<<<"state">>>> ELSE <<>>) \in Seq(Harmless)
  BY <1>1, <1>2, HarmlessConcat
<1>4. QED
  BY <1>3, HarmlessConcat DEF Pushes

LEMMA FollowingTriggers ==
  ASSUME Typed, Following, OneStarter, Cross \/ Reset \/ Release \/ EnterUnder \/ Invalid
  PROVE  Following'
<1>1. PICK do \in TriggerSteps, k \in Triggers :
         /\ At_(m, do) /\ Becomes(k, Handled(do, k), After(do, k))
         /\ Handled(do, k) \in States /\ After(do, k) \in Seq(Quiet)
  BY TriggerHandlers
<1> DEFINE r == Handled(do, k)
           steps == After(do, k)
<1>2. steps \in Seq(Harmless)
  <2>1. <<"reset", k>> \in Harmless
    BY HarmlessEntries
  <2>2. QED
    BY <2>1 DEF After
<1>3. r \in States /\ steps \in Seq(Quiet) /\ Becomes(k, r, steps)
  BY <1>1
<1> HIDE DEF r, steps
<1>4. /\ Pushes(k, r, steps) \in Seq(Quiet) /\ Do(m, Pushes(k, r, steps))
      /\ Pushes(k, r, steps) \in Stacks /\ Pushes(k, r, steps) \in Seq(Harmless)
  <2>1. Pushes(k, r, steps) \in Seq(Quiet) /\ Do(m, Pushes(k, r, steps))
    BY <1>3, PushesType DEF Becomes, Pushes
  <2>2. QED
    BY <1>2, <2>1, HarmlessPushes, StackKinds
<1>5. playing' = playing /\ player' = player /\ exit' = exit
  BY <1>3 DEF Becomes, thread
<1>6. stack[m] # <<>> /\ Head(stack[m])[1] = do
  BY <1>1 DEF At_
<1>7. Head(stack[m]) \notin Restarts
  BY <1>6 DEF Restarts, TriggerSteps
<1>8. QED
  BY <1>4, <1>5, <1>6, <1>7, HarmlessPush

LEMMA FollowingHandlers ==
  ASSUME Typed, Following, Listen \/ TimeChanged \/ Timed \/ Changed \/ StateChanged \/ Clear \/ ForceUpdate
  PROVE  Following'
<1>1. PICK do \in {"listen", "unlisten", "time", "timed", "changed", "state", "clear", "force"} : At_(m, do)
  BY DEF Listen, TimeChanged, Timed, Changed, StateChanged, Clear, ForceUpdate
<1>2. stack[m] # <<>> /\ Head(stack[m])[1] = do /\ Head(stack[m]) \in Entries
  BY <1>1, FirstStep, TwoCallers
<1>3. Head(stack[m]) \notin Restarts
  BY <1>2 DEF Restarts
<1>4. playing' = playing /\ player' = player /\ exit' = exit
  BY DEF Listen, TimeChanged, Timed, Changed, StateChanged, Clear, ForceUpdate, thread
<1>5. Scalars
  BY DEF Typed
<1>6. \E new \in Stacks : new \in Seq(Harmless) /\ Do(m, new)
  <2>1. CASE Listen \/ Timed \/ Clear
    <3>1. <<>> \in Seq(Lower) /\ <<>> \in Seq(Harmless)
      OBVIOUS
    <3>2. <<>> \in Stacks
      BY <3>1, StackKinds
    <3>3. QED
      BY <2>1, <3>1, <3>2 DEF Listen, Timed, Clear
  <2>2. CASE TimeChanged
    <3>1. prev \in 0 .. Total /\ Evaluates \in BOOLEAN
      BY <1>5, EvaluatesType DEF Scalars
    <3> DEFINE a == <<"listen">>
               b == <<"changed", prev, Evaluates>>
               c == <<"unlisten">>
               d == <<"timed">>
    <3>2. b \in Lower /\ b \in Harmless
      BY <3>1, QuietEntries, HarmlessEntries
    <3>3. a \in Entries /\ c \in Lower /\ d \in Lower /\ a \in Harmless /\ c \in Harmless /\ d \in Harmless
      BY QuietEntries, HarmlessEntries
    <3>4. Do(m, <<a, b, c, d>>)
      BY <2>2 DEF TimeChanged
    <3> HIDE DEF a, b, c, d
    <3>5. <<a, b, c, d>> \in Stacks
      BY <3>2, <3>3, StackKinds
    <3>6. <<a, b, c, d>> \in Seq(Harmless)
      BY <3>2, <3>3
    <3>7. QED
      BY <3>4, <3>5, <3>6
  <2>3. CASE Changed
    <3>1. At_(m, "changed")
      BY <2>3 DEF Changed
    <3>2. Arg(m, 1) \in 0 .. Total /\ Arg(m, 2) \in BOOLEAN
      BY <3>1, FirstStep, TwoCallers, EntryParts DEF Arg
    <3>3. Walk(Arg(m, 1), Arg(m, 2)) \in Seq(Harmless)
      BY <1>5, <3>2, HarmlessWalk
    <3>4. Walk(Arg(m, 1), Arg(m, 2)) \in Stacks
      <4>1. Walk(Arg(m, 1), Arg(m, 2)) \in Seq(Quiet)
        BY <1>5, <3>2, WalkQuiet
      <4>2. QED
        BY <4>1, StackKinds
    <3>5. QED
      BY <2>3, <3>3, <3>4 DEF Changed
  <2>4. CASE StateChanged
    <3>1. Affected \in Seq(Quiet)
      BY AffectedType, UnclearSeqs
    <3>2. Affected \in Seq(Harmless)
      <4>1. <<>> \in Seq(Harmless)
        OBVIOUS
      <4>2. QED
        BY <4>1, UndersType, HarmlessSeqs DEF Affected
    <3>3. QED
      BY <2>4, <3>1, <3>2, StackKinds DEF StateChanged
  <2>5. CASE ForceUpdate
    <3>1. time \in 0 .. Total
      BY <1>5 DEF Scalars
    <3> DEFINE e == <<"seek", time, FALSE>>
    <3>2. e \in Harmless /\ Do(m, <<e>>)
      BY <2>5, <3>1, HarmlessEntries DEF ForceUpdate
    <3> HIDE DEF e
    <3>3. <<e>> \in Stacks /\ <<e>> \in Seq(Harmless)
      BY <3>2, HarmlessEntries, StackKinds
    <3>4. QED
      BY <3>2, <3>3
  <2>6. QED
    BY <2>1, <2>2, <2>3, <2>4, <2>5
<1>7. QED
  BY <1>2, <1>3, <1>4, <1>6, HarmlessPush

LEMMA FollowingGiven ==
  ASSUME Typed, Following, stack[m] = <<>>, NEW new \in Stacks, stack' = [stack EXCEPT ![m] = new],
         playing' = playing, player' = player, exit' = exit,
         \/ (\A i \in 1 .. Len(new) : new[i] \notin Restarts) /\ Followed(new, Plays, Calls)
         \/ new = <<<<"exit">>>>
  PROVE  Following'
<1>1. stack'[m] = new /\ stack'[Other] = stack[Other]
  BY TwoCallers DEF Typed
<1>2. OthersFollow'
  BY <1>1 DEF Following, OthersFollow
<1>3. CASE (\A i \in 1 .. Len(new) : new[i] \notin Restarts) /\ Followed(new, Plays, Calls)
  <2>1. Nested'
    BY <1>1, <1>3 DEF Nested, m
  <2>2. Followed(new, Restarts, Calls)
    BY <1>3 DEF Followed
  <2>3. new \in Seq(Entries) /\ (new # <<>> => Len(new) > 0 /\ Len(new) \in Nat /\ Head(new) = new[1])
    <3>1. new \in Seq(Entries)
      BY StackKinds
    <3>2. QED
      BY <3>1, EmptySeq, HeadTailProperties
  <2>4. \A i \in 1 .. Len(new) : new[i][1] \notin {"start", "exit", "join", "rewind"}
    <3>1. \A e \in Entries : e[1] \in {"start", "exit", "join", "rewind"} => e \in Restarts
      <4>1. ASSUME NEW e \in Entries, e[1] \in {"exit", "join", "rewind"} PROVE e \in Restarts
        BY <4>1, EntryParts DEF Plain, Restarts
      <4>2. ASSUME NEW e \in Entries, e[1] = "start" PROVE e \in Restarts
        BY <4>2 DEF Entries, Calls, Plain, Restarts
      <4>3. QED
        BY <4>1, <4>2
    <3>2. \A i \in 1 .. Len(new) : new[i] \in Entries
      BY <2>3
    <3>3. QED
      BY <1>3, <3>1, <3>2
  <2>5. \A i \in 1 .. Len(new) : new[i] # <<"start", FALSE>>
    <3>1. <<"start", FALSE>>[1] = "start"
      OBVIOUS
    <3>2. QED
      BY <2>4, <3>1
  <2>6. ~Starting' /\ ~At_(m, "exit")' /\ ~At_(m, "join")' /\ ~At_(m, "rewind")'
    <3>1. ~Starting'
      BY <1>1, <2>4 DEF Starting, m
    <3>2. new # <<>> => 1 \in 1 .. Len(new) /\ Head(new) = new[1]
      BY <2>3
    <3>3. new # <<>> => Head(new)[1] \notin {"start", "exit", "join", "rewind"}
      BY <2>4, <3>2
    <3>4. QED
      BY <1>1, <3>1, <3>3 DEF At_, m
  <2>7. playing => player \notin {"off", "finishing"} /\ ~exit
    <3>1. ~Starting
      BY EmptySeq DEF Starting
    <3>2. ~At_(m, "exit") /\ ~At_(m, "join") /\ ~At_(m, "rewind")
      BY DEF At_
    <3>3. QED
      BY <3>1, <3>2 DEF Following, Threaded
  <2>8. Threaded'
    BY <1>1, <2>2, <2>5, <2>6, <2>7 DEF Threaded, m
  <2>9. QED
    BY <1>2, <2>1, <2>8 DEF Following
<1>4. CASE new = <<<<"exit">>>>
  <2>1. Len(new) = 1 /\ new[1] = <<"exit">> /\ Head(new) = <<"exit">> /\ new # <<>>
        /\ <<"exit">>[1] = "exit" /\ <<"start", FALSE>>[1] = "start"
    BY <1>4
  <2> HIDE <1>4
  <2>2. \A i \in 1 .. Len(new) : i = 1
    BY <2>1
  <2>3. \A X, Y : Followed(new, X, Y)
    BY <2>2 DEF Followed
  <2>4. \A i \in 1 .. Len(new) : new[i] # <<"start", FALSE>> /\ new[i][1] # "start"
    BY <2>1, <2>2
  <2>5. At_(m, "exit")' /\ ~At_(m, "rewind")' /\ ~Starting'
    BY <1>1, <2>1, <2>4 DEF At_, Starting, m
  <2>6. Threaded'
    BY <1>1, <2>3, <2>4, <2>5 DEF Threaded, m
  <2>7. Nested'
    BY <1>1, <2>3 DEF Nested, m
  <2>8. QED
    BY <1>2, <2>6, <2>7 DEF Following
<1>5. QED
  BY <1>3, <1>4

LEMMA HarmlessGiven ==
  ASSUME Typed, Following, stack[m] = <<>>, NEW new \in Seq(Harmless), new \in Stacks,
         stack' = [stack EXCEPT ![m] = new], playing' = playing, player' = player, exit' = exit
  PROVE  Following'
<1>1. \A i \in 1 .. Len(new) : new[i] \notin Restarts /\ new[i] \notin Plays
  BY DEF Harmless
<1>2. Followed(new, Plays, Calls)
  BY <1>1 DEF Followed
<1>3. QED
  BY <1>1, <1>2, FollowingGiven

LEMMA FollowingPosted ==
  ASSUME Typed, Following, HandlePosted
  PROVE  Following'
<1>1. stack[m] = <<>> /\ playing' = playing /\ player' = player /\ exit' = exit
  BY DEF HandlePosted, thread
<1>2. CASE Head(posted) = "loop"
  <2>1. stack' = [stack EXCEPT ![m] = ReleaseAll]
    BY <1>2 DEF HandlePosted
  <2>2. ReleaseAll \in Seq(Harmless) /\ ReleaseAll \in Stacks
    BY HarmlessSeqs, ReleasesType, StackKinds
  <2>3. QED
    BY <1>1, <2>1, <2>2, HarmlessGiven
<1>3. CASE Head(posted) = "time"
  <2>1. stack' = [stack EXCEPT ![m] = <<<<"time">>>>]
    BY <1>3 DEF HandlePosted, Called
  <2>2. <<<<"time">>>> \in Seq(Harmless) /\ <<<<"time">>>> \in Stacks
    BY HarmlessEntries, StackKinds
  <2>3. QED
    BY <1>1, <2>1, <2>2, HarmlessGiven
<1>4. CASE Head(posted) \notin {"loop", "time"}
  <2>1. stack' = [stack EXCEPT ![m] = <<<<"exit">>>>]
    BY <1>4 DEF HandlePosted, Called
  <2>2. <<<<"exit">>>> \in Stacks
    BY QuietEntries, StackKinds
  <2>3. QED
    BY <1>1, <2>1, <2>2, FollowingGiven
<1>5. QED
  BY <1>2, <1>3, <1>4

LEMMA FollowingCommand ==
  ASSUME Typed, Following, Command(m)
  PROVE  Following'
<1>1. PICK new \in Seq(Quiet) :
         /\ Give(m, new)
         /\ \/ \E v \in 0 .. Total : new = <<<<"seek", v, TRUE>>>>
            \/ \E c \in Commands[m] : c \in Seq(Names) /\ new = [i \in DOMAIN c |-> <<"trigger", c[i]>>]
  BY CommandSteps, TwoCallers
<1>2. stack[m] = <<>> /\ stack' = [stack EXCEPT ![m] = new] /\ new \in Stacks
  BY <1>1, StackKinds DEF Give
<1>3. playing' = playing /\ player' = player /\ exit' = exit
  BY DEF Command, thread
<1>4. ASSUME NEW v \in 0 .. Total, new = <<<<"seek", v, TRUE>>>> PROVE Following'
  <2>1. <<"seek", v, TRUE>> \in Harmless
    BY HarmlessEntries
  <2> DEFINE e == <<"seek", v, TRUE>>
  <2>2. e \in Harmless /\ new = <<e>>
    BY <1>4, <2>1
  <2> HIDE DEF e
  <2>3. new \in Seq(Harmless)
    BY <2>2
  <2>4. QED
    BY <1>2, <1>3, <2>3, HarmlessGiven
<1>5. ASSUME NEW c \in Seq(Names), new = [i \in DOMAIN c |-> <<"trigger", c[i]>>] PROVE Following'
  <2>1. new \in Seq({"trigger"} \X Names)
    BY <1>5, NamesOfEffects
  <2>2. \A i \in 1 .. Len(new) : new[i] \in Calls
    BY <2>1 DEF Calls
  <2>3. Followed(new, Plays, Calls)
    BY <2>2 DEF Followed
  <2>4. \A i \in 1 .. Len(new) : new[i] \notin Restarts
    BY <2>2, CallsApart
  <2>5. QED
    BY <1>2, <1>3, <2>3, <2>4, FollowingGiven
<1>6. QED
  BY <1>1, <1>4, <1>5

LEMMA FollowingEdits ==
  ASSUME Typed, Following, ChangeSpeed \/ ChangeCondition
  PROVE  Following'
<1>1. playing' = playing /\ player' = player /\ exit' = exit
  BY DEF ChangeSpeed, ChangeCondition, thread
<1>2. CASE ChangeSpeed
  <2> DEFINE a == <<<<"listen">>>>
             b == <<<<"unlisten">>, <<"force">>>>
             new == a \o ReleaseAll \o b
  <2>1. stack[m] = <<>> /\ stack' = [stack EXCEPT ![m] = new]
    BY <1>2 DEF ChangeSpeed, Give
  <2>2. new \in Seq(Harmless)
    <3>1. a \in Seq(Harmless) /\ b \in Seq(Harmless)
      BY HarmlessEntries
    <3> HIDE DEF a, b
    <3>2. a \o ReleaseAll \in Seq(Harmless)
      BY <3>1, HarmlessSeqs, HarmlessConcat
    <3>3. QED
      BY <3>1, <3>2, HarmlessConcat
  <2>3. new \in Stacks
    <3> HIDE DEF new
    <3>1. stack'[m] = new
      BY <2>1, TwoCallers DEF Typed
    <3>2. stack' \in [Callers -> Stacks]
      BY TypedEdits DEF Typed
    <3>3. QED
      BY <3>1, <3>2, TwoCallers
  <2>4. QED
    BY <1>1, <2>1, <2>2, <2>3, HarmlessGiven
<1>3. CASE ChangeCondition
  <2>1. PICK k \in Triggers, a \in {<<>>, <<<<"state">>>>} : Give(m, a \o <<<<"invalid", k>>>>)
    BY <1>3 DEF ChangeCondition
  <2> DEFINE b == <<<<"invalid", k>>>>
  <2>2. stack[m] = <<>> /\ stack' = [stack EXCEPT ![m] = a \o b]
    BY <2>1 DEF Give
  <2>3. /\ a \in Seq(Harmless) /\ b \in Seq(Harmless) /\ a \in Seq(Quiet) /\ b \in Seq(Quiet)
    <3>1. <<"invalid", k>> \in Harmless /\ <<"state">> \in Harmless
          /\ <<"invalid", k>> \in Quiet /\ <<"state">> \in Quiet
      BY HarmlessEntries, QuietEntries
    <3>2. <<<<"state">>>> \in Seq(Harmless) /\ <<<<"state">>>> \in Seq(Quiet)
          /\ <<>> \in Seq(Harmless) /\ <<>> \in Seq(Quiet)
      BY <3>1
    <3>3. b \in Seq(Harmless) /\ b \in Seq(Quiet)
      BY <3>1
    <3>4. QED
      BY <2>1, <3>2, <3>3
  <2> HIDE DEF b
  <2>4. a \o b \in Seq(Harmless) /\ a \o b \in Stacks
    BY <2>3, HarmlessConcat, QuietConcat, StackKinds
  <2>5. QED
    BY <1>1, <2>2, <2>4, HarmlessGiven
<1>4. QED
  BY <1>2, <1>3

LEMMA InitFollowing == Init => Following
<1> SUFFICES ASSUME Init PROVE Following
  OBVIOUS
<1>1. stack[m] = <<>> /\ stack[Other] = <<>> /\ playing = FALSE
  BY TwoCallers DEF Init
<1>2. \A X, Y : Followed(<<>>, X, Y)
  BY DEF Followed
<1>3. QED
  BY <1>1, <1>2, EmptySeq DEF Following, OthersFollow, Nested, Threaded

LEMMA StepFollowing == OneStarter /\ Typed /\ Following /\ [Next]_vars => Following'
<1> SUFFICES ASSUME OneStarter, Typed, Following, [Next]_vars PROVE Following'
  OBVIOUS
<1>1. CASE Call(m)
  <2>1. CASE Head(stack[m]) \in Plays
    BY <1>1, <2>1, FollowingStarts
  <2>2. CASE Head(stack[m]) \notin Plays
    <3>1. /\ stack[m] # <<>> /\ Head(stack[m]) \notin Restarts
          /\ (playing' => playing) /\ player' = player /\ exit' = exit
          /\ \/ \E new \in Stacks : new \in Seq(Harmless) /\ Do(m, new)
             \/ Do(m, <<<<"exit">>>>) /\ ~playing'
      BY <1>1, <2>2, CallPushes, TwoCallers
    <3>2. CASE \E new \in Stacks : new \in Seq(Harmless) /\ Do(m, new)
      BY <3>1, <3>2, HarmlessPush
    <3>3. CASE Do(m, <<<<"exit">>>>) /\ ~playing'
      <4> DEFINE new == <<<<"exit">>>>
      <4>1. <<"exit">> \in Entries /\ <<"exit">> \notin Plays
        BY QuietEntries, CallsApart DEF Restarts
      <4>2. new \in Stacks /\ Do(m, new) /\ \A i \in 1 .. Len(new) : new[i] \notin Plays
        BY <3>3, <4>1, StackKinds
      <4> HIDE DEF new
      <4>3. Nested' /\ stack'[Other] = stack[Other]
        BY <3>1, <4>2, NestedPush, Pushed, TwoCallers DEF Following, Typed
      <4>4. Threaded'
        BY <3>3 DEF Threaded
      <4>5. QED
        BY <4>3, <4>4 DEF Following, OthersFollow
    <3>4. QED
      BY <3>1, <3>2, <3>3
  <2>3. QED
    BY <2>1, <2>2
<1>2. CASE Call(Other) \/ Command(Other) \/ Command(m)
  BY <1>2, FollowingOtherCall, FollowingOtherCommand, FollowingCommand
<1>3. CASE Handler
  BY <1>3, FollowingRestarts, FollowingTriggers, FollowingHandlers, FollowingPosted DEF Handler
<1>4. CASE Play
  BY <1>4, FollowingPlay
<1>5. CASE ChangeSpeed \/ ChangeCondition
  BY <1>5, FollowingEdits
<1>6. CASE UNCHANGED vars
  BY <1>6 DEF vars, thread, Following, OthersFollow, Nested, Threaded, Starting, At_, m
<1>7. QED
  BY <1>1, <1>2, <1>3, <1>4, <1>5, <1>6, TwoCallers DEF Next

\* The thread plays as long as the sequence does: once all that was posted is handled, a
\* sequence that plays has its thread (PlayerFollows), where neither a trigger's
\* consequences nor another thread start it.
THEOREM ThreadFollows == ASSUME OneStarter PROVE Spec => []PlayerFollows
<1>1. Following => PlayerFollows
  <2> SUFFICES ASSUME Following, Resting, playing PROVE player # "off"
    BY DEF PlayerFollows
  <2>1. stack[m] = <<>>
    BY TwoCallers DEF Resting
  <2>2. ~Starting /\ ~At_(m, "exit") /\ ~At_(m, "join") /\ ~At_(m, "rewind")
    BY <2>1, EmptySeq DEF Starting, At_
  <2>3. QED
    BY <2>2 DEF Following, Threaded
<1>2. Init => Typed /\ Following
  BY InitTyped, InitFollowing
<1>3. Typed /\ Following /\ [Next]_vars => (Typed /\ Following)'
  BY StepTyped, StepFollowing
<1>4. QED
  BY <1>1, <1>2, <1>3, PTL DEF Spec

-----------------------------------------------------------------------------
\* That a bar is held from when it fires to its one release.  What becomes of a trigger
\* whose flag and count fit:
LEMMA FittingFields ==
  ASSUME NEW r \in States
  PROVE  /\ r.sounding \in Int /\ r.triggered \in BOOLEAN /\ r.can \in BOOLEAN /\ r.valid \in BOOLEAN
         /\ \A b : LET s == [r EXCEPT !.inside = b]
                   IN s.sounding = r.sounding /\ s.triggered = r.triggered /\ s.can = r.can /\ s.valid = r.valid
         /\ \A b : LET s == [r EXCEPT !.done = b]
                   IN s.sounding = r.sounding /\ s.triggered = r.triggered /\ s.can = r.can /\ s.valid = r.valid
         /\ \A b : LET s == [r EXCEPT !.can = b]
                   IN s.sounding = r.sounding /\ s.triggered = r.triggered /\ s.can = b /\ s.valid = r.valid
         /\ \A b, c : LET s == [r EXCEPT !.can = b, !.done = c]
                      IN s.sounding = r.sounding /\ s.triggered = r.triggered /\ s.can = b /\ s.valid = r.valid
         /\ \A b, c : LET s == [r EXCEPT !.triggered = b, !.sounding = c]
                      IN s.sounding = c /\ s.triggered = b /\ s.can = r.can /\ s.valid = r.valid
         /\ \A b, c, d : LET s == [r EXCEPT !.triggered = b, !.sounding = c, !.done = d]
                         IN s.sounding = c /\ s.triggered = b /\ s.can = r.can /\ s.valid = r.valid
BY DEF States

LEMMA FittingUpdated ==
  ASSUME NoOnce, NEW k \in Triggers, NEW r \in States,
         k \in Sustained => r.sounding = IF r.triggered THEN 1 ELSE 0
  PROVE  /\ Fits(k, Updated(k, r))
         /\ Updated(k, r).triggered = r.triggered /\ Updated(k, r).valid = r.valid
         /\ Updated(k, r).sounding = r.sounding
<1> DEFINE s == Updated(k, r)
<1>1. s.sounding = r.sounding /\ s.triggered = r.triggered /\ s.can = r.valid /\ s.valid = r.valid
  <2>1. CASE k \in Bars
    <3> DEFINE may == r.valid /\ (Options[k].evaluate = "once" => ~r.done)
    <3>1. may = r.valid
      BY <2>1, FittingFields DEF NoOnce
    <3>2. s = [r EXCEPT !.can = may]
      BY <2>1 DEF Updated
    <3> HIDE DEF may, s
    <3>3. QED
      BY <3>1, <3>2, FittingFields
  <2>2. CASE k \notin Bars
    <3>1. s = [r EXCEPT !.can = r.valid, !.done = FALSE]
      BY <2>2 DEF Updated
    <3> HIDE DEF s
    <3>2. QED
      BY <3>1, FittingFields
  <2>3. QED
    BY <2>1, <2>2
<1> HIDE DEF s
<1>2. Fits(k, s)
  BY <1>1 DEF Fits
<1>3. QED
  BY <1>1, <1>2 DEF s

LEMMA FittingReleased ==
  ASSUME NoOnce, NEW k \in Triggers, NEW r \in States, Fits(k, r)
  PROVE  /\ Fits(k, Released(k, r)) /\ Released(k, r).can = r.can
         /\ ~Released(k, r).triggered /\ Released(k, r).sounding <= r.sounding
<1>1. CASE ~r.triggered
  <2>1. Released(k, r) = r
    BY <1>1 DEF Released
  <2>2. QED
    BY <1>1, <2>1, FittingFields
<1>2. CASE r.triggered
  <2> DEFINE s == [r EXCEPT !.triggered = FALSE, !.sounding = r.sounding - 1, !.done = TRUE]
  <2>1. Released(k, r) = Updated(k, s)
    BY <1>2 DEF Released
  <2>2. s \in States
    <3>1. r.sounding - 1 \in Int
      BY FittingFields
    <3>2. \A i \in Int : [r EXCEPT !.triggered = FALSE, !.sounding = i, !.done = TRUE] \in States
      BY DEF States
    <3>3. QED
      BY <3>1, <3>2, Zenon
  <2>3. s.sounding = r.sounding - 1 /\ s.triggered = FALSE /\ s.valid = r.valid
    BY FittingFields
  <2> HIDE DEF s
  <2>4. k \in Sustained => s.sounding = IF s.triggered THEN 1 ELSE 0
    BY <1>2, <2>3 DEF Fits
  <2>5. /\ Fits(k, Updated(k, s)) /\ Updated(k, s).triggered = FALSE /\ Updated(k, s).valid = r.valid
        /\ Updated(k, s).sounding = r.sounding - 1
    BY <2>2, <2>3, <2>4, FittingUpdated
  <2>6. Updated(k, s).can = r.can
    BY <2>5 DEF Fits
  <2>7. r.sounding - 1 <= r.sounding
    BY FittingFields
  <2>8. QED
    BY <2>1, <2>5, <2>6, <2>7
<1>3. QED
  BY <1>1, <1>2

LEMMA FittingBegun ==
  ASSUME NEW k \in Triggers, NEW r \in States, Fits(k, r)
  PROVE  Fits(k, Begun(r))
<1>1. CASE r.can /\ ~r.triggered
  <2> DEFINE s == [r EXCEPT !.triggered = TRUE, !.sounding = r.sounding + 1]
  <2>1. Begun(r) = s
    BY <1>1 DEF Begun
  <2>2. s.sounding = r.sounding + 1 /\ s.triggered = TRUE /\ s.can = r.can /\ s.valid = r.valid
    BY FittingFields
  <2> HIDE DEF s
  <2>3. k \in Sustained => r.sounding = 0
    BY <1>1 DEF Fits
  <2>4. k \in Sustained => s.sounding = 1
    BY <2>2, <2>3
  <2>5. s.can = s.valid
    BY <2>2 DEF Fits
  <2>6. Fits(k, s)
    BY <2>2, <2>4, <2>5 DEF Fits
  <2>7. QED
    BY <2>1, <2>6
<1>2. CASE ~(r.can /\ ~r.triggered)
  BY <1>2 DEF Begun
<1>3. QED
  BY <1>1, <1>2

LEMMA FittingInside ==
  ASSUME NEW k \in Triggers, NEW r \in States, Fits(k, r), NEW b \in BOOLEAN
  PROVE  Fits(k, [r EXCEPT !.inside = b]) /\ [r EXCEPT !.inside = b] \in States
<1>1. [r EXCEPT !.inside = b] \in States
  BY DEF States
<1>2. QED
  BY <1>1, FittingFields DEF Fits

\* A bar that is held leaves nothing by its ends but what releases it.
LEMMA FittingCrossed ==
  ASSUME NoOnce, NEW k \in Triggers, NEW r \in States, Fits(k, r), NEW on \in BOOLEAN, NEW rewind \in BOOLEAN
  PROVE  Fits(k, Crossed(k, r, on, rewind))
<1> DEFINE s == [r EXCEPT !.inside = on]
<1>1. Crossed(k, r, on, rewind) = IF on THEN Begun(s) ELSE Exited(k, s, rewind)
  BY DEF Crossed
<1>2. Fits(k, s) /\ s \in States
  BY FittingInside
<1> HIDE DEF s
<1>3. Fits(k, Begun(s))
  BY <1>2, FittingBegun
<1>4. Fits(k, Exited(k, s, rewind))
  <2> DEFINE action == ExitAction(k, s, rewind)
             other == Options[k].invalidExit
  <2>1. CASE k \in Sustained
    <3>1. Options[k].validExit = "false" /\ other = "nothing" /\ Options[k].rewind = "false"
      BY <2>1 DEF Sustained
    <3>2. action \in {"false", "invalid"}
      BY <3>1 DEF ExitAction
    <3>3. action = "false" => Exited(k, s, rewind) = Released(k, s)
      BY DEF Exited
    <3>4. action = "invalid" => Exited(k, s, rewind) = s
      BY <3>1 DEF Exited
    <3>5. Fits(k, Released(k, s))
      BY <1>2, FittingReleased
    <3> HIDE DEF action
    <3>6. QED
      BY <1>2, <3>2, <3>3, <3>4, <3>5
  <2>2. CASE k \notin Sustained
    <3> DEFINE more == IF other \in {"true", "both"} THEN 1 ELSE 0
               less == IF other \in {"false", "both"} THEN 1 ELSE 0
    <3>1. \/ Exited(k, s, rewind) = Released(k, s)
          \/ Exited(k, s, rewind) = [s EXCEPT !.triggered = FALSE]
          \/ Exited(k, s, rewind) = [s EXCEPT !.triggered = FALSE, !.sounding = s.sounding + more - less]
          \/ Exited(k, s, rewind) = s
      BY DEF Exited
    <3> HIDE DEF more, less
    <3>2. Fits(k, Released(k, s))
      BY <1>2, FittingReleased
    <3>3. Fits(k, [s EXCEPT !.triggered = FALSE])
      <4>1. [s EXCEPT !.triggered = FALSE].can = s.can /\ [s EXCEPT !.triggered = FALSE].valid = s.valid
        BY <1>2 DEF States
      <4>2. QED
        BY <1>2, <2>2, <4>1 DEF Fits
    <3>4. Fits(k, [s EXCEPT !.triggered = FALSE, !.sounding = s.sounding + more - less])
      <4> DEFINE u == [s EXCEPT !.triggered = FALSE, !.sounding = s.sounding + more - less]
      <4>1. u.can = s.can /\ u.valid = s.valid
        BY <1>2, FittingFields
      <4> HIDE DEF u
      <4>2. Fits(k, u)
        BY <1>2, <2>2, <4>1 DEF Fits
      <4>3. QED
        BY <4>2 DEF u
    <3>5. QED
      BY <1>2, <3>1, <3>2, <3>3, <3>4
  <2>3. QED
    BY <2>1, <2>2
<1>5. QED
  BY <1>1, <1>3, <1>4

LEMMA FittingHandled ==
  ASSUME Typed, NoOnce, NEW k \in Triggers, Fits(k, trig[k]), NEW do \in TriggerSteps, At_(m, do), k = Arg(m, 1)
  PROVE  Fits(k, Handled(do, k))
<1> DEFINE r == trig[k]
<1>1. r \in States
  BY DEF Typed, Scalars
<1>2. CASE do = "cross"
  <2>1. Arg(m, 2) \in BOOLEAN /\ Arg(m, 3) \in BOOLEAN
    <3>1. Head(stack[m]) \in Entries /\ Head(stack[m])[1] = "cross"
      BY <1>2, FirstStep, TwoCallers
    <3>2. QED
      BY <3>1, EntryParts DEF Arg
  <2>2. Handled(do, k) = Crossed(k, r, Arg(m, 2), Arg(m, 3))
    BY <1>2 DEF Handled
  <2>3. QED
    BY <1>1, <2>1, <2>2, FittingCrossed
<1>3. CASE do = "reset"
  <2> DEFINE s == [r EXCEPT !.done = FALSE]
  <2>1. Handled(do, k) = Updated(k, s)
    BY <1>3 DEF Handled
  <2>2. s \in States /\ s.sounding = r.sounding /\ s.triggered = r.triggered
    BY <1>1, FittingFields DEF States
  <2> HIDE DEF s
  <2>3. QED
    BY <2>1, <2>2, FittingUpdated DEF Fits
<1>4. CASE do = "release" \/ do = "invalid"
  <2>1. Handled(do, k) = Released(k, r) \/ Handled(do, k) = r
    BY <1>4 DEF Handled
  <2>2. QED
    BY <1>1, <2>1, FittingReleased
<1>5. CASE do = "under"
  <2> DEFINE s == IF AnyTime(k) \/ ~r.inside THEN Begun(r) ELSE r
  <2>1. Handled(do, k) = [s EXCEPT !.inside = TRUE]
    BY <1>5 DEF Handled, Under
  <2>2. s \in States /\ Fits(k, s)
    BY <1>1, RecordTypes, FittingBegun
  <2> HIDE DEF s
  <2>3. QED
    BY <2>1, <2>2, FittingInside
<1>6. QED
  BY <1>2, <1>3, <1>4, <1>5 DEF TriggerSteps

\* A clear that comes with all its releases, and steps among which there is none.
Whole(q) == \A i \in 1 .. Len(q) : q[i] = <<"clear">> =>
                \A k \in Triggers : /\ i - 1 - Cardinality(Triggers) + k \in 1 .. Len(q)
                                    /\ q[i - 1 - Cardinality(Triggers) + k] = <<"release", k>>
Open == {e \in Entries : e[1] # "clear"}

LEMMA OpenEntries ==
  /\ \A q \in Seq(Open) : Whole(q)
  /\ \A q \in Seq(Unclear) : Whole(q)
  /\ Whole(<<>>)
  /\ {<<"sought">>, <<"exit">>, <<"join">>, <<"rewind">>, <<"listen">>, <<"unlisten">>, <<"time">>, <<"timed">>,
      <<"state">>, <<"force">>} \subseteq Open
  /\ ({"trigger", "triggered"} \X Names) \subseteq Open
  /\ ({"set", "start"} \X BOOLEAN) \subseteq Open
  /\ ({"seek", "changed"} \X (0 .. Total) \X BOOLEAN) \subseteq Open
<1>1. <<"clear">>[1] = "clear"
  OBVIOUS
<1>2. \A q \in Seq(Open) : Whole(q)
  BY <1>1 DEF Open, Whole
<1>3. \A q \in Seq(Unclear) : Whole(q)
  <2>1. <<"clear">> \notin Unclear
    BY DEF Unclear
  <2>2. QED
    BY <2>1 DEF Whole
<1>4. <<>> \in Seq(Unclear)
  OBVIOUS
<1>5. \A s \in {"sought", "exit", "join", "rewind", "listen", "unlisten", "time", "timed", "state", "force"} :
         <<s>> \in Entries /\ <<s>>[1] = s
  BY DEF Entries, Plain
<1>6. \A s \in {"sought", "exit", "join", "rewind", "listen", "unlisten", "time", "timed", "state", "force"} :
         <<s>> \in Open
  BY <1>5 DEF Open
<1>7. ({"trigger", "triggered"} \X Names) \subseteq Open
  BY DEF Open, Entries, Calls
<1>8. ({"set", "start"} \X BOOLEAN) \subseteq Open
  BY DEF Open, Entries
<1>9. ({"seek", "changed"} \X (0 .. Total) \X BOOLEAN) \subseteq Open
  BY DEF Open, Entries
<1>10. QED
  BY <1>2, <1>3, <1>4, <1>6, <1>7, <1>8, <1>9

LEMMA WholeConcat ==
  ASSUME NEW q \in Seq(Entries), NEW r \in Seq(Entries), Whole(q), Whole(r)
  PROVE  Whole(q \o r)
<1> DEFINE s == q \o r
           n == Cardinality(Triggers)
<1>1. n \in Nat /\ Triggers = 1 .. n
  BY ReleasesType
<1>2. /\ Len(s) = Len(q) + Len(r) /\ Len(q) \in Nat /\ Len(r) \in Nat
      /\ \A i \in 1 .. Len(s) : s[i] = IF i <= Len(q) THEN q[i] ELSE r[i - Len(q)]
  BY ConcatProperties
<1> HIDE DEF n, s
<1>3. ASSUME NEW i \in 1 .. Len(s), s[i] = <<"clear">>, NEW k \in Triggers
      PROVE  i - 1 - n + k \in 1 .. Len(s) /\ s[i - 1 - n + k] = <<"release", k>>
  <2> DEFINE p == i - 1 - n + k
  <2>1. p \in Int /\ p < i /\ k \in Int
    BY <1>1
  <2>2. CASE i <= Len(q)
    <3>1. i \in 1 .. Len(q) /\ q[i] = <<"clear">>
      BY <1>2, <1>3, <2>2
    <3>2. p \in 1 .. Len(q) /\ q[p] = <<"release", k>>
      BY <3>1 DEF Whole, n
    <3> HIDE DEF p
    <3>3. p \in 1 .. Len(s) /\ p <= Len(q)
      BY <1>2, <3>2
    <3>4. s[p] = <<"release", k>>
      BY <1>2, <3>2, <3>3
    <3>5. QED
      BY <3>3, <3>4 DEF p
  <2>3. CASE i > Len(q)
    <3> DEFINE j == i - Len(q)
               o == j - 1 - n + k
    <3>1. j \in 1 .. Len(r) /\ r[j] = <<"clear">>
      BY <1>2, <1>3, <2>3
    <3>2. o \in 1 .. Len(r) /\ r[o] = <<"release", k>>
      BY <3>1 DEF Whole, n
    <3>3. p = o + Len(q)
      BY <1>1, <1>2, <2>1
    <3> HIDE DEF j, o, p
    <3>4. p \in 1 .. Len(s) /\ p > Len(q) /\ p - Len(q) = o
      BY <1>2, <3>2, <3>3
    <3>5. ~(p <= Len(q))
      BY <1>2, <3>4
    <3>6. s[p] = r[p - Len(q)]
      BY <1>2, <3>4, <3>5
    <3>7. s[p] = <<"release", k>>
      BY <3>2, <3>4, <3>6
    <3>8. QED
      BY <3>4, <3>7 DEF p
  <2>4. QED
    BY <1>2, <2>2, <2>3
<1>4. QED
  BY <1>3 DEF Whole, n, s

LEMMA WholeReleases == Whole(ReleaseAll)
<1> DEFINE n == Cardinality(Triggers)
<1>1. n \in Nat /\ Triggers = 1 .. n /\ Releases \in Seq(Entries) /\ Len(Releases) = n
  <2>1. Releases \in Seq(Quiet) /\ Quiet \subseteq Entries
    BY ReleasesType, QuietEntries
  <2>2. QED
    BY <2>1, ReleasesType
<1>2. <<<<"clear">>>> \in Seq(Entries) /\ Len(<<<<"clear">>>>) = 1
  BY QuietEntries
<1>3. /\ Len(ReleaseAll) = n + 1
      /\ \A i \in 1 .. n + 1 : ReleaseAll[i] = IF i <= n THEN Releases[i] ELSE <<<<"clear">>>>[i - n]
  BY <1>1, <1>2, ConcatProperties DEF ReleaseAll
<1>4. \A k \in Triggers : Releases[k] = <<"release", k>>
  BY DEF Releases
<1>5. \A k \in 1 .. n : ReleaseAll[k] = <<"release", k>>
  BY <1>1, <1>3, <1>4
<1> HIDE DEF n
<1>6. ASSUME NEW i \in 1 .. Len(ReleaseAll), ReleaseAll[i] = <<"clear">>, NEW k \in Triggers
      PROVE  i - 1 - n + k \in 1 .. Len(ReleaseAll) /\ ReleaseAll[i - 1 - n + k] = <<"release", k>>
  <2>1. i = n + 1
    <3>1. i \in 1 .. n => ReleaseAll[i] # <<"clear">>
      <4>1. \A k1 \in 1 .. n : <<"release", k1>>[1] = "release"
        OBVIOUS
      <4>2. <<"clear">>[1] = "clear"
        OBVIOUS
      <4>3. QED
        BY <1>5, <4>1, <4>2
    <3>2. QED
      BY <1>1, <1>3, <1>6, <3>1
  <2>2. i - 1 - n + k = k /\ k \in 1 .. n
    BY <1>1, <2>1
  <2>3. k \in 1 .. Len(ReleaseAll)
    BY <1>1, <1>3, <2>2
  <2>4. QED
    BY <1>5, <2>2, <2>3
<1>7. QED
  BY <1>6 DEF Whole, n

\* What is below a step that neither releases nor clears is whole.
LEMMA WholeTail ==
  ASSUME Typed, Cleared, stack[m] # <<>>, Head(stack[m])[1] \notin {"release", "clear"}
  PROVE  Whole(Tail(stack[m])) /\ Tail(stack[m]) \in Seq(Entries)
<1> DEFINE q == stack[m]
           s == Tail(q)
           n == Cardinality(Triggers)
<1>1. n \in Nat /\ Triggers = 1 .. n
  BY ReleasesType
<1>2. q \in Seq(Entries) /\ q # <<>> /\ Len(q) \in Nat /\ Len(q) > 0 /\ Head(q) = q[1]
  <2>1. q \in Seq(Entries)
    BY StackKinds, TwoCallers DEF Typed
  <2>2. QED
    BY <2>1, EmptySeq, HeadTailProperties
<1>3. s \in Seq(Entries) /\ Len(s) = Len(q) - 1 /\ \A i \in 1 .. Len(s) : s[i] = q[i + 1]
  BY <1>2, HeadTailProperties
<1>4. q[1][1] \notin {"release", "clear"}
  BY <1>2
<1>5. ASSUME NEW i \in 1 .. Len(q), q[i] = <<"clear">>, NEW k \in Triggers
      PROVE  IF i - 1 - n + k > 0 THEN q[i - 1 - n + k] = <<"release", k>>
                                  ELSE k \in Sustained => ~trig[k].triggered
  BY <1>5 DEF Cleared
<1> HIDE DEF n, s, q
<1>6. ASSUME NEW i \in 1 .. Len(q), q[i] = <<"clear">>, NEW k \in Triggers
      PROVE  i - 1 - n + k > 1 /\ i > 1
  <2>1. i > 1
    <3>1. <<"clear">>[1] = "clear"
      OBVIOUS
    <3>2. i # 1
      BY <1>4, <1>6, <3>1
    <3>3. QED
      BY <1>2, <3>2
  <2>2. ASSUME i - 1 - n + k <= 1 PROVE FALSE
    <3> DEFINE l == n + 2 - i
    <3>1. l \in 1 .. n /\ i - 1 - n + l = 1
      BY <1>1, <1>2, <2>1, <2>2
    <3>2. l \in Triggers
      BY <1>1, <3>1
    <3> HIDE DEF l
    <3>3. i - 1 - n + l > 0
      BY <3>1
    <3>4. q[1] = <<"release", l>>
      BY <1>5, <1>6, <3>1, <3>2, <3>3
    <3>5. <<"release", l>>[1] = "release"
      OBVIOUS
    <3>6. QED
      BY <1>4, <3>4, <3>5
  <2>3. i - 1 - n + k \in Int
    BY <1>1, <1>2
  <2>4. QED
    BY <2>1, <2>2, <2>3
<1>7. ASSUME NEW i \in 1 .. Len(s), s[i] = <<"clear">>, NEW k \in Triggers
      PROVE  i - 1 - n + k \in 1 .. Len(s) /\ s[i - 1 - n + k] = <<"release", k>>
  <2> DEFINE j == i + 1
             o == j - 1 - n + k
             p == i - 1 - n + k
  <2>1. j \in 1 .. Len(q) /\ q[j] = <<"clear">>
    BY <1>2, <1>3, <1>7
  <2>2. o > 1
    BY <1>6, <2>1
  <2>3. q[o] = <<"release", k>>
    <3>1. o > 0
      BY <1>1, <2>2
    <3>2. QED
      BY <1>5, <2>1, <3>1
  <2>4. o = p + 1 /\ p \in Int /\ p < i
    BY <1>1
  <2> HIDE DEF j, o, p
  <2>5. p \in 1 .. Len(s)
    BY <1>2, <1>3, <2>2, <2>4
  <2>6. s[p] = <<"release", k>>
    BY <1>3, <2>3, <2>4, <2>5
  <2>7. QED
    BY <2>5, <2>6 DEF p
<1>8. Whole(s)
  BY <1>7 DEF Whole, n
<1>9. QED
  BY <1>3, <1>8 DEF s, q

LEMMA ClearedPush ==
  ASSUME Typed, Cleared, stack[m] # <<>>, Head(stack[m])[1] \notin {"release", "clear"},
         NEW new \in Stacks, Whole(new), Do(m, new)
  PROVE  Cleared'
<1>1. new \in Seq(Entries) /\ Whole(Tail(stack[m])) /\ Tail(stack[m]) \in Seq(Entries)
  BY StackKinds, WholeTail
<1>2. stack'[m] = new \o Tail(stack[m])
  BY Pushed, TwoCallers DEF Typed
<1>3. Whole(stack'[m])
  BY <1>1, <1>2, WholeConcat
<1>4. QED
  BY <1>3 DEF Cleared, Whole, m

LEMMA ClearedGiven ==
  ASSUME Typed, stack[m] = <<>>, NEW new, Whole(new), stack' = [stack EXCEPT ![m] = new]
  PROVE  Cleared'
<1>1. stack'[m] = new
  BY TwoCallers DEF Typed
<1>2. QED
  BY <1>1 DEF Cleared, Whole, m

LEMMA ClearedKept ==
  ASSUME Sounding, stack'[m] = stack[m], trig' = trig
  PROVE  Sounding'
BY DEF Sounding, Cleared, m

LEMMA FitsKept ==
  ASSUME Sounding, trig' = trig, Cleared'
  PROVE  Sounding'
BY DEF Sounding

\* What is next on the stack is released, or cleared.
LEMMA ClearedTail ==
  ASSUME Typed, Cleared, stack[m] # <<>>, Do(m, <<>>),
         \A k \in Sustained : trig'[k].triggered => trig[k].triggered,
         \A k \in Sustained : Head(stack[m]) = <<"release", k>> => ~trig'[k].triggered
  PROVE  Cleared'
<1> DEFINE q == stack[m]
           s == stack'[m]
           n == Cardinality(Triggers)
<1>1. n \in Nat /\ Triggers = 1 .. n
  BY ReleasesType
<1>2. q \in Seq(Entries) /\ q # <<>> /\ Len(q) \in Nat /\ Len(q) > 0 /\ Head(q) = q[1]
  <2>1. q \in Seq(Entries)
    BY StackKinds, TwoCallers DEF Typed
  <2>2. QED
    BY <2>1, EmptySeq, HeadTailProperties
<1>3. s \in Seq(Entries) /\ Len(s) = Len(q) - 1 /\ \A i \in 1 .. Len(s) : s[i] = q[i + 1]
  <2>1. stack \in [Callers -> Stacks] /\ m \in Callers
    BY TwoCallers DEF Typed
  <2>2. s = <<>> \o Tail(q)
    BY <2>1 DEF Do
  <2>3. <<>> \in Seq(Entries) /\ Len(<<>>) = 0
    OBVIOUS
  <2>4. /\ <<>> \o Tail(q) \in Seq(Entries) /\ Len(<<>> \o Tail(q)) = 0 + Len(q) - 1
        /\ \A i \in 1 .. Len(<<>> \o Tail(q)) :
             i > 0 => i - 0 + 1 \in 2 .. Len(q) /\ (<<>> \o Tail(q))[i] = q[i - 0 + 1]
    BY <1>2, <2>3, Replaced
  <2> HIDE DEF q, s
  <2>5. QED
    BY <1>2, <2>2, <2>4
<1>4. ASSUME NEW i \in 1 .. Len(q), q[i] = <<"clear">>, NEW k \in Triggers
      PROVE  IF i - 1 - n + k > 0 THEN q[i - 1 - n + k] = <<"release", k>>
                                  ELSE k \in Sustained => ~trig[k].triggered
  BY <1>4 DEF Cleared
<1>5. \A k \in Sustained : Head(q) = <<"release", k>> => ~trig'[k].triggered
  OBVIOUS
<1> HIDE DEF q, s, n
<1>6. ASSUME NEW i \in 1 .. Len(s), s[i] = <<"clear">>, NEW k \in Triggers
      PROVE  IF i - 1 - n + k > 0 THEN s[i - 1 - n + k] = <<"release", k>>
                                  ELSE k \in Sustained => ~trig'[k].triggered
  <2> DEFINE j == i + 1
             o == j - 1 - n + k
             p == i - 1 - n + k
  <2>1. j \in 1 .. Len(q) /\ q[j] = <<"clear">>
    BY <1>2, <1>3, <1>6
  <2>2. IF o > 0 THEN q[o] = <<"release", k>> ELSE k \in Sustained => ~trig[k].triggered
    BY <1>4, <2>1
  <2>3. o = p + 1 /\ p \in Int /\ p < i
    BY <1>1
  <2> HIDE DEF j, o, p
  <2>4. CASE p > 0
    <3>1. p \in 1 .. Len(s) /\ o > 0
      BY <1>2, <1>3, <2>3, <2>4
    <3>2. s[p] = <<"release", k>>
      BY <1>3, <2>2, <2>3, <3>1
    <3>3. QED
      BY <2>4, <3>2 DEF p
  <2>5. CASE p = 0
    <3>1. o = 1 /\ o > 0
      BY <2>3, <2>5
    <3>2. Head(q) = <<"release", k>>
      BY <1>2, <2>2, <3>1
    <3>3. k \in Sustained => ~trig'[k].triggered
      BY <1>5, <3>2
    <3>4. ~(p > 0)
      BY <2>5
    <3>5. QED
      BY <3>3, <3>4 DEF p
  <2>6. CASE p < 0
    <3>1. ~(p > 0) /\ ~(o > 0)
      BY <2>3, <2>6
    <3>2. k \in Sustained => ~trig[k].triggered
      BY <2>2, <3>1
    <3>3. QED
      BY <3>1, <3>2 DEF p
  <2>7. QED
    BY <2>3, <2>4, <2>5, <2>6
<1>7. QED
  BY <1>6 DEF Cleared, n, s, m

LEMMA SoundingRelease ==
  ASSUME Typed, Sounding, NoOnce, Release
  PROVE  Sounding'
<1>1. At_(m, "release")
  BY DEF Release
<1>2. stack[m] # <<>> /\ Head(stack[m]) \in Entries /\ Head(stack[m])[1] = "release"
  BY <1>1, FirstStep, TwoCallers
<1> DEFINE k == Arg(m, 1)
           r == IF k \in Bars THEN Released(k, trig[k]) ELSE trig[k]
<1>3. k \in Triggers /\ Head(stack[m])[2] = k
  BY <1>2, EntryParts DEF Arg
<1>4. Becomes(k, r, <<>>)
  BY DEF Release
<1>5. trig \in [Triggers -> States] /\ trig[k] \in States /\ Fits(k, trig[k])
  BY <1>3 DEF Typed, Scalars, Sounding
<1>6. /\ Fits(k, r) /\ r.can = trig[k].can /\ r.sounding <= trig[k].sounding
      /\ (k \in Sustained => ~r.triggered)
  <2>1. k \in Sustained => k \in Bars
    BY DEF Sustained
  <2>2. trig[k].sounding <= trig[k].sounding
    BY <1>5, FittingFields
  <2>3. QED
    BY <1>3, <1>5, <2>1, <2>2, FittingReleased
<1>7. r \in States
  BY <1>3, <1>5, RecordTypes
<1> HIDE DEF r
<1>8. Do(m, <<>>) /\ trig' = [trig EXCEPT ![k] = r]
  <2>1. ~(r.sounding > trig[k].sounding)
    BY <1>5, <1>6, <1>7, FittingFields
  <2>6. ~FiresBoth(k)
    BY DEF Release, FiresBoth, At_
  <2>2. Gives(k, r) = <<>>
    BY <2>1, <2>6 DEF Gives
  <2>3. Do(m, <<>> \o <<>> \o <<>>) /\ trig' = [trig EXCEPT ![k] = r]
    BY <1>4, <1>6, <2>2 DEF Becomes
  <2>4. <<>> \o <<>> \o <<>> = <<>>
    OBVIOUS
  <2>5. QED
    BY <2>3, <2>4
<1> HIDE DEF k
<1>9. \A l \in Triggers : trig'[l] = IF l = k THEN r ELSE trig[l]
  BY <1>3, <1>5, <1>8
<1>10. \A l \in Sustained : l \in Triggers
  BY DEF Sustained, Bars
<1>11. \A l \in Sustained : trig'[l].triggered => trig[l].triggered
  BY <1>6, <1>9, <1>10
<1>12. \A l \in Sustained : Head(stack[m]) = <<"release", l>> => ~trig'[l].triggered
  <2>1. ASSUME NEW l \in Sustained, Head(stack[m]) = <<"release", l>> PROVE l = k
    <3>1. <<"release", l>>[2] = l
      OBVIOUS
    <3>2. QED
      BY <1>3, <2>1, <3>1
  <2>2. QED
    BY <1>3, <1>6, <1>9, <2>1
<1>13. Cleared'
  BY <1>2, <1>8, <1>11, <1>12, ClearedTail DEF Sounding
<1>14. \A l \in Triggers : Fits(l, trig'[l])
  BY <1>6, <1>9 DEF Sounding
<1>15. QED
  BY <1>13, <1>14 DEF Sounding, Fits

LEMMA SoundingClear ==
  ASSUME Typed, Sounding, Clear
  PROVE  Sounding'
<1>1. At_(m, "clear") /\ Do(m, <<>>) /\ trig' = [k \in Triggers |-> [trig[k] EXCEPT !.triggered = FALSE]]
  BY DEF Clear
<1>2. stack[m] # <<>> /\ Head(stack[m]) \in Entries /\ Head(stack[m])[1] = "clear" /\ Head(stack[m]) = stack[m][1]
      /\ Len(stack[m]) > 0 /\ Len(stack[m]) \in Nat
  BY <1>1, FirstStep, TwoCallers
<1>3. Head(stack[m]) = <<"clear">>
  BY <1>2, EntryParts DEF Plain
<1>4. \A l \in Sustained : l \in Triggers
  BY DEF Sustained, Bars
<1>5. ASSUME NEW k \in Sustained PROVE ~trig[k].triggered
  <2> DEFINE n == Cardinality(Triggers)
  <2>1. n \in Nat /\ Triggers = 1 .. n /\ k \in Triggers
    BY <1>4, <1>5, ReleasesType
  <2>2. 1 \in 1 .. Len(stack[m]) /\ stack[m][1] = <<"clear">>
    BY <1>2, <1>3
  <2>3. LET p == 1 - 1 - n + k IN IF p > 0 THEN stack[m][p] = <<"release", k>>
                                           ELSE k \in Sustained => ~trig[k].triggered
    BY <2>1, <2>2 DEF Sounding, Cleared
  <2>4. ~(1 - 1 - n + k > 0)
    BY <2>1
  <2>5. QED
    BY <1>5, <2>3, <2>4
<1>6. ASSUME NEW k \in Triggers
      PROVE  /\ trig'[k].triggered = FALSE /\ trig'[k].sounding = trig[k].sounding
             /\ trig'[k].can = trig[k].can /\ trig'[k].valid = trig[k].valid
  <2>1. trig[k] \in States
    BY DEF Typed, Scalars
  <2>2. trig'[k] = [trig[k] EXCEPT !.triggered = FALSE]
    BY <1>1
  <2>3. QED
    BY <2>1, <2>2 DEF States
<1>7. \A k \in Triggers : Fits(k, trig'[k])
  BY <1>5, <1>6 DEF Sounding, Fits
<1>8. \A k \in Sustained : ~trig'[k].triggered
  BY <1>4, <1>6
<1>9. Cleared'
  BY <1>1, <1>2, <1>8, ClearedTail DEF Sounding
<1>10. QED
  BY <1>7, <1>9 DEF Sounding, Fits

LEMMA SoundingPush ==
  ASSUME Typed, Sounding, NEW do, At_(m, do), do \notin {"release", "clear"},
         \E new \in Stacks : Whole(new) /\ Do(m, new), trig' = trig
  PROVE  Sounding'
<1>1. stack[m] # <<>> /\ Head(stack[m])[1] \notin {"release", "clear"}
  BY DEF At_
<1>2. Cleared'
  BY <1>1, ClearedPush DEF Sounding
<1>3. QED
  BY <1>2, FitsKept

\* What the steps push, none of which clears but the walk backwards.
LEMMA OpenSeqs ==
  /\ <<>> \in Stacks /\ Whole(<<>>)
  /\ \A e \in Open : <<e>> \in Stacks /\ Whole(<<e>>)
  /\ \A e \in Open, f \in Lower : f \in Open => <<e, f>> \in Stacks /\ Whole(<<e, f>>)
  /\ \A q \in Seq(Open) : q \in Seq(Quiet) => q \in Stacks /\ Whole(q)
<1>1. <<>> \in Seq(Lower) /\ <<>> \in Seq(Open)
  OBVIOUS
<1>2. \A e \in Open : e \in Entries /\ <<e>> \in Seq(Open)
  BY DEF Open
<1>3. \A e \in Open, f \in Open : <<e, f>> \in Seq(Open)
  OBVIOUS
<1>4. ASSUME NEW e \in Open PROVE <<e>> \in Stacks /\ Whole(<<e>>)
  <2>1. e \in Entries /\ <<e>> \in Seq(Open)
    BY <1>2
  <2>2. <<e>> \in Stacks
    BY <2>1, StackKinds
  <2>3. Whole(<<e>>)
    BY <2>1, OpenEntries
  <2>4. QED
    BY <2>2, <2>3
<1>5. ASSUME NEW e \in Open, NEW f \in Lower, f \in Open PROVE <<e, f>> \in Stacks /\ Whole(<<e, f>>)
  BY <1>2, <1>3, <1>5, OpenEntries, StackKinds
<1>6. <<>> \in Stacks /\ Whole(<<>>)
  BY <1>1, OpenEntries, StackKinds
<1>7. QED
  BY <1>4, <1>5, <1>6, OpenEntries, StackKinds

LEMMA SoundingCall ==
  ASSUME Typed, Sounding, Call(m)
  PROVE  Sounding'
<1>1. PICK do \in {"trigger", "triggered", "set", "seek", "sought"} : At_(m, do)
  BY DEF Call, Trigger, Ended, Set, Seek, Sought
<1>2. trig' = trig
  BY DEF Call, Trigger, Ended, Set, Seek, Sought, layer
<1>3. \E new \in Stacks : Whole(new) /\ Do(m, new)
  <2>1. CASE Trigger(m)
    <3> DEFINE c == Arg(m, 1)
               new == Body(c) \o <<<<"triggered", c>>>>
    <3>1. At_(m, "trigger")
      BY <2>1 DEF Trigger
    <3>2. c \in Names
      BY <3>1, FirstStep, TwoCallers, EntryParts DEF Arg
    <3>3. Do(m, <<>>) \/ Do(m, new)
      BY <2>1 DEF Trigger
    <3> HIDE DEF c
    <3>4. /\ <<"set", TRUE>> \in Open /\ <<"set", FALSE>> \in Open /\ <<"seek", 0, TRUE>> \in Open
          /\ <<"triggered", c>> \in Open
      BY <3>2, Sizes, OpenEntries
    <3>5. Body(c) \in Seq(Open)
      BY <3>2, <3>4 DEF Body, Names
    <3>6. <<<<"triggered", c>>>> \in Seq(Open)
      BY <3>4
    <3>7. new \in Seq(Open)
      BY <3>5, <3>6
    <3>8. new \in Seq(Quiet)
      BY <3>2, BodyType
    <3> HIDE DEF new
    <3>9. QED
      BY <3>3, <3>7, <3>8, OpenSeqs
  <2>2. CASE Ended(m) \/ Sought(m)
    BY <2>2, OpenSeqs DEF Ended, Sought
  <2>3. CASE Set(m)
    <3>1. Do(m, <<>>) \/ Notify(m, "playing", <<>>)
      BY <2>3 DEF Set
    <3>2. Called("playing") \o <<>> = <<<<"exit">>>>
      BY DEF Called
    <3>3. Do(m, <<>>) \/ Do(m, <<<<"exit">>>>)
      BY <3>1, <3>2 DEF Notify, m
    <3>4. <<<<"exit">>>> \in Stacks /\ Whole(<<<<"exit">>>>)
      BY OpenEntries, OpenSeqs
    <3>5. QED
      BY <3>3, <3>4, OpenSeqs
  <2>4. CASE Seek(m)
    <3>1. Do(m, <<<<"sought">>>>) \/ Notify(m, "time", <<<<"sought">>>>)
      BY <2>4 DEF Seek
    <3>2. Called("time") \o <<<<"sought">>>> = <<<<"time">>, <<"sought">>>>
      BY PairConcat DEF Called
    <3>3. Do(m, <<<<"sought">>>>) \/ Do(m, <<<<"time">>, <<"sought">>>>)
      BY <3>1, <3>2 DEF Notify, m
    <3>4. <<"sought">> \in Open /\ <<"time">> \in Open /\ <<"sought">> \in Lower
      BY OpenEntries, QuietEntries
    <3>5. /\ <<<<"sought">>>> \in Stacks /\ Whole(<<<<"sought">>>>)
          /\ <<<<"time">>, <<"sought">>>> \in Stacks /\ Whole(<<<<"time">>, <<"sought">>>>)
      BY <3>4, OpenSeqs
    <3>6. QED
      BY <3>3, <3>5
  <2>5. QED
    BY <2>1, <2>2, <2>3, <2>4 DEF Call
<1>4. QED
  BY <1>1, <1>2, <1>3, SoundingPush

LEMMA SoundingRestarts ==
  ASSUME Typed, Sounding, Exit \/ Join \/ Rewind \/ Start
  PROVE  Sounding'
<1>1. PICK do \in {"exit", "join", "rewind", "start"} : At_(m, do)
  BY DEF Exit, Join, Rewind, Start
<1>2. trig' = trig
  BY DEF Exit, Join, Rewind, Start, layer
<1>3. \E new \in Stacks : Whole(new) /\ Do(m, new)
  <2>1. CASE Exit \/ Join
    <3>1. <<"join">> \in Open /\ <<"rewind">> \in Open
      BY OpenEntries
    <3>2. /\ <<<<"join">>>> \in Stacks /\ Whole(<<<<"join">>>>)
          /\ <<<<"rewind">>>> \in Stacks /\ Whole(<<<<"rewind">>>>)
      BY <3>1, OpenSeqs
    <3>3. Do(m, <<<<"join">>>>) \/ Do(m, <<<<"rewind">>>>)
      BY <2>1 DEF Exit, Join
    <3>4. QED
      BY <3>2, <3>3
  <2>2. CASE Rewind
    <3>1. playing \in BOOLEAN
      BY DEF Typed, Scalars
    <3> DEFINE a == <<"seek", 0, TRUE>>
               b == <<"start", playing>>
    <3>2. a \in Open /\ b \in Open /\ b \in Lower
      BY <3>1, Sizes, OpenEntries, QuietEntries
    <3>3. Do(m, <<b>>) \/ Do(m, <<a, b>>)
      <4>1. <<>> \o <<b>> = <<b>> /\ <<a>> \o <<b>> = <<a, b>>
        BY AloneConcat, PairConcat
      <4>2. QED
        BY <2>2, <4>1 DEF Rewind
    <3> HIDE DEF a, b
    <3>4. QED
      BY <3>2, <3>3, OpenSeqs
  <2>3. CASE Start
    <3> DEFINE a == <<"listen">>
               b == <<"state">>
               c == <<"unlisten">>
    <3>1. a \in Open /\ b \in Open /\ c \in Open /\ b \in Lower /\ c \in Lower /\ a \in Entries
      BY OpenEntries, QuietEntries
    <3>2. Do(m, <<a, b, c>>)
      BY <2>3 DEF Start
    <3> HIDE DEF a, b, c
    <3>3. <<a, b, c>> \in Stacks
      BY <3>1, StackKinds
    <3>4. <<a, b, c>> \in Seq(Open)
      BY <3>1
    <3>5. QED
      BY <3>2, <3>3, <3>4, OpenEntries
  <2>4. QED
    BY <2>1, <2>2, <2>3
<1>4. QED
  BY <1>1, <1>2, <1>3, SoundingPush

LEMMA WholeWalk ==
  ASSUME Scalars, NEW from \in 0 .. Total, NEW evaluate \in BOOLEAN
  PROVE  Whole(Walk(from, evaluate))
<1>1. CASE Walk(from, evaluate) \in Seq(Unclear)
  BY <1>1, OpenEntries
<1>2. ASSUME NEW q \in Seq(Unclear), Walk(from, evaluate) = q \o ReleaseAll
      PROVE  Whole(Walk(from, evaluate))
  <2>1. q \in Seq(Quiet) /\ ReleaseAll \in Seq(Quiet)
    BY UnclearSeqs, ReleasesType
  <2>2. q \in Seq(Entries) /\ ReleaseAll \in Seq(Entries)
    BY <2>1, StackKinds
  <2>3. QED
    BY <1>2, <2>2, OpenEntries, WholeReleases, WholeConcat
<1>3. QED
  BY <1>1, <1>2, WalkType

LEMMA SoundingHandlers ==
  ASSUME Typed, Sounding, Listen \/ TimeChanged \/ Timed \/ Changed \/ StateChanged \/ ForceUpdate
  PROVE  Sounding'
<1>1. PICK do \in {"listen", "unlisten", "time", "timed", "changed", "state", "force"} : At_(m, do)
  BY DEF Listen, TimeChanged, Timed, Changed, StateChanged, ForceUpdate
<1>2. trig' = trig
  BY DEF Listen, TimeChanged, Timed, Changed, StateChanged, ForceUpdate, layer
<1>3. Scalars
  BY DEF Typed
<1>4. \E new \in Stacks : Whole(new) /\ Do(m, new)
  <2>1. CASE Listen \/ Timed
    BY <2>1, OpenSeqs DEF Listen, Timed
  <2>2. CASE TimeChanged
    <3>1. prev \in 0 .. Total /\ Evaluates \in BOOLEAN
      BY <1>3, EvaluatesType DEF Scalars
    <3> DEFINE a == <<"listen">>
               b == <<"changed", prev, Evaluates>>
               c == <<"unlisten">>
               d == <<"timed">>
    <3>2. b \in Lower /\ b \in Open
      BY <3>1, QuietEntries, OpenEntries
    <3>3. a \in Entries /\ c \in Lower /\ d \in Lower /\ a \in Open /\ c \in Open /\ d \in Open
      BY QuietEntries, OpenEntries
    <3>4. Do(m, <<a, b, c, d>>)
      BY <2>2 DEF TimeChanged
    <3> HIDE DEF a, b, c, d
    <3>5. <<a, b, c, d>> \in Stacks
      BY <3>2, <3>3, StackKinds
    <3>6. <<a, b, c, d>> \in Seq(Open)
      BY <3>2, <3>3
    <3>7. QED
      BY <3>4, <3>5, <3>6, OpenEntries
  <2>3. CASE Changed
    <3>1. At_(m, "changed")
      BY <2>3 DEF Changed
    <3>2. Arg(m, 1) \in 0 .. Total /\ Arg(m, 2) \in BOOLEAN
      BY <3>1, FirstStep, TwoCallers, EntryParts DEF Arg
    <3>3. Walk(Arg(m, 1), Arg(m, 2)) \in Seq(Quiet)
      BY <1>3, <3>2, WalkQuiet
    <3>4. Walk(Arg(m, 1), Arg(m, 2)) \in Stacks /\ Whole(Walk(Arg(m, 1), Arg(m, 2)))
      BY <1>3, <3>2, <3>3, StackKinds, WholeWalk
    <3>5. QED
      BY <2>3, <3>4 DEF Changed
  <2>4. CASE StateChanged
    <3>1. Affected \in Seq(Quiet)
      BY AffectedType, UnclearSeqs
    <3>2. Affected \in Stacks /\ Whole(Affected)
      BY <3>1, AffectedType, StackKinds, OpenEntries
    <3>3. QED
      BY <2>4, <3>2 DEF StateChanged
  <2>5. CASE ForceUpdate
    <3>1. time \in 0 .. Total
      BY <1>3 DEF Scalars
    <3> DEFINE e == <<"seek", time, FALSE>>
    <3>2. e \in Open /\ Do(m, <<e>>)
      BY <2>5, <3>1, OpenEntries DEF ForceUpdate
    <3> HIDE DEF e
    <3>3. QED
      BY <3>2, OpenSeqs
  <2>6. QED
    BY <2>1, <2>2, <2>3, <2>4, <2>5
<1>5. QED
  BY <1>1, <1>2, <1>4, SoundingPush

LEMMA UnclearPushes ==
  ASSUME NEW k \in Triggers, NEW r, NEW steps \in Seq(Unclear)
  PROVE  Pushes(k, r, steps) \in Seq(Unclear)
<1>1. Gives(k, r) \in Seq(Unclear)
  BY GivesType
<1>2. <<"state">> \in Unclear
  BY QuietEntries DEF Unclear
<1>3. (IF r.can # trig[k].can THEN <<<<"state">>>> ELSE <<>>) \in Seq(Unclear)
  BY <1>2
<1>4. \A a, b \in Seq(Unclear) : a \o b \in Seq(Unclear)
  OBVIOUS
<1>5. QED
  BY <1>1, <1>3, <1>4 DEF Pushes

LEMMA SoundingTriggers ==
  ASSUME Typed, Sounding, NoOnce, Cross \/ Reset \/ EnterUnder \/ Invalid
  PROVE  Sounding'
<1>1. PICK do \in TriggerSteps, k \in Triggers :
         /\ At_(m, do) /\ k = Arg(m, 1) /\ Becomes(k, Handled(do, k), After(do, k))
         /\ Handled(do, k) \in States /\ After(do, k) \in Seq(Quiet)
  BY TriggerHandlers
<1>2. stack[m] # <<>> /\ Head(stack[m])[1] \in {"cross", "reset", "under", "invalid"}
  BY DEF Cross, Reset, EnterUnder, Invalid, At_
<1>3. Fits(k, Handled(do, k))
  BY <1>1, FittingHandled DEF Sounding
<1>4. After(do, k) \in Seq(Unclear)
  <2>1. <<"reset", k>> \in Unclear
    <3>1. <<"reset", k>> \in Quiet
      BY QuietEntries
    <3>2. <<"reset", k>>[1] = "reset" /\ <<"clear">>[1] = "clear"
      OBVIOUS
    <3>3. <<"reset", k>> # <<"clear">>
      BY <3>2
    <3>4. QED
      BY <3>1, <3>3 DEF Unclear
  <2>2. QED
    BY <2>1 DEF After
<1> DEFINE r == Handled(do, k)
           steps == After(do, k)
<1>5. Becomes(k, r, steps) /\ Fits(k, r) /\ steps \in Seq(Unclear)
  BY <1>1, <1>3, <1>4
<1> HIDE DEF r, steps
<1>6. Do(m, Pushes(k, r, steps)) /\ trig' = [trig EXCEPT ![k] = r]
  BY <1>5 DEF Becomes, Pushes
<1>7. Pushes(k, r, steps) \in Stacks /\ Whole(Pushes(k, r, steps))
  <2>1. Pushes(k, r, steps) \in Seq(Unclear)
    BY <1>5, UnclearPushes
  <2>2. QED
    BY <2>1, UnclearSeqs, StackKinds, OpenEntries
<1>8. Cleared'
  BY <1>2, <1>6, <1>7, ClearedPush DEF Sounding
<1>9. \A l \in Triggers : trig'[l] = IF l = k THEN r ELSE trig[l]
  BY <1>6 DEF Typed, Scalars
<1>10. \A l \in Triggers : Fits(l, trig'[l])
  BY <1>5, <1>9 DEF Sounding
<1>11. QED
  BY <1>8, <1>10 DEF Sounding, Fits

LEMMA SoundingGiven ==
  ASSUME Typed, Sounding, HandlePosted \/ Command(m) \/ ChangeSpeed
  PROVE  Sounding'
<1>1. trig' = trig /\ stack[m] = <<>>
  BY DEF HandlePosted, Command, Give, ChangeSpeed, layer
<1>2. \E new : Whole(new) /\ stack' = [stack EXCEPT ![m] = new]
  <2>1. CASE HandlePosted
    <3>1. \E new \in {ReleaseAll, <<<<"time">>>>, <<<<"exit">>>>} : stack' = [stack EXCEPT ![m] = new]
      BY <2>1 DEF HandlePosted, Called
    <3>2. Whole(ReleaseAll) /\ Whole(<<<<"time">>>>) /\ Whole(<<<<"exit">>>>)
      BY WholeReleases, OpenEntries, OpenSeqs
    <3>3. QED
      BY <3>1, <3>2
  <2>2. CASE Command(m)
    <3>1. PICK new \in Seq(Quiet) :
            /\ Give(m, new)
            /\ \/ \E v \in 0 .. Total : new = <<<<"seek", v, TRUE>>>>
               \/ \E c \in Commands[m] : c \in Seq(Names) /\ new = [i \in DOMAIN c |-> <<"trigger", c[i]>>]
      BY <2>2, CommandSteps, TwoCallers
    <3>2. ASSUME NEW v \in 0 .. Total, new = <<<<"seek", v, TRUE>>>> PROVE Whole(new)
      BY <3>2, OpenEntries, OpenSeqs
    <3>3. ASSUME NEW c \in Seq(Names), new = [i \in DOMAIN c |-> <<"trigger", c[i]>>] PROVE Whole(new)
      BY <3>3, NamesOfEffects, OpenEntries
    <3>4. Whole(new)
      BY <3>1, <3>2, <3>3
    <3>5. QED
      BY <3>1, <3>4 DEF Give
  <2>3. CASE ChangeSpeed
    <3> DEFINE a == <<<<"listen">>>>
               b == <<<<"unlisten">>, <<"force">>>>
    <3>1. stack' = [stack EXCEPT ![m] = a \o ReleaseAll \o b]
      BY <2>3 DEF ChangeSpeed, Give
    <3>2. a \in Seq(Entries) /\ b \in Seq(Entries) /\ Whole(a) /\ Whole(b)
      <4>1. a \in Seq(Open) /\ b \in Seq(Open)
        BY OpenEntries
      <4>2. a \in Seq(Entries) /\ b \in Seq(Entries)
        BY QuietEntries
      <4> HIDE DEF a, b
      <4>3. QED
        BY <4>1, <4>2, OpenEntries
    <3> HIDE DEF a, b
    <3>3. ReleaseAll \in Seq(Entries)
      BY ReleasesType, StackKinds
    <3>4. a \o ReleaseAll \in Seq(Entries) /\ Whole(a \o ReleaseAll)
      BY <3>2, <3>3, WholeReleases, WholeConcat
    <3>5. Whole(a \o ReleaseAll \o b)
      BY <3>2, <3>4, WholeConcat
    <3>6. QED
      BY <3>1, <3>5
  <2>4. QED
    BY <2>1, <2>2, <2>3
<1>3. Cleared'
  BY <1>1, <1>2, ClearedGiven
<1>4. QED
  BY <1>1, <1>3, FitsKept

LEMMA SoundingCondition ==
  ASSUME Typed, Sounding, NoOnce, ChangeCondition
  PROVE  Sounding'
<1>1. PICK k \in Triggers :
         LET r == Updated(k, [trig[k] EXCEPT !.valid = ~@])
         IN  /\ trig' = [trig EXCEPT ![k] = r]
             /\ Give(m, (IF r.can # trig[k].can THEN <<<<"state">>>> ELSE <<>>) \o <<<<"invalid", k>>>>)
  BY DEF ChangeCondition
<1> DEFINE s == [trig[k] EXCEPT !.valid = ~@]
           r == Updated(k, s)
<1>2. trig[k] \in States /\ Fits(k, trig[k])
  BY DEF Typed, Scalars, Sounding
<1>3. s \in States /\ s.sounding = trig[k].sounding /\ s.triggered = trig[k].triggered
  BY <1>2 DEF States
<1>4. trig' = [trig EXCEPT ![k] = r]
  BY <1>1
<1>5. \E a \in {<<>>, <<<<"state">>>>} : Give(m, a \o <<<<"invalid", k>>>>)
  BY <1>1
<1> HIDE DEF s
<1>6. Fits(k, r)
  BY <1>2, <1>3, FittingUpdated DEF Fits
<1> HIDE DEF r
<1>7. \A l \in Triggers : trig'[l] = IF l = k THEN r ELSE trig[l]
  BY <1>4 DEF Typed, Scalars
<1>8. \A l \in Triggers : Fits(l, trig'[l])
  BY <1>6, <1>7 DEF Sounding
<1>9. PICK a \in {<<>>, <<<<"state">>>>} : Give(m, a \o <<<<"invalid", k>>>>)
  BY <1>5
<1>10. Whole(a \o <<<<"invalid", k>>>>)
  <2>1. <<"invalid", k>> \in Unclear /\ <<"state">> \in Unclear
    <3>1. <<"invalid", k>> \in Quiet /\ <<"state">> \in Quiet
      BY QuietEntries
    <3>2. <<"invalid", k>>[1] = "invalid" /\ <<"state">>[1] = "state" /\ <<"clear">>[1] = "clear"
      OBVIOUS
    <3>3. <<"invalid", k>> # <<"clear">> /\ <<"state">> # <<"clear">>
      BY <3>2
    <3>4. QED
      BY <3>1, <3>3 DEF Unclear
  <2>2. a \in Seq(Unclear)
    <3>1. <<<<"state">>>> \in Seq(Unclear) /\ <<>> \in Seq(Unclear)
      BY <2>1
    <3>2. QED
      BY <1>9, <3>1
  <2> DEFINE b == <<<<"invalid", k>>>>
  <2>3. a \o b \in Seq(Unclear)
    <3>1. b \in Seq(Unclear)
      BY <2>1
    <3> HIDE DEF b
    <3>2. QED
      BY <2>2, <3>1
  <2>4. QED
    BY <2>3, OpenEntries
<1>11. Cleared'
  BY <1>9, <1>10, ClearedGiven DEF Give
<1>12. QED
  BY <1>8, <1>11 DEF Sounding, Fits

LEMMA InitSounding == Init => Sounding
<1> SUFFICES ASSUME Init PROVE Sounding
  OBVIOUS
<1>1. stack[m] = <<>>
  BY TwoCallers DEF Init
<1>2. Cleared
  BY <1>1, EmptySeq DEF Cleared
<1>3. \A k \in Triggers : Fits(k, trig[k])
  BY DEF Init, Fits, Idle
<1>4. QED
  BY <1>2, <1>3 DEF Sounding

LEMMA StepSounding == NoOnce /\ Typed /\ Sounding /\ [Next]_vars => Sounding'
<1> SUFFICES ASSUME NoOnce, Typed, Sounding, [Next]_vars PROVE Sounding'
  OBVIOUS
<1>1. CASE Call(m)
  BY <1>1, SoundingCall
<1>2. CASE Call(Other) \/ Command(Other) \/ Play \/ UNCHANGED vars
  <2>1. trig' = trig
    BY <1>2 DEF Call, Trigger, Ended, Set, Seek, Sought, Command, Play, vars, layer
  <2>2. stack'[m] = stack[m]
    <3>1. CASE Call(Other)
      <4>1. \E new : stack' = [stack EXCEPT ![Other] = new]
        BY <3>1 DEF Call, Trigger, Ended, Set, Seek, Sought, Notify, Do
      <4>2. QED
        BY <4>1, TwoCallers DEF Typed
    <3>2. CASE Command(Other)
      <4>1. \E new : stack' = [stack EXCEPT ![Other] = new]
        BY <3>2 DEF Command, Give
      <4>2. QED
        BY <4>1, TwoCallers DEF Typed
    <3>3. CASE Play \/ UNCHANGED vars
      BY <3>3 DEF Play, vars
    <3>4. QED
      BY <1>2, <3>1, <3>2, <3>3
  <2>3. QED
    BY <2>1, <2>2, ClearedKept
<1>3. CASE Handler
  BY <1>3, SoundingRestarts, SoundingHandlers, SoundingTriggers, SoundingRelease, SoundingClear, SoundingGiven
     DEF Handler
<1>4. CASE Command(m) \/ ChangeSpeed \/ ChangeCondition
  BY <1>4, SoundingGiven, SoundingCondition
<1>5. QED
  BY <1>1, <1>2, <1>3, <1>4, TwoCallers DEF Next

\* A bar that only its end releases is held from when it fires to its one release: no reset
\* of the flags comes before the releases (BarsAreReleased), where no bar fires only once.
THEOREM HeldUntilReleased == ASSUME NoOnce PROVE Spec => []BarsAreReleased
<1>1. Sounding => BarsAreReleased
  <2>1. \A k \in Sustained : k \in Triggers
    BY DEF Sustained, Bars
  <2>2. QED
    BY <2>1 DEF Sounding, Fits, BarsAreReleased
<1>2. Init => Typed /\ Sounding
  BY InitTyped, InitSounding
<1>3. Typed /\ Sounding /\ [Next]_vars => (Typed /\ Sounding)'
  BY StepTyped, StepSounding
<1>4. QED
  BY <1>1, <1>2, <1>3, PTL DEF Spec

-----------------------------------------------------------------------------
\* That nothing sounds once the sequence has stopped.  What a trigger's handler does to one
\* that only its end releases: it stays valid, fires only where it may, and is released.
LEMMA FiringKinds ==
  ASSUME NEW e, NEW k
  PROVE  /\ Fires(e, k) => e[1] \in {"cross", "under"} /\ (e[1] = "cross" => e[3] = TRUE)
         /\ Frees(e, k) => e[1] \in {"cross", "release"}
         /\ Frees(e, k) /\ e[1] = "cross" => e[3] = FALSE /\ (e[4] \/ AnyTime(k) \/ trig[k].valid)
<1>1. ASSUME NEW b, e = <<"cross", k, TRUE, b>> PROVE e[1] = "cross" /\ e[3] = TRUE
  BY <1>1
<1>2. ASSUME NEW b, e = <<"cross", k, FALSE, b>> PROVE e[1] = "cross" /\ e[3] = FALSE /\ e[4] = b
  BY <1>2
<1>3. e = <<"under", k>> => e[1] = "under"
  OBVIOUS
<1>4. e = <<"release", k>> => e[1] = "release"
  OBVIOUS
<1>5. Fires(e, k) => e[1] \in {"cross", "under"} /\ (e[1] = "cross" => e[3] = TRUE)
  BY <1>1, <1>3 DEF Fires
<1>6. /\ Frees(e, k) => e[1] \in {"cross", "release"}
      /\ Frees(e, k) /\ e[1] = "cross" => e[3] = FALSE /\ (e[4] \/ AnyTime(k) \/ trig[k].valid)
  BY <1>2, <1>4 DEF Frees
<1>7. QED
  BY <1>5, <1>6

LEMMA SustainedReleased ==
  ASSUME NoOnce, NEW k \in Sustained, NEW r \in States, Fits(k, r)
  PROVE  /\ Released(k, r).valid = r.valid /\ ~Released(k, r).triggered
         /\ Begun(r).valid = r.valid /\ (Begun(r).triggered => r.triggered \/ r.valid)
         /\ \A b : LET s == [r EXCEPT !.inside = b] IN s.valid = r.valid /\ s.triggered = r.triggered
         /\ k \in Triggers
<1>1. k \in Triggers
  BY DEF Sustained, Bars
<1>2. Released(k, r).valid = r.valid
  <2>1. CASE ~r.triggered
    BY <2>1 DEF Released
  <2>2. CASE r.triggered
    <3>1. Fits(k, Released(k, r)) /\ Released(k, r).can = r.can
      BY <1>1, FittingReleased
    <3>2. QED
      BY <3>1 DEF Fits
  <2>3. QED
    BY <2>1, <2>2, FittingFields
<1>3. ~Released(k, r).triggered
  BY <1>1, FittingReleased
<1>4. Begun(r).valid = r.valid /\ (Begun(r).triggered => r.triggered \/ r.valid)
  <2> DEFINE s == [r EXCEPT !.triggered = TRUE, !.sounding = r.sounding + 1]
  <2>1. s.valid = r.valid
    BY FittingFields
  <2>2. Begun(r) = IF r.can /\ ~r.triggered THEN s ELSE r
    BY DEF Begun
  <2> HIDE DEF s
  <2>3. QED
    BY <2>1, <2>2 DEF Fits
<1>5. QED
  BY <1>1, <1>2, <1>3, <1>4, FittingFields

LEMMA SustainedHandled ==
  ASSUME Typed, NoOnce, NEW k \in Sustained, Fits(k, trig[k]),
         NEW do \in TriggerSteps, At_(m, do), k = Arg(m, 1)
  PROVE  /\ Handled(do, k).valid = trig[k].valid
         /\ Handled(do, k).triggered => trig[k].triggered \/ Fires(Head(stack[m]), k)
         /\ Frees(Head(stack[m]), k) => ~Handled(do, k).triggered
<1> DEFINE r == trig[k]
           e == Head(stack[m])
<1>1. r \in States /\ k \in Triggers /\ k \in Bars
  BY DEF Typed, Scalars, Sustained, Bars
<1>2. e \in Entries /\ e[1] = do /\ e[2] = k
  BY FirstStep, TwoCallers DEF Arg, TriggerSteps
<1>3. CASE do = "cross"
  <2> DEFINE on == Arg(m, 2)
             b == Arg(m, 3)
             s == [r EXCEPT !.inside = on]
  <2>1. on \in BOOLEAN /\ b \in BOOLEAN /\ e = <<"cross", k, on, b>>
    <3>1. e[3] \in BOOLEAN /\ e[4] \in BOOLEAN
      BY <1>2, <1>3, EntryParts
    <3>2. e \in {"cross"} \X Triggers \X BOOLEAN \X BOOLEAN
      BY <1>2, <1>3 DEF Entries, Calls, Plain
    <3>3. on = e[3] /\ b = e[4]
      BY DEF Arg
    <3>4. QED
      BY <1>2, <1>3, <3>1, <3>2, <3>3
  <2>2. Handled(do, k) = IF on THEN Begun(s) ELSE Exited(k, s, b)
    BY <1>3 DEF Handled, Crossed
  <2>3. s.valid = r.valid /\ s.triggered = r.triggered /\ s \in States /\ Fits(k, s)
    BY <1>1, <2>1, SustainedReleased, FittingInside
  <2> HIDE DEF s
  <2>4. CASE on
    <3>1. Handled(do, k).valid = r.valid /\ (Handled(do, k).triggered => r.triggered \/ r.valid)
      BY <2>2, <2>3, <2>4, SustainedReleased
    <3>2. r.valid => Fires(e, k)
      BY <2>1, <2>4 DEF Fires
    <3>3. ~Frees(e, k)
      BY <1>2, <1>3, <2>1, <2>4, FiringKinds
    <3>4. QED
      BY <3>1, <3>2, <3>3
  <2>5. CASE ~on
    <3> DEFINE action == ExitAction(k, s, b)
    <3>1. Options[k].validExit = "false" /\ Options[k].invalidExit = "nothing" /\ Options[k].rewind = "false"
      BY DEF Sustained
    <3>2. action = IF b \/ (IF AnyTime(k) THEN s.triggered ELSE s.valid) THEN "false" ELSE "invalid"
      BY <2>1, <3>1 DEF ExitAction
    <3>3. action = "false" => Exited(k, s, b) = Released(k, s)
      BY DEF Exited
    <3>4. action = "invalid" => Exited(k, s, b) = s
      BY <3>1 DEF Exited
    <3>5. Released(k, s).valid = r.valid /\ ~Released(k, s).triggered
      BY <2>3, SustainedReleased
    <3>6. Frees(e, k) => b \/ AnyTime(k) \/ r.valid
      <4>1. e[1] = "cross" /\ e[4] = b
        BY <2>1
      <4>2. QED
        BY <4>1, FiringKinds
    <3>7. action \in {"false", "invalid"} /\ (Frees(e, k) /\ action = "invalid" => ~s.triggered)
      BY <2>3, <3>2, <3>6
    <3> HIDE DEF action
    <3>8. QED
      BY <2>2, <2>3, <2>5, <3>3, <3>4, <3>5, <3>7
  <2>6. QED
    BY <2>1, <2>4, <2>5
<1>4. CASE do = "reset"
  <2> DEFINE s == [r EXCEPT !.done = FALSE]
  <2>1. Handled(do, k) = Updated(k, s)
    BY <1>4 DEF Handled
  <2>2. s \in States /\ s.sounding = r.sounding /\ s.triggered = r.triggered /\ s.valid = r.valid
    BY <1>1, FittingFields DEF States
  <2> HIDE DEF s
  <2>3. Handled(do, k).valid = r.valid /\ Handled(do, k).triggered = r.triggered
    BY <1>1, <2>1, <2>2, FittingUpdated DEF Fits
  <2>4. ~Frees(e, k)
    BY <1>2, <1>4, FiringKinds
  <2>5. QED
    BY <2>3, <2>4
<1>5. CASE do = "release" \/ do = "invalid"
  <2>1. Handled(do, k) = Released(k, r) \/ (Handled(do, k) = r /\ do = "invalid")
    BY <1>1, <1>5 DEF Handled
  <2>2. Frees(e, k) => do # "invalid"
    BY <1>2, FiringKinds
  <2>3. QED
    BY <1>1, <2>1, <2>2, SustainedReleased
<1>6. CASE do = "under"
  <2> DEFINE s == IF AnyTime(k) \/ ~r.inside THEN Begun(r) ELSE r
  <2>1. Handled(do, k) = [s EXCEPT !.inside = TRUE]
    BY <1>6 DEF Handled, Under
  <2>2. s \in States /\ Fits(k, s) /\ s.valid = r.valid /\ (s.triggered => r.triggered \/ r.valid)
    BY <1>1, RecordTypes, FittingBegun, SustainedReleased
  <2> HIDE DEF s
  <2>3. Handled(do, k).valid = r.valid /\ (Handled(do, k).triggered => r.triggered \/ r.valid)
    <3>1. [s EXCEPT !.inside = TRUE].valid = s.valid /\ [s EXCEPT !.inside = TRUE].triggered = s.triggered
      BY <2>2, FittingFields
    <3>2. QED
      BY <2>1, <2>2, <3>1
  <2>4. e = <<"under", k>>
    <3>1. e \in {"under"} \X Triggers
      BY <1>2, <1>6 DEF Entries, Calls, Plain
    <3>2. QED
      BY <1>2, <1>6, <3>1
  <2>5. r.valid => Fires(e, k)
    BY <2>4 DEF Fires
  <2>6. ~Frees(e, k)
    BY <1>2, <1>6, FiringKinds
  <2>7. QED
    BY <2>3, <2>5, <2>6
<1>7. QED
  BY <1>3, <1>4, <1>5, <1>6 DEF TriggerSteps

\* What becomes of each part where steps are pushed in place of the first.
LEMMA OrderlyPush ==
  ASSUME NEW S, NEW q \in Seq(S), q # <<>>, NEW new \in Seq(S), Orderly(q), Orderly(new),
         q[1][1] = "listen" => new = <<>>
  PROVE  /\ Orderly(new \o Tail(q))
         /\ q[1][1] # "listen" => \A j \in 2 .. Len(q) : q[j][1] \notin {"time", "changed"}
         /\ \A j \in 2 .. Len(q) : q[j][1] # "time"
<1> DEFINE s == new \o Tail(q)
<1>1. /\ Len(s) = Len(new) + Len(q) - 1 /\ Len(new) \in Nat /\ Len(q) \in Nat /\ Len(q) > 0
      /\ \A i \in 1 .. Len(new) : s[i] = new[i]
      /\ \A i \in 1 .. Len(s) : i > Len(new) => i - Len(new) + 1 \in 2 .. Len(q)
                                                /\ s[i] = q[i - Len(new) + 1]
  BY Replaced, EmptySeq
<1> HIDE DEF s
<1>2. ASSUME NEW j \in 2 .. Len(q)
      PROVE  /\ q[j][1] # "time"
             /\ q[j][1] = "changed" => j = 2 /\ q[1][1] = "listen"
  <2>1. j \in 1 .. Len(q) /\ j # 1
    BY <1>1
  <2>2. QED
    BY <2>1 DEF Orderly
<1>3. ASSUME NEW i \in 1 .. Len(s)
      PROVE  /\ s[i][1] = "time" => i = 1
             /\ s[i][1] = "changed" => i = 1 \/ (i = 2 /\ s[1][1] = "listen")
  <2>1. CASE i <= Len(new)
    <3>1. i \in 1 .. Len(new) /\ s[i] = new[i]
      BY <1>1, <2>1
    <3>2. s[1] = new[1]
      BY <1>1, <2>1
    <3>3. QED
      BY <3>1, <3>2 DEF Orderly
  <2>2. CASE i > Len(new)
    <3> DEFINE j == i - Len(new) + 1
    <3>1. j \in 2 .. Len(q) /\ s[i] = q[j]
      BY <1>1, <2>2
    <3> HIDE DEF j
    <3>2. s[i][1] # "time" /\ (s[i][1] = "changed" => j = 2 /\ q[1][1] = "listen")
      BY <1>2, <3>1
    <3>3. j = 2 /\ q[1][1] = "listen" => i = 1
      <4>1. new = <<>> => Len(new) = 0
        OBVIOUS
      <4>2. QED
        BY <1>1, <4>1 DEF j
    <3>4. QED
      BY <3>2, <3>3
  <2>3. QED
    BY <1>1, <2>1, <2>2
<1>4. QED
  BY <1>2, <1>3 DEF Orderly, s

LEMMA FreedPush ==
  ASSUME NEW q \in Seq(Entries), q # <<>>, NEW new \in Seq(Entries), NEW k,
         stack[m] = q, Endangered(k) => Freed(q, k),
         NEW on \in BOOLEAN, on => trig[k].triggered \/ Fires(Head(q), k), Frees(Head(q), k) => ~on,
         (\E i \in 1 .. Len(new) : Fires(new[i], k)) => Freed(new, k),
         on \/ \E i \in 1 .. Len(new \o Tail(q)) : Fires((new \o Tail(q))[i], k)
  PROVE  Freed(new \o Tail(q), k)
<1> DEFINE s == new \o Tail(q)
<1>1. /\ Len(s) = Len(new) + Len(q) - 1 /\ Len(new) \in Nat /\ Len(q) \in Nat /\ Len(q) > 0
      /\ \A i \in 1 .. Len(new) : s[i] = new[i]
      /\ \A i \in 2 .. Len(q) : s[Len(new) + i - 1] = q[i]
      /\ \A i \in 1 .. Len(s) : i > Len(new) => i - Len(new) + 1 \in 2 .. Len(q)
                                                /\ s[i] = q[i - Len(new) + 1]
  BY Replaced, EmptySeq
<1>2. on \/ \E i \in 1 .. Len(s) : Fires(s[i], k)
  OBVIOUS
<1> HIDE DEF s
<1>3. ASSUME NEW p \in 2 .. Len(q), Frees(q[p], k), \A j \in 1 .. Len(q) : j > p => ~Fires(q[j], k)
      PROVE  Freed(s, k)
  <2> DEFINE o == Len(new) + p - 1
  <2>1. o \in 1 .. Len(s) /\ s[o] = q[p] /\ o > Len(new)
    BY <1>1
  <2>2. ASSUME NEW j \in 1 .. Len(s), j > o PROVE ~Fires(s[j], k)
    <3> DEFINE i == j - Len(new) + 1
    <3>1. i \in 2 .. Len(q) /\ s[j] = q[i]
      <4>1. j > Len(new)
        BY <1>1, <2>1, <2>2
      <4>2. QED
        BY <1>1, <4>1
    <3>2. i > p
      BY <1>1, <2>2
    <3> HIDE DEF i
    <3>3. i \in 1 .. Len(q)
      BY <1>1, <3>1
    <3>4. QED
      BY <1>3, <3>1, <3>2, <3>3
  <2> HIDE DEF o
  <2>3. QED
    BY <1>3, <2>1, <2>2 DEF Freed
<1>4. CASE \E j \in 2 .. Len(q) : Fires(q[j], k)
  <2>1. PICK j \in 2 .. Len(q) : Fires(q[j], k)
    BY <1>4
  <2>2. j \in 1 .. Len(q)
    BY <1>1
  <2>3. Endangered(k)
    BY <2>1, <2>2 DEF Endangered
  <2>4. PICK p \in 1 .. Len(q) : Frees(q[p], k) /\ \A i \in 1 .. Len(q) : i > p => ~Fires(q[i], k)
    BY <2>3 DEF Freed
  <2>5. p \in 2 .. Len(q)
    BY <1>1, <2>1, <2>2, <2>4
  <2>6. QED
    BY <1>3, <2>4, <2>5 DEF s
<1>5. CASE (\A j \in 2 .. Len(q) : ~Fires(q[j], k)) /\ \E i \in 1 .. Len(new) : Fires(new[i], k)
  <2>1. PICK p \in 1 .. Len(new) : Frees(new[p], k) /\ \A i \in 1 .. Len(new) : i > p => ~Fires(new[i], k)
    BY <1>5 DEF Freed
  <2>2. p \in 1 .. Len(s) /\ s[p] = new[p]
    BY <1>1
  <2>3. ASSUME NEW j \in 1 .. Len(s), j > p PROVE ~Fires(s[j], k)
    <3>1. CASE j <= Len(new)
      <4>1. j \in 1 .. Len(new) /\ s[j] = new[j]
        BY <1>1, <3>1
      <4>2. QED
        BY <2>1, <2>3, <4>1
    <3>2. CASE j > Len(new)
      BY <1>1, <1>5, <3>2
    <3>3. QED
      BY <1>1, <3>1, <3>2
  <2>4. QED
    BY <2>1, <2>2, <2>3 DEF Freed, s
<1>6. CASE (\A j \in 2 .. Len(q) : ~Fires(q[j], k)) /\ \A i \in 1 .. Len(new) : ~Fires(new[i], k)
  <2>1. \A i \in 1 .. Len(s) : ~Fires(s[i], k)
    <3>1. ASSUME NEW i \in 1 .. Len(s) PROVE ~Fires(s[i], k)
      <4>1. i <= Len(new) => i \in 1 .. Len(new) /\ s[i] = new[i]
        BY <1>1
      <4>2. QED
        BY <1>1, <1>6, <4>1
    <3>2. QED
      BY <3>1
  <2>2. on
    BY <1>2, <2>1
  <2>3. Head(q) = q[1] /\ 1 \in 1 .. Len(q)
    BY <1>1, HeadTailProperties
  <2>4. Endangered(k)
    BY <2>2, <2>3 DEF Endangered
  <2>5. PICK p \in 1 .. Len(q) : Frees(q[p], k) /\ \A i \in 1 .. Len(q) : i > p => ~Fires(q[i], k)
    BY <2>4 DEF Freed
  <2>6. p # 1
    BY <2>2, <2>3, <2>5
  <2>7. p \in 2 .. Len(q)
    BY <1>1, <2>6
  <2>8. QED
    BY <1>3, <2>5, <2>7 DEF s
<1>7. QED
  BY <1>4, <1>5, <1>6 DEF s

LEMMA AheadTypes ==
  /\ Aheads \subseteq Entries /\ Walks \subseteq Entries
  /\ \A e \in Aheads : e[1] \in {"exit", "join", "rewind", "start", "state"} /\ e \notin Walks
BY DEF Aheads, Walks

LEMMA PostedKept ==
  ASSUME Typed, posted' = posted \/ \E x : posted' = Append(posted, x),
         NEW i \in 1 .. Len(posted), posted[i] = "playing"
  PROVE  \E j \in 1 .. Len(posted') : posted'[j] = "playing"
<1>1. posted \in Seq({"time", "playing", "loop"})
  BY DEF Typed, Scalars
<1>2. CASE \E x : posted' = Append(posted, x)
  <2>1. PICK x : posted' = Append(posted, x)
    BY <1>2
  <2>2. i \in 1 .. Len(posted') /\ posted'[i] = posted[i]
    BY <1>1, <2>1, AppendProperties
  <2>3. QED
    BY <2>2
<1>3. QED
  BY <1>2

LEMMA FiringKept ==
  ASSUME NEW k, trig'[k].valid = trig[k].valid
  PROVE  /\ \A e : Fires(e, k)' = Fires(e, k) /\ Frees(e, k)' = Frees(e, k)
         /\ \A q : Freed(q, k)' = Freed(q, k)
<1>1. \A e : Fires(e, k)' = Fires(e, k)
  BY DEF Fires
<1>2. \A e : Frees(e, k)' = Frees(e, k)
  BY DEF Frees, AnyTime, Bars
<1>3. \A q : Freed(q, k)' = Freed(q, k)
  BY <1>1, <1>2 DEF Freed
<1>4. QED
  BY <1>1, <1>2, <1>3

LEMMA BalancedPush ==
  ASSUME Typed, Balanced, stack[m] # <<>>, NEW new \in Stacks, Do(m, new),
         wasPlaying' = wasPlaying, interrupted' = interrupted,
         \A k \in Sustained : /\ trig'[k].valid = trig[k].valid
                              /\ trig'[k].triggered => trig[k].triggered \/ Fires(Head(stack[m]), k)
                              /\ Frees(Head(stack[m]), k) => ~trig'[k].triggered
                              /\ ~wasPlaying /\ (\E i \in 1 .. Len(new) : Fires(new[i], k)) => Freed(new, k)
  PROVE  Balanced'
<1> DEFINE q == stack[m]
           s == new \o Tail(q)
<1>1. q \in Seq(Entries) /\ new \in Seq(Entries) /\ stack'[m] = s
  BY Pushed, StackKinds, TwoCallers DEF Typed
<1>2. ASSUME ~interrupted', ~wasPlaying', NEW k \in Sustained, Endangered(k)'
      PROVE  Freed(stack[m], k)'
  <2>1. \A e : Fires(e, k)' = Fires(e, k)
    BY FiringKept
  <2>2. trig'[k].triggered \/ \E i \in 1 .. Len(s) : Fires(s[i], k)
    BY <1>1, <1>2, <2>1 DEF Endangered, m
  <2>3. Endangered(k) => Freed(q, k)
    BY <1>2 DEF Balanced
  <2> DEFINE on == IF trig'[k].triggered THEN TRUE ELSE FALSE
  <2>4. on \/ \E i \in 1 .. Len(s) : Fires(s[i], k)
    BY <2>2
  <2>5. (on => trig[k].triggered \/ Fires(Head(q), k)) /\ (Frees(Head(q), k) => ~on)
    OBVIOUS
  <2>6. (\E i \in 1 .. Len(new) : Fires(new[i], k)) => Freed(new, k)
    BY <1>2
  <2>7. on \in BOOLEAN
    OBVIOUS
  <2> HIDE DEF on, q
  <2>8. Freed(s, k)
    BY <1>1, <2>3, <2>4, <2>5, <2>6, <2>7, FreedPush DEF q
  <2>9. QED
    BY <1>1, <2>8, FiringKept DEF Freed, m
<1>3. QED
  BY <1>2 DEF Balanced, m

\* What a step of the message thread keeps, by what it pushes.
LEMMA InformedPush ==
  ASSUME Typed, Informed, stack[m] # <<>>, NEW new \in Stacks, Do(m, new),
         playing' = playing, wasPlaying' = wasPlaying,
         posted' = posted \/ \E x : posted' = Append(posted, x),
         Head(stack[m]) \in Aheads => \E i \in 1 .. Len(new) : new[i] \in Aheads
  PROVE  Informed'
<1> DEFINE q == stack[m]
           s == new \o Tail(q)
<1>1. q \in Seq(Entries) /\ new \in Seq(Entries) /\ stack'[m] = s
  BY Pushed, StackKinds, TwoCallers DEF Typed
<1>2. /\ Len(s) = Len(new) + Len(q) - 1 /\ Len(new) \in Nat /\ Len(q) \in Nat /\ Len(q) > 0
      /\ \A i \in 1 .. Len(new) : s[i] = new[i]
      /\ \A i \in 2 .. Len(q) : s[Len(new) + i - 1] = q[i]
  BY <1>1, Replaced, EmptySeq
<1>3. Head(q) = q[1]
  BY <1>1, HeadTailProperties
<1> HIDE DEF q, s
<1>4. Ahead => \E i \in 1 .. Len(s) : s[i] \in Aheads
  <2>1. SUFFICES ASSUME NEW i \in 1 .. Len(q), q[i] \in Aheads
                 PROVE  \E j \in 1 .. Len(s) : s[j] \in Aheads
    BY DEF Ahead, q
  <2>2. CASE i = 1
    <3>1. PICK j \in 1 .. Len(new) : new[j] \in Aheads
      BY <1>3, <2>1, <2>2 DEF q
    <3>2. j \in 1 .. Len(s) /\ s[j] = new[j]
      BY <1>2
    <3>3. QED
      BY <3>1, <3>2
  <2>3. CASE i # 1
    <3> DEFINE j == Len(new) + i - 1
    <3>1. j \in 1 .. Len(s) /\ s[j] = q[i]
      BY <1>2, <2>3
    <3> HIDE DEF j
    <3>2. QED
      BY <2>1, <3>1
  <2>4. QED
    BY <2>2, <2>3
<1>5. Ahead => Ahead'
  BY <1>1, <1>4 DEF Ahead, m
<1>6. (\E i \in 1 .. Len(posted) : posted[i] = "playing")
         => \E i \in 1 .. Len(posted') : posted'[i] = "playing"
  BY PostedKept
<1>7. QED
  BY <1>5, <1>6 DEF Informed

LEMMA RewindingPush ==
  ASSUME Typed, Rewinding, Orderly(stack[m]), stack[m] # <<>>, NEW new \in Stacks, Do(m, new),
         playing' = playing, wasPlaying' = wasPlaying,
         Head(stack[m])[1] = "listen" => time' = time /\ timeLock' = timeLock,
         \A i \in 1 .. Len(new) : ~wasPlaying => Rewinds(new[i], playing, Held')
  PROVE  Rewinding'
<1> DEFINE q == stack[m]
           s == new \o Tail(q)
<1>1. q \in Seq(Entries) /\ new \in Seq(Entries) /\ stack'[m] = s
  BY Pushed, StackKinds, TwoCallers DEF Typed
<1>2. /\ Len(s) = Len(new) + Len(q) - 1 /\ Len(new) \in Nat /\ Len(q) \in Nat /\ Len(q) > 0
      /\ \A i \in 1 .. Len(new) : s[i] = new[i]
      /\ \A i \in 1 .. Len(s) : i > Len(new) => i - Len(new) + 1 \in 2 .. Len(q)
                                                /\ s[i] = q[i - Len(new) + 1]
  BY <1>1, Replaced, EmptySeq
<1>3. Head(q) = q[1]
  BY <1>1, HeadTailProperties
<1> HIDE DEF s
<1>4. ASSUME ~wasPlaying, NEW j \in 2 .. Len(q) PROVE Rewinds(q[j], playing, Held')
  <2>1. j \in 1 .. Len(q) /\ j # 1
    BY <1>2
  <2>2. Rewinds(q[j], playing, Held)
    BY <1>4, <2>1 DEF Rewinding
  <2>3. CASE Head(q)[1] = "listen"
    <3>1. Held' = Held
      BY <2>3 DEF Held, m
    <3>2. QED
      BY <2>2, <3>1
  <2>4. CASE Head(q)[1] # "listen"
    <3>1. q[j][1] # "time" /\ q[j][1] # "changed"
      BY <1>3, <2>1, <2>4 DEF Orderly
    <3>2. playing => (q[j][1] = "seek" => q[j][2] = 0) /\ q[j][1] # "force"
      BY <2>2 DEF Rewinds
    <3>3. QED
      BY <3>1, <3>2 DEF Rewinds
  <2>5. QED
    BY <2>3, <2>4
<1>5. ASSUME ~wasPlaying, NEW i \in 1 .. Len(s) PROVE Rewinds(s[i], playing, Held')
  <2>1. CASE i <= Len(new)
    <3>1. i \in 1 .. Len(new) /\ s[i] = new[i]
      BY <1>2, <2>1
    <3>2. Rewinds(new[i], playing, Held')
      BY <1>5, <3>1
    <3>3. QED
      BY <3>1, <3>2
  <2>2. CASE i > Len(new)
    <3>1. PICK j \in 2 .. Len(q) : s[i] = q[j]
      BY <1>2, <2>2
    <3>2. Rewinds(q[j], playing, Held')
      BY <1>4, <1>5
    <3>3. QED
      BY <3>1, <3>2
  <2>3. QED
    BY <1>2, <2>1, <2>2
<1>6. QED
  BY <1>1, <1>5 DEF Rewinding, m

LEMMA ApartPush ==
  ASSUME Typed, Apart, stack[m] # <<>>, NEW new \in Stacks, Do(m, new), interrupted' = interrupted,
         Followed(new, Aheads, Entries \ Walks),
         Head(stack[m]) \notin Aheads => \A i \in 1 .. Len(new) : new[i] \notin Aheads
  PROVE  Apart'
<1> DEFINE q == stack[m]
<1>1. q \in Seq(Entries) /\ new \in Seq(Entries) /\ stack'[m] = new \o Tail(q)
  BY Pushed, StackKinds, TwoCallers DEF Typed
<1>2. Head(q) = q[1] /\ Len(q) > 0 /\ Len(q) \in Nat
  BY <1>1, HeadTailProperties, EmptySeq
<1>3. ASSUME ~interrupted
      PROVE  Followed(new \o Tail(q), Aheads, Entries \ Walks)
  <2>1. Followed(q, Aheads, Entries \ Walks)
    BY <1>3 DEF Apart
  <2>2. Head(q) \in Aheads => \A j \in 2 .. Len(q) : q[j] \in Entries \ Walks
    <3>1. \A j \in 2 .. Len(q) : j \in 1 .. Len(q) /\ 1 \in 1 .. Len(q) /\ 1 < j
      BY <1>2
    <3>2. QED
      BY <1>2, <2>1, <3>1 DEF Followed
  <2> HIDE DEF q
  <2>3. QED
    BY <1>1, <2>1, <2>2, FollowedPush DEF q
<1>4. QED
  BY <1>1, <1>3 DEF Apart, m

LEMMA SilentPush ==
  ASSUME Typed, Silent, NEW do, At_(m, do), NEW new \in Stacks, Do(m, new),
         playing' = playing, wasPlaying' = wasPlaying, interrupted' = interrupted,
         posted' = posted \/ \E x : posted' = Append(posted, x),
         do = "listen" => new = <<>> /\ time' = time /\ timeLock' = timeLock,
         Orderly(new), Followed(new, Aheads, Entries \ Walks),
         IF Head(stack[m]) \in Aheads THEN \E i \in 1 .. Len(new) : new[i] \in Aheads
                                      ELSE \A i \in 1 .. Len(new) : new[i] \notin Aheads,
         \A i \in 1 .. Len(new) : ~wasPlaying => Rewinds(new[i], playing, Held'),
         \A k \in Sustained : /\ trig'[k].valid = trig[k].valid
                              /\ trig'[k].triggered => trig[k].triggered \/ Fires(Head(stack[m]), k)
                              /\ Frees(Head(stack[m]), k) => ~trig'[k].triggered
                              /\ ~wasPlaying /\ (\E i \in 1 .. Len(new) : Fires(new[i], k)) => Freed(new, k)
  PROVE  Silent'
<1>1. stack[m] # <<>> /\ Head(stack[m])[1] = do /\ Head(stack[m]) = stack[m][1] /\ stack[m] \in Seq(Entries)
  BY FirstStep, TwoCallers
<1>2. Informed'
  BY <1>1, InformedPush DEF Silent
<1>3. Rewinding'
  BY <1>1, RewindingPush DEF Silent
<1>4. Apart'
  BY <1>1, ApartPush DEF Silent
<1>5. Balanced'
  BY <1>1, BalancedPush DEF Silent
<1>6. Orderly(stack[m])'
  <2>1. new \in Seq(Entries) /\ stack'[m] = new \o Tail(stack[m])
    BY <1>1, Pushed, StackKinds, TwoCallers DEF Typed
  <2>2. Orderly(new \o Tail(stack[m]))
    BY <1>1, <2>1, OrderlyPush DEF Silent
  <2>3. Orderly(stack'[m])
    BY <2>1, <2>2
  <2>4. QED
    BY <2>3 DEF Orderly, m
<1>7. QED
  BY <1>2, <1>3, <1>4, <1>5, <1>6 DEF Silent

LEMMA SilentKept ==
  ASSUME Typed, Silent, stack'[m] = stack[m], UNCHANGED <<trig, wasPlaying, interrupted>>,
         posted' = posted \/ \E x : posted' = Append(posted, x),
         playing' => playing, playing => playing' \/ posted' = Append(posted, "playing"),
         Held => Held'
  PROVE  Silent'
<1>1. Ahead' = Ahead
  BY DEF Ahead, m
<1>2. (\E i \in 1 .. Len(posted) : posted[i] = "playing")
         => \E i \in 1 .. Len(posted') : posted'[i] = "playing"
  BY PostedKept
<1>3. posted' = Append(posted, "playing") => \E i \in 1 .. Len(posted') : posted'[i] = "playing"
  <2>1. posted \in Seq({"time", "playing", "loop"}) /\ Len(posted) \in Nat
    BY DEF Typed, Scalars
  <2>2. ASSUME posted' = Append(posted, "playing")
        PROVE  Len(posted) + 1 \in 1 .. Len(posted') /\ posted'[Len(posted) + 1] = "playing"
    BY <2>1, <2>2
  <2>3. QED
    BY <2>2
<1>4. Informed'
  BY <1>1, <1>2, <1>3 DEF Silent, Informed
<1>5. Rewinding'
  <2>1. ASSUME ~wasPlaying', NEW i \in 1 .. Len(stack'[m])
        PROVE  Rewinds(stack'[m][i], playing', Held')
    <3>1. Rewinds(stack[m][i], playing, Held)
      BY <2>1 DEF Silent, Rewinding
    <3>2. QED
      BY <3>1 DEF Rewinds
  <2>2. QED
    BY <2>1 DEF Rewinding, m
<1>6. Apart' /\ Orderly(stack[m])'
  BY DEF Silent, Apart, Orderly, m
<1>7. Balanced'
  <2>1. \A k : \A e : Fires(e, k)' = Fires(e, k) /\ Frees(e, k)' = Frees(e, k)
    BY DEF Fires, Frees, AnyTime, Bars
  <2>2. ASSUME NEW k PROVE Endangered(k)' = Endangered(k) /\ Freed(stack[m], k)' = Freed(stack[m], k)
    BY <2>1 DEF Endangered, Freed, Fires, Frees, m
  <2>3. QED
    BY <2>2 DEF Silent, Balanced, m
<1>8. QED
  BY <1>4, <1>5, <1>6, <1>7 DEF Silent

LEMMA SilentOthers ==
  ASSUME Typed, Following, Silent, Call(Other) \/ Command(Other)
  PROVE  Silent'
<1>1. stack'[m] = stack[m]
  <2>1. \E new : stack' = [stack EXCEPT ![Other] = new]
    BY DEF Call, Trigger, Ended, Set, Seek, Sought, Notify, Do, Command, Give
  <2>2. QED
    BY <2>1, TwoCallers DEF Typed
<1>2. UNCHANGED <<trig, wasPlaying>>
  BY DEF Call, Trigger, Ended, Set, Seek, Sought, Command, layer
<1>3. interrupted' = interrupted
  <2>1. CASE Set(Other)
    <3>1. interrupted' = (interrupted \/ (Other = MessageThread /\ playing /\ ~Arg(Other, 1) /\ Walking))
      BY <2>1 DEF Set
    <3>2. interrupted \in BOOLEAN /\ Other # MessageThread
      BY TwoCallers DEF Typed, Scalars, m
    <3>3. QED
      BY <3>1, <3>2
  <2>2. CASE ~Set(Other)
    BY <2>2 DEF Call, Trigger, Ended, Seek, Sought, Command, history
  <2>3. QED
    BY <2>1, <2>2
<1>4. posted' = posted \/ \E x : posted' = Append(posted, x)
  BY TwoCallers DEF Call, Trigger, Ended, Set, Seek, Sought, Command, Notify, m
<1>5. (playing' => playing) /\ (playing => playing' \/ posted' = Append(posted, "playing"))
  <2>1. CASE Set(Other)
    <3>1. stack[Other] # <<>> /\ stack[Other] \in Seq(Entries) /\ Head(stack[Other]) = stack[Other][1]
          /\ At_(Other, "set") /\ 1 \in 1 .. Len(stack[Other])
      BY <2>1, FirstStep, TwoCallers DEF Set
    <3>2. Head(stack[Other]) # <<"set", TRUE>>
      BY <3>1 DEF Following, OthersFollow, Plays
    <3>3. Arg(Other, 1) = FALSE
      <4>1. Head(stack[Other]) \in Entries /\ Head(stack[Other])[1] = "set"
        BY <3>1, FirstStep, TwoCallers
      <4>2. Head(stack[Other]) \in {"set"} \X BOOLEAN
        BY <4>1 DEF Entries, Calls, Plain
      <4>3. PICK b \in BOOLEAN : Head(stack[Other]) = <<"set", b>>
        BY <4>2
      <4>4. b # TRUE
        BY <3>2, <4>3
      <4>5. b = FALSE
        BY <4>4
      <4>6. Head(stack[Other]) = <<"set", FALSE>>
        BY <4>3, <4>5
      <4> DEFINE e == Head(stack[Other])
      <4>7. Arg(Other, 1) = e[2]
        BY DEF Arg
      <4>8. e = <<"set", FALSE>>
        BY <4>6
      <4> HIDE DEF e
      <4>9. QED
        BY <4>7, <4>8
    <3>4. playing' = FALSE /\ playing \in BOOLEAN
      BY <2>1, <3>3 DEF Set, Typed, Scalars
    <3>5. playing # FALSE => posted' = Append(posted, "playing")
      BY <2>1, <3>3, TwoCallers DEF Set, Notify, m
    <3>6. QED
      BY <3>4, <3>5
  <2>2. CASE ~Set(Other)
    <3>1. playing' = playing
      BY <2>2 DEF Call, Trigger, Ended, Seek, Sought, Command
    <3>2. QED
      BY <3>1
  <2>3. QED
    BY <2>1, <2>2
<1>6. Held => Held'
  <2>1. CASE Seek(Other)
    <3>1. timeLock.by # m
      BY <2>1, TwoCallers DEF Seek, CanLock
    <3>2. QED
      BY <3>1 DEF Held
  <2>2. CASE Sought(Other)
    <3>1. stack[Other] \in Seq(Entries) /\ stack[Other] # <<>> /\ Head(stack[Other])[1] = "sought"
          /\ Head(stack[Other]) = stack[Other][1] /\ 1 \in 1 .. Len(stack[Other])
          /\ Head(stack[Other]) \in Entries
      BY <2>2, FirstStep, TwoCallers DEF Sought
    <3>2. Head(stack[Other]) = <<"sought">>
      BY <3>1, EntryParts DEF Plain
    <3>3. Count(stack[Other], {<<"sought">>}) > 0
      BY <3>1, <3>2, CountType
    <3>4. Count(stack[Other], {<<"sought">>}) = IF timeLock.by = Other THEN timeLock.n ELSE 0
      BY TwoCallers DEF Typed, Locks, Soughts
    <3>5. timeLock.by = Other
      BY <3>3, <3>4
    <3>6. QED
      BY <3>5, TwoCallers DEF Held
  <2>3. CASE ~Seek(Other) /\ ~Sought(Other)
    <3>1. time' = time /\ timeLock' = timeLock
      BY <2>3 DEF Call, Trigger, Ended, Set, Command, clock
    <3>2. QED
      BY <3>1 DEF Held, m
  <2>4. QED
    BY <2>1, <2>2, <2>3
<1>7. QED
  BY <1>1, <1>2, <1>3, <1>4, <1>5, <1>6, SilentKept

LEMMA SilentPlay ==
  ASSUME Typed, Silent, Play
  PROVE  Silent'
<1>1. stack'[m] = stack[m] /\ UNCHANGED <<trig, wasPlaying, interrupted>>
  BY DEF Play, layer, history
<1>2. posted' = posted \/ \E x : posted' = Append(posted, x)
  BY DEF Play, Begin, Compute, Write, Frame, Advance, Tick, End, Offset, Looped, Jump, Retarget, SetOffset,
     OffsetSet, Finish, Finished
<1>3. (playing' => playing) /\ (playing => playing' \/ posted' = Append(posted, "playing"))
  <2>1. CASE player = "finish"
    <3>1. Finish
      BY <2>1 DEF Play, Begin, Compute, Write, Frame, Advance, Tick, End, Offset, Looped, Jump, Retarget,
         SetOffset, OffsetSet, Finished
    <3>2. QED
      BY <2>1, <3>1 DEF Play, Finish
  <2>2. CASE player # "finish"
    BY <2>2 DEF Play
  <2>3. QED
    BY <2>1, <2>2
<1>4. Held => Held'
  <2>1. CASE Frame \/ Advance \/ SetOffset \/ OffsetSet
    <3>1. timeLock.by # m
      BY <2>1, LockKinds, TwoCallers, OtherNames DEF Frame, Advance, SetOffset, OffsetSet, Typed, Locks
    <3>2. QED
      BY <3>1 DEF Held
  <2>2. CASE ~(Frame \/ Advance \/ SetOffset \/ OffsetSet)
    <3>1. time' = time /\ timeLock' = timeLock
      BY <2>2 DEF Play, Begin, Compute, Write, Tick, End, Offset, Looped, Jump, Retarget, Finish,
         Finished, clock
    <3>2. QED
      BY <3>1 DEF Held, m
  <2>3. QED
    BY <2>1, <2>2
<1>5. QED
  BY <1>1, <1>2, <1>3, <1>4, SilentKept

\* Steps which neither fire a trigger nor walk, and tell the triggers nothing.
Mild == {e \in Entries : /\ e[1] \notin {"exit", "join", "rewind", "start", "state", "cross", "under",
                                         "changed", "time", "force", "listen"}
                         /\ e[1] = "seek" => e[2] = 0}

LEMMA MildSteps ==
  ASSUME NEW e \in Mild
  PROVE  /\ e \in Entries /\ e \notin Aheads /\ e \notin Walks
         /\ e[1] # "time" /\ e[1] # "changed"
         /\ \A k : ~Fires(e, k)
         /\ \A plays, held : Rewinds(e, plays, held)
<1>1. e \in Entries /\ e \notin Aheads /\ e \notin Walks /\ e[1] # "time" /\ e[1] # "changed"
  BY DEF Mild, Aheads, Walks
<1>2. \A k : ~Fires(e, k)
  BY FiringKinds DEF Mild
<1>3. ASSUME NEW plays, NEW held PROVE Rewinds(e, plays, held)
  BY DEF Mild, Rewinds
<1>4. QED
  BY <1>1, <1>2, <1>3

LEMMA MildEntries ==
  /\ <<"sought">> \in Mild /\ <<"timed">> \in Mild /\ <<"unlisten">> \in Mild /\ <<"clear">> \in Mild
  /\ \A c \in Names : <<"trigger", c>> \in Mild /\ <<"triggered", c>> \in Mild
  /\ \A b \in BOOLEAN : <<"set", b>> \in Mild
  /\ \A b \in BOOLEAN : <<"seek", 0, b>> \in Mild
  /\ \A k \in Triggers : <<"release", k>> \in Mild /\ <<"reset", k>> \in Mild /\ <<"invalid", k>> \in Mild
<1>1. /\ {<<"sought">>, <<"unlisten">>} \subseteq Entries /\ {<<"timed">>, <<"clear">>} \subseteq Entries
      /\ \A e \in Quiet : e \in Entries
  BY QuietEntries
<1>2. <<"sought">> \in Mild /\ <<"timed">> \in Mild /\ <<"unlisten">> \in Mild /\ <<"clear">> \in Mild
  BY <1>1 DEF Mild
<1>3. ASSUME NEW c \in Names PROVE <<"trigger", c>> \in Mild /\ <<"triggered", c>> \in Mild
  BY <1>1, QuietEntries DEF Mild
<1>4. ASSUME NEW b \in BOOLEAN PROVE <<"set", b>> \in Mild
  BY <1>1, QuietEntries DEF Mild
<1>5. ASSUME NEW b \in BOOLEAN PROVE <<"seek", 0, b>> \in Mild
  BY <1>1, Sizes, QuietEntries DEF Mild
<1>6. ASSUME NEW k \in Triggers
      PROVE  <<"release", k>> \in Mild /\ <<"reset", k>> \in Mild /\ <<"invalid", k>> \in Mild
  BY <1>1, QuietEntries DEF Mild
<1>7. QED
  BY <1>2, <1>3, <1>4, <1>5, <1>6

LEMMA MildSeqs ==
  ASSUME NEW q \in Seq(Mild)
  PROVE  /\ Orderly(q) /\ Followed(q, Aheads, Entries \ Walks)
         /\ \A i \in 1 .. Len(q) : /\ q[i] \notin Aheads /\ (\A k : ~Fires(q[i], k))
                                   /\ \A plays, held : Rewinds(q[i], plays, held)
<1>1. \A i \in 1 .. Len(q) : q[i] \in Mild
  OBVIOUS
<1>2. \A i \in 1 .. Len(q) : /\ q[i] \notin Aheads /\ (\A k : ~Fires(q[i], k))
                             /\ \A plays, held : Rewinds(q[i], plays, held)
  BY <1>1, MildSteps
<1>3. Orderly(q)
  BY <1>1, MildSteps DEF Orderly
<1>4. Followed(q, Aheads, Entries \ Walks)
  BY <1>2 DEF Followed
<1>5. QED
  BY <1>2, <1>3, <1>4

\* What a handler does to the triggers that only their ends release.
Handles == \A k \in Sustained : /\ trig'[k].valid = trig[k].valid
                                /\ trig'[k].triggered => trig[k].triggered \/ Fires(Head(stack[m]), k)
                                /\ Frees(Head(stack[m]), k) => ~trig'[k].triggered

LEMMA UntouchedTriggers ==
  ASSUME trig' = trig, NEW do, At_(m, do), do \notin {"cross", "release"}
  PROVE  Handles
<1>1. Head(stack[m])[1] = do
  BY DEF At_
<1>2. \A k : ~Frees(Head(stack[m]), k)
  BY <1>1, FiringKinds
<1>3. QED
  BY <1>2 DEF Handles

LEMMA AheadHead ==
  ASSUME Typed, NEW do, At_(m, do)
  PROVE  Head(stack[m]) \in Aheads <=> do \in {"exit", "join", "rewind", "start", "state"}
BY FirstStep, TwoCallers DEF Aheads

LEMMA MildPush ==
  ASSUME Typed, Silent, NEW do, At_(m, do), do \notin {"exit", "join", "rewind", "start", "state"},
         NEW new \in Stacks, new \in Seq(Mild), Do(m, new),
         playing' = playing, wasPlaying' = wasPlaying, interrupted' = interrupted,
         posted' = posted \/ \E x : posted' = Append(posted, x),
         do = "listen" => new = <<>> /\ time' = time /\ timeLock' = timeLock, Handles
  PROVE  Silent'
<1>1. Head(stack[m]) \notin Aheads
  BY AheadHead
<1>2. /\ Orderly(new) /\ Followed(new, Aheads, Entries \ Walks)
      /\ \A i \in 1 .. Len(new) : /\ new[i] \notin Aheads /\ (\A k : ~Fires(new[i], k))
                                  /\ Rewinds(new[i], playing, Held')
  BY MildSeqs
<1>3. \A k \in Sustained : /\ trig'[k].valid = trig[k].valid
                           /\ trig'[k].triggered => trig[k].triggered \/ Fires(Head(stack[m]), k)
                           /\ Frees(Head(stack[m]), k) => ~trig'[k].triggered
                           /\ ~wasPlaying /\ (\E i \in 1 .. Len(new) : Fires(new[i], k)) => Freed(new, k)
  BY <1>2 DEF Handles
<1>4. QED
  BY <1>1, <1>2, <1>3, SilentPush

\* A step that walks nothing.
LEMMA SilentStep ==
  ASSUME Typed, Silent, NEW do, At_(m, do), do \notin {"cross", "release", "listen"},
         NEW new \in Stacks, Do(m, new), playing' = playing, UNCHANGED <<trig, wasPlaying, interrupted>>,
         posted' = posted \/ \E x : posted' = Append(posted, x),
         Orderly(new), Followed(new, Aheads, Entries \ Walks),
         IF do \in {"exit", "join", "rewind", "start", "state"} THEN \E i \in 1 .. Len(new) : new[i] \in Aheads
                                                                ELSE \A i \in 1 .. Len(new) : new[i] \notin Aheads,
         \A i \in 1 .. Len(new) : /\ ~wasPlaying => Rewinds(new[i], playing, Held')
                                  /\ new[i][1] \notin {"cross", "under"}
  PROVE  Silent'
<1>1. IF Head(stack[m]) \in Aheads THEN \E i \in 1 .. Len(new) : new[i] \in Aheads
                                   ELSE \A i \in 1 .. Len(new) : new[i] \notin Aheads
  BY AheadHead
<1>2. Handles
  BY UntouchedTriggers
<1>3. \A k : \A i \in 1 .. Len(new) : ~Fires(new[i], k)
  BY FiringKinds
<1>4. \A k \in Sustained : /\ trig'[k].valid = trig[k].valid
                           /\ trig'[k].triggered => trig[k].triggered \/ Fires(Head(stack[m]), k)
                           /\ Frees(Head(stack[m]), k) => ~trig'[k].triggered
                           /\ ~wasPlaying /\ (\E i \in 1 .. Len(new) : Fires(new[i], k)) => Freed(new, k)
  BY <1>2, <1>3 DEF Handles
<1>5. QED
  BY <1>1, <1>4, SilentPush

LEMMA SetArgument ==
  ASSUME Typed, NEW t \in Callers, At_(t, "set")
  PROVE  Arg(t, 1) \in BOOLEAN /\ Head(stack[t]) = <<"set", Arg(t, 1)>>
<1> DEFINE e == Head(stack[t])
<1>1. e \in Entries /\ e[1] = "set"
  BY FirstStep
<1>2. Arg(t, 1) = e[2]
  BY DEF Arg
<1> HIDE DEF e
<1>3. e \in {"set"} \X BOOLEAN
  BY <1>1 DEF Entries, Calls, Plain
<1>4. e[2] \in BOOLEAN /\ e = <<"set", e[2]>>
  BY <1>3
<1>5. QED
  BY <1>2, <1>4 DEF e

LEMMA NoMild == <<>> \in Stacks /\ <<>> \in Seq(Mild)
BY OpenSeqs

LEMMA SilentCalls ==
  ASSUME Typed, Silent, Call(m), playing' = playing
  PROVE  Silent'
<1>1. UNCHANGED <<trig, wasPlaying>>
  BY DEF Call, Trigger, Ended, Set, Seek, Sought, layer
<1>2. CASE Trigger(m)
  <2> DEFINE c == Arg(m, 1)
             new == Body(c) \o <<<<"triggered", c>>>>
  <2>1. At_(m, "trigger") /\ UNCHANGED <<interrupted, posted>>
    BY <1>2 DEF Trigger, history
  <2>2. c \in Names
    BY <2>1, FirstStep, TwoCallers, EntryParts DEF Arg
  <2>3. Do(m, <<>>) \/ Do(m, new)
    BY <1>2 DEF Trigger
  <2> HIDE DEF c
  <2>4. /\ <<"set", TRUE>> \in Mild /\ <<"set", FALSE>> \in Mild /\ <<"seek", 0, TRUE>> \in Mild
        /\ <<"triggered", c>> \in Mild
    BY <2>2, MildEntries
  <2>5. Body(c) \in Seq(Mild) /\ <<<<"triggered", c>>>> \in Seq(Mild)
    BY <2>2, <2>4 DEF Body, Names
  <2>6. new \in Seq(Mild)
    BY <2>5
  <2>7. new \in Seq(Quiet)
    BY <2>2, BodyType
  <2> HIDE DEF new
  <2>8. Handles
    BY <1>1, <2>1, UntouchedTriggers
  <2>9. QED
    BY <1>1, <2>1, <2>3, <2>6, <2>7, <2>8, NoMild, StackKinds, MildPush
<1>3. CASE Ended(m) \/ Sought(m)
  <2>1. PICK do \in {"triggered", "sought"} : At_(m, do)
    BY <1>3 DEF Ended, Sought
  <2>2. Do(m, <<>>) /\ UNCHANGED <<interrupted, posted>>
    BY <1>3 DEF Ended, Sought, history
  <2>3. Handles
    BY <1>1, <2>1, UntouchedTriggers
  <2>4. QED
    BY <1>1, <2>1, <2>2, <2>3, NoMild, MildPush
<1>4. CASE Set(m)
  <2>1. At_(m, "set") /\ Arg(m, 1) \in BOOLEAN
    BY <1>4, SetArgument, TwoCallers DEF Set
  <2>2. playing = Arg(m, 1)
    BY <1>4 DEF Set
  <2>3. Do(m, <<>>) /\ UNCHANGED posted
    BY <1>4, <2>2 DEF Set
  <2>4. interrupted' = interrupted
    <3>1. interrupted' = (interrupted \/ (m = MessageThread /\ playing /\ ~Arg(m, 1) /\ Walking))
      BY <1>4 DEF Set
    <3>2. interrupted \in BOOLEAN
      BY DEF Typed, Scalars
    <3>3. QED
      BY <2>2, <3>1, <3>2
  <2>5. Handles
    BY <1>1, <2>1, UntouchedTriggers
  <2>6. PICK do \in {"set"} : At_(m, do)
    BY <2>1
  <2>7. QED
    BY <1>1, <2>3, <2>4, <2>5, <2>6, NoMild, MildPush
<1>5. CASE Seek(m)
  <2>1. At_(m, "seek") /\ UNCHANGED <<interrupted, posted>> /\ time' = Arg(m, 1) /\ timeLock'.by = m
    BY <1>5 DEF Seek, Lock, Notify, m
  <2>2. Do(m, <<<<"sought">>>>) \/ Do(m, <<<<"time">>, <<"sought">>>>)
    <3>1. Do(m, <<<<"sought">>>>) \/ Notify(m, "time", <<<<"sought">>>>)
      BY <1>5 DEF Seek
    <3>2. Called("time") \o <<<<"sought">>>> = <<<<"time">>, <<"sought">>>>
      BY PairConcat DEF Called
    <3>3. QED
      BY <3>1, <3>2 DEF Notify, m
  <2> DEFINE a == <<"time">>
             b == <<"sought">>
  <2>3. a[1] = "time" /\ b[1] = "sought" /\ a \notin Aheads /\ b \notin Aheads
    BY DEF Aheads
  <2>4. a \in Entries /\ b \in Lower /\ b \in Mild
    BY QuietEntries, MildEntries
  <2>5. <<b>> \in Stacks /\ <<a, b>> \in Stacks /\ <<b>> \in Seq(Mild)
    BY <2>4, StackKinds
  <2>6. ~wasPlaying => Rewinds(a, playing, Held') /\ Rewinds(b, playing, Held')
    <3>1. ASSUME ~wasPlaying, playing PROVE Held'
      <4>1. 1 \in 1 .. Len(stack[m]) /\ stack[m][1][1] = "seek" /\ stack[m][1][2] = Arg(m, 1)
        BY <2>1, FirstStep, TwoCallers DEF Arg
      <4>2. Rewinds(stack[m][1], playing, Held)
        BY <3>1, <4>1 DEF Silent, Rewinding
      <4>3. Arg(m, 1) = 0
        BY <3>1, <4>1, <4>2 DEF Rewinds
      <4>4. QED
        BY <2>1, <4>3 DEF Held, m
    <3>2. QED
      BY <2>3, <3>1 DEF Rewinds
  <2>7. Handles
    BY <1>1, <2>1, UntouchedTriggers
  <2>8. Do(m, <<b>>) \/ Do(m, <<a, b>>)
    BY <2>2
  <2> HIDE DEF a, b
  <2>9. PICK do \in {"seek"} : At_(m, do)
    BY <2>1
  <2>10. interrupted' = interrupted /\ posted' = posted
    BY <2>1
  <2>11. CASE Do(m, <<b>>)
    BY <1>1, <2>5, <2>7, <2>9, <2>10, <2>11, MildPush
  <2>12. CASE Do(m, <<a, b>>)
    <3>1. Orderly(<<a, b>>)
      BY <2>3 DEF Orderly
    <3>2. Followed(<<a, b>>, Aheads, Entries \ Walks)
      BY <2>3 DEF Followed
    <3> DEFINE new == <<a, b>>
    <3>3. \A i \in 1 .. Len(new) : /\ ~wasPlaying => Rewinds(new[i], playing, Held')
                                   /\ new[i][1] \notin {"cross", "under"} /\ new[i] \notin Aheads
      BY <2>3, <2>6
    <3>4. Do(m, new) /\ new \in Stacks /\ Orderly(new) /\ Followed(new, Aheads, Entries \ Walks)
      BY <2>5, <2>12, <3>1, <3>2
    <3> HIDE DEF new
    <3>5. QED
      BY <1>1, <2>9, <2>10, <3>3, <3>4, SilentStep
  <2>13. QED
    BY <2>8, <2>11, <2>12
<1>6. QED
  BY <1>2, <1>3, <1>4, <1>5 DEF Call

LEMMA AheadPush ==
  ASSUME Typed, Silent, NEW do \in {"exit", "join", "rewind", "start"}, At_(m, do), NEW new \in Stacks, Do(m, new),
         playing' = playing, UNCHANGED <<trig, wasPlaying, interrupted, posted>>,
         \A i \in 1 .. Len(new) : /\ new[i][1] \in {"join", "rewind", "start", "seek", "listen", "state", "unlisten"}
                                  /\ new[i][1] = "seek" => new[i][2] = 0,
         \E i \in 1 .. Len(new) : new[i] \in Aheads
  PROVE  Silent'
<1>1. new \in Seq(Entries)
  BY StackKinds
<1>2. ASSUME NEW i \in 1 .. Len(new)
      PROVE  /\ new[i] \in Entries \ Walks /\ new[i][1] \notin {"time", "changed", "cross", "under"}
             /\ Rewinds(new[i], playing, Held')
  BY <1>1 DEF Walks, Rewinds
<1>3. Orderly(new)
  BY <1>2 DEF Orderly
<1>4. Followed(new, Aheads, Entries \ Walks)
  BY <1>2 DEF Followed
<1>5. do \notin {"cross", "release", "listen"}
  OBVIOUS
<1>6. posted' = posted
  OBVIOUS
<1>7. QED
  BY <1>2, <1>3, <1>4, <1>5, <1>6, SilentStep

LEMMA SilentRestarts ==
  ASSUME Typed, Silent, Exit \/ Join \/ Rewind \/ Start
  PROVE  Silent'
<1>1. PICK do \in {"exit", "join", "rewind", "start"} : At_(m, do)
  BY DEF Exit, Join, Rewind, Start
<1>2. playing' = playing /\ UNCHANGED <<trig, wasPlaying, interrupted, posted>>
  BY DEF Exit, Join, Rewind, Start, layer, history
<1>3. \E new \in Stacks :
        /\ Do(m, new)
        /\ \A i \in 1 .. Len(new) : /\ new[i][1] \in {"join", "rewind", "start", "seek", "listen", "state", "unlisten"}
                                    /\ new[i][1] = "seek" => new[i][2] = 0
        /\ \E i \in 1 .. Len(new) : new[i] \in Aheads
  <2>1. CASE Exit \/ Join
    <3>1. PICK e \in {<<"join">>, <<"rewind">>} : Do(m, <<e>>)
      BY <2>1 DEF Exit, Join
    <3>2. e \in Entries /\ e[1] \in {"join", "rewind"}
      <4>1. <<"join">>[1] = "join" /\ <<"rewind">>[1] = "rewind"
        OBVIOUS
      <4>2. e[1] = "join" \/ e[1] = "rewind"
        BY <3>1, <4>1
      <4>3. e \in Entries
        BY <3>1, QuietEntries
      <4>4. QED
        BY <4>2, <4>3
    <3>3. <<e>> \in Stacks /\ e \in Aheads
      BY <3>2, StackKinds DEF Aheads
    <3>4. Len(<<e>>) = 1 /\ <<e>>[1] = e
      OBVIOUS
    <3>5. QED
      BY <3>1, <3>2, <3>3, <3>4
  <2>2. CASE Rewind
    <3>1. playing \in BOOLEAN
      BY DEF Typed, Scalars
    <3> DEFINE a == <<"seek", 0, TRUE>>
               b == <<"start", playing>>
    <3>2. /\ a \in Entries /\ b \in Entries /\ b \in Lower
          /\ a[1] = "seek" /\ a[2] = 0 /\ b[1] = "start"
      BY <3>1, Sizes, QuietEntries
    <3>3. Do(m, <<b>>) \/ Do(m, <<a, b>>)
      <4>1. <<>> \o <<b>> = <<b>> /\ <<a>> \o <<b>> = <<a, b>>
        BY AloneConcat, PairConcat
      <4>2. QED
        BY <2>2, <4>1 DEF Rewind
    <3> HIDE DEF a, b
    <3>4. b \in Aheads
      BY <3>2 DEF Aheads
    <3>5. <<b>> \in Stacks /\ <<a, b>> \in Stacks
      BY <3>2, StackKinds
    <3>6. PICK new \in {<<b>>, <<a, b>>} : Do(m, new)
      BY <3>3
    <3>7. \A i \in 1 .. Len(new) : /\ new[i][1] \in {"start", "seek"}
                                   /\ new[i][1] = "seek" => new[i][2] = 0
      BY <3>2, <3>6
    <3>8. \E i \in 1 .. Len(new) : new[i] \in Aheads
      <4>1. Len(<<b>>) = 1 /\ <<b>>[1] = b /\ Len(<<a, b>>) = 2 /\ <<a, b>>[2] = b
        OBVIOUS
      <4>2. QED
        BY <3>4, <3>6, <4>1
    <3>9. QED
      BY <3>5, <3>6, <3>7, <3>8
  <2>3. CASE Start
    <3> DEFINE a == <<"listen">>
               b == <<"state">>
               c == <<"unlisten">>
    <3>1. /\ a \in Entries /\ b \in Lower /\ c \in Lower /\ b \in Entries
          /\ a[1] = "listen" /\ b[1] = "state" /\ c[1] = "unlisten"
      BY QuietEntries
    <3>2. Do(m, <<a, b, c>>)
      BY <2>3 DEF Start
    <3> HIDE DEF a, b, c
    <3> DEFINE new == <<a, b, c>>
    <3>3. new \in Stacks /\ b \in Aheads
      BY <3>1, StackKinds DEF Aheads
    <3>4. \A i \in 1 .. Len(new) : new[i][1] \in {"listen", "state", "unlisten"}
      BY <3>1
    <3>5. 2 \in 1 .. Len(new) /\ new[2] = b
      OBVIOUS
    <3> HIDE DEF new
    <3>6. \A i \in 1 .. Len(new) : /\ new[i][1] \in {"join", "rewind", "start", "seek", "listen", "state", "unlisten"}
                                   /\ new[i][1] = "seek" => new[i][2] = 0
      BY <3>4
    <3>7. QED
      BY <3>2, <3>3, <3>5, <3>6 DEF new
  <2>4. QED
    BY <2>1, <2>2, <2>3
<1>4. QED
  BY <1>1, <1>2, <1>3, AheadPush

LEMMA SilentTimes ==
  ASSUME Typed, Silent, QuietSeeks, Listen \/ TimeChanged \/ Timed \/ Clear \/ ForceUpdate
  PROVE  Silent'
<1>1. playing' = playing /\ UNCHANGED <<wasPlaying, interrupted>> /\ posted' = posted
  BY DEF Listen, TimeChanged, Timed, Clear, ForceUpdate, layer, history
<1>2. CASE Listen \/ Timed \/ Clear
  <2>1. PICK do \in {"listen", "unlisten", "timed", "clear"} : At_(m, do)
    BY <1>2 DEF Listen, Timed, Clear
  <2>2. Do(m, <<>>)
    BY <1>2 DEF Listen, Timed, Clear
  <2>3. Handles
    <3>1. CASE Clear
      <4>1. At_(m, "clear") /\ Head(stack[m])[1] = "clear"
        BY <3>1 DEF Clear, At_
      <4>2. \A k : ~Frees(Head(stack[m]), k)
        BY <4>1, FiringKinds
      <4>3. ASSUME NEW k \in Sustained PROVE trig'[k].valid = trig[k].valid /\ ~trig'[k].triggered
        <5>1. k \in Triggers /\ trig[k] \in States
          BY DEF Sustained, Bars, Typed, Scalars
        <5>2. trig'[k] = [trig[k] EXCEPT !.triggered = FALSE]
          BY <3>1, <5>1 DEF Clear
        <5>3. QED
          BY <5>1, <5>2 DEF States
      <4>4. QED
        BY <4>2, <4>3 DEF Handles
    <3>2. CASE Listen \/ Timed
      <4>1. trig' = trig
        BY <3>2 DEF Listen, Timed, layer
      <4>2. QED
        BY <2>1, <4>1, UntouchedTriggers
    <3>3. QED
      BY <1>2, <3>1, <3>2
  <2>4. do = "listen" => time' = time /\ timeLock' = timeLock
    BY <1>2, <2>1 DEF Listen, Timed, Clear, clock, At_
  <2>5. QED
    BY <1>1, <2>1, <2>2, <2>3, <2>4, NoMild, MildPush
<1>3. CASE TimeChanged
  <2>1. prev \in 0 .. Total /\ Evaluates \in BOOLEAN /\ playing \in BOOLEAN
    BY EvaluatesType DEF Typed, Scalars
  <2>2. ~wasPlaying /\ (playing \/ Evaluates) => Held
    <3>1. Evaluates => playing
      <4>1. CASE EvaluateOnSeek = "playing"
        BY <4>1, Zenon DEF Evaluates
      <4>2. CASE EvaluateOnSeek = "never"
        BY <4>2 DEF Evaluates
      <4>3. QED
        BY <4>1, <4>2 DEF QuietSeeks
    <3>2. 1 \in 1 .. Len(stack[m]) /\ stack[m][1][1] = "time"
      BY <1>3, FirstStep, TwoCallers DEF TimeChanged
    <3>3. ~wasPlaying => Rewinds(stack[m][1], playing, Held)
      BY <3>2 DEF Silent, Rewinding
    <3>4. QED
      BY <3>1, <3>2, <3>3 DEF Rewinds
  <2>3. Held' = Held
    BY <1>3 DEF TimeChanged, Held, clock, m
  <2> DEFINE a == <<"listen">>
             b == <<"changed", prev, Evaluates>>
             c == <<"unlisten">>
             d == <<"timed">>
  <2>4. a \in Entries /\ b \in Lower /\ c \in Lower /\ d \in Lower
    BY <2>1, QuietEntries
  <2>5. /\ a[1] = "listen" /\ b[1] = "changed" /\ c[1] = "unlisten" /\ d[1] = "timed"
        /\ b[3] = Evaluates
    OBVIOUS
  <2>6. Do(m, <<a, b, c, d>>)
    BY <1>3 DEF TimeChanged
  <2> HIDE DEF a, b, c, d
  <2>7. /\ a \notin Aheads /\ b \notin Aheads /\ c \notin Aheads /\ d \notin Aheads
    BY <2>5 DEF Aheads
  <2>8. ~wasPlaying => /\ Rewinds(a, playing, Held') /\ Rewinds(b, playing, Held')
                       /\ Rewinds(c, playing, Held') /\ Rewinds(d, playing, Held')
    BY <2>2, <2>3, <2>5 DEF Rewinds
  <2> DEFINE new == <<a, b, c, d>>
  <2>9. new \in Stacks
    BY <2>4, StackKinds
  <2>10. Len(new) = 4 /\ new[1] = a /\ new[2] = b /\ new[3] = c /\ new[4] = d
    OBVIOUS
  <2>11. Do(m, new)
    BY <2>6
  <2> HIDE DEF new
  <2>12. \A i \in 1 .. Len(new) : i = 1 \/ i = 2 \/ i = 3 \/ i = 4
    BY <2>10
  <2>13. Orderly(new)
    BY <2>5, <2>10, <2>12 DEF Orderly
  <2>14. \A i \in 1 .. Len(new) : /\ ~wasPlaying => Rewinds(new[i], playing, Held')
                                  /\ new[i][1] \notin {"cross", "under"} /\ new[i] \notin Aheads
    BY <2>5, <2>7, <2>8, <2>10, <2>12
  <2>15. Followed(new, Aheads, Entries \ Walks)
    BY <2>14 DEF Followed
  <2>16. PICK do \in {"time"} : At_(m, do)
    BY <1>3 DEF TimeChanged
  <2>17. trig' = trig
    BY <1>3 DEF TimeChanged, layer
  <2>18. QED
    BY <1>1, <2>9, <2>11, <2>13, <2>14, <2>15, <2>16, <2>17, SilentStep
<1>4. CASE ForceUpdate
  <2>1. time \in 0 .. Total
    BY DEF Typed, Scalars
  <2> DEFINE e == <<"seek", time, FALSE>>
  <2>2. e \in Entries /\ e[1] = "seek" /\ Do(m, <<e>>)
    BY <1>4, <2>1, QuietEntries DEF ForceUpdate
  <2> HIDE DEF e
  <2>3. <<e>> \in Stacks /\ e \notin Aheads
    BY <2>2, StackKinds DEF Aheads
  <2>4. ~wasPlaying => Rewinds(e, playing, Held')
    <3>1. 1 \in 1 .. Len(stack[m]) /\ stack[m][1][1] = "force"
      BY <1>4, FirstStep, TwoCallers DEF ForceUpdate
    <3>2. ~wasPlaying => Rewinds(stack[m][1], playing, Held)
      BY <3>1 DEF Silent, Rewinding
    <3>3. QED
      BY <2>2, <3>1, <3>2 DEF Rewinds
  <2> DEFINE new == <<e>>
  <2>5. Len(new) = 1 /\ new[1] = e /\ new \in Stacks /\ Do(m, new)
    BY <2>2, <2>3
  <2> HIDE DEF new
  <2>6. \A i \in 1 .. Len(new) : i = 1
    BY <2>5
  <2>7. Orderly(new) /\ Followed(new, Aheads, Entries \ Walks)
    BY <2>6 DEF Orderly, Followed
  <2>8. \A i \in 1 .. Len(new) : /\ ~wasPlaying => Rewinds(new[i], playing, Held')
                                 /\ new[i][1] \notin {"cross", "under"} /\ new[i] \notin Aheads
    BY <2>2, <2>3, <2>4, <2>5, <2>6
  <2>9. PICK do \in {"force"} : At_(m, do)
    BY <1>4 DEF ForceUpdate
  <2>10. trig' = trig
    BY <1>4 DEF ForceUpdate, layer
  <2>11. QED
    BY <1>1, <2>5, <2>7, <2>8, <2>9, <2>10, SilentStep
<1>5. QED
  BY <1>2, <1>3, <1>4

LEMMA FreesOwn ==
  ASSUME NEW e, NEW k, Frees(e, k)
  PROVE  e[2] = k
<1>1. CASE e = <<"release", k>>
  BY <1>1
<1>2. ASSUME NEW b \in BOOLEAN, e = <<"cross", k, FALSE, b>> PROVE e[2] = k
  BY <1>2
<1>3. QED
  BY <1>1, <1>2 DEF Frees

\* Only the conditions change whether they are valid.
LEMMA ValidKept ==
  ASSUME NEW k \in Triggers, NEW r \in States
  PROVE  /\ Updated(k, r).valid = r.valid /\ Begun(r).valid = r.valid /\ Released(k, r).valid = r.valid
         /\ \A b : [r EXCEPT !.triggered = b].valid = r.valid /\ [r EXCEPT !.inside = b].valid = r.valid
<1>1. \A b, c, d : /\ [r EXCEPT !.triggered = b].valid = r.valid /\ [r EXCEPT !.inside = b].valid = r.valid
                   /\ [r EXCEPT !.can = b].valid = r.valid /\ [r EXCEPT !.can = b, !.done = c].valid = r.valid
                   /\ [r EXCEPT !.triggered = b, !.sounding = c].valid = r.valid
  BY DEF States
<1>2. ASSUME NEW s \in States PROVE Updated(k, s).valid = s.valid
  BY <1>2 DEF Updated, States
<1>3. Begun(r).valid = r.valid
  BY <1>1 DEF Begun
<1>4. Released(k, r).valid = r.valid
  <2> DEFINE s == [r EXCEPT !.triggered = FALSE, !.sounding = r.sounding - 1, !.done = TRUE]
  <2>1. s \in States /\ s.valid = r.valid
    <3>1. r.sounding - 1 \in Int
      BY DEF States
    <3>2. QED
      BY <3>1 DEF States
  <2>2. Released(k, r) = IF r.triggered THEN Updated(k, s) ELSE r
    BY DEF Released
  <2> HIDE DEF s
  <2>3. QED
    BY <1>2, <2>1, <2>2
<1>5. QED
  BY <1>1, <1>2, <1>3, <1>4

LEMMA ValidHandled ==
  ASSUME Typed, NEW do \in TriggerSteps, At_(m, do), NEW k \in Triggers, k = Arg(m, 1)
  PROVE  Handled(do, k).valid = trig[k].valid
<1> DEFINE r == trig[k]
<1>1. r \in States
  BY DEF Typed, Scalars
<1>2. CASE do = "cross"
  <2> DEFINE on == Arg(m, 2)
             b == Arg(m, 3)
             s == [r EXCEPT !.inside = on]
  <2>1. on \in BOOLEAN
    BY <1>2, FirstStep, TwoCallers, EntryParts DEF Arg
  <2>2. Handled(do, k) = IF on THEN Begun(s) ELSE Exited(k, s, b)
    BY <1>2 DEF Handled, Crossed
  <2>3. s \in States /\ s.valid = r.valid
    BY <1>1, <2>1 DEF States
  <2> HIDE DEF s
  <2>4. Begun(s).valid = s.valid /\ Released(k, s).valid = s.valid
    BY <2>3, ValidKept
  <2>5. \A c, d : [s EXCEPT !.triggered = c].valid = s.valid
                  /\ [s EXCEPT !.triggered = c, !.sounding = d].valid = s.valid
    BY <2>3 DEF States
  <2>6. Exited(k, s, b).valid = s.valid
    <3> DEFINE action == ExitAction(k, s, b)
               other == Options[k].invalidExit
               more == s.sounding + (IF other \in {"true", "both"} THEN 1 ELSE 0)
                                  - (IF other \in {"false", "both"} THEN 1 ELSE 0)
    <3>1. \/ Exited(k, s, b) = Released(k, s)
          \/ Exited(k, s, b) = [s EXCEPT !.triggered = FALSE]
          \/ Exited(k, s, b) = [s EXCEPT !.triggered = FALSE, !.sounding = more]
          \/ Exited(k, s, b) = s
      BY DEF Exited
    <3> HIDE DEF action, other, more
    <3>2. [s EXCEPT !.triggered = FALSE].valid = s.valid
          /\ [s EXCEPT !.triggered = FALSE, !.sounding = more].valid = s.valid
      BY <2>5
    <3>3. QED
      BY <2>4, <3>1, <3>2
  <2>7. QED
    BY <2>2, <2>3, <2>4, <2>6
<1>3. CASE do = "reset"
  <2>1. [r EXCEPT !.done = FALSE] \in States /\ [r EXCEPT !.done = FALSE].valid = r.valid
    BY <1>1 DEF States
  <2>2. QED
    BY <1>3, <2>1, ValidKept DEF Handled
<1>4. CASE do = "release" \/ do = "invalid"
  <2>1. Handled(do, k) = Released(k, r) \/ Handled(do, k) = r
    BY <1>4 DEF Handled
  <2>2. QED
    BY <1>1, <2>1, ValidKept
<1>5. CASE do = "under"
  <2> DEFINE s == IF AnyTime(k) \/ ~r.inside THEN Begun(r) ELSE r
  <2>1. s \in States /\ s.valid = r.valid
    BY <1>1, RecordTypes, ValidKept
  <2>2. Handled(do, k) = [s EXCEPT !.inside = TRUE]
    BY <1>5 DEF Handled, Under
  <2> HIDE DEF s
  <2>3. [s EXCEPT !.inside = TRUE].valid = s.valid
    BY <2>1, ValidKept
  <2>4. QED
    BY <2>1, <2>2, <2>3
<1>6. QED
  BY <1>2, <1>3, <1>4, <1>5 DEF TriggerSteps

LEMMA SilentTriggers ==
  ASSUME Typed, Silent, Sounding, NoOnce, Cross \/ Reset \/ Release \/ EnterUnder \/ Invalid
  PROVE  Silent'
<1>1. PICK do \in TriggerSteps, k \in Triggers :
         /\ At_(m, do) /\ k = Arg(m, 1) /\ Becomes(k, Handled(do, k), After(do, k))
         /\ Handled(do, k) \in States /\ After(do, k) \in Seq(Quiet)
  BY TriggerHandlers
<1> DEFINE r == Handled(do, k)
           steps == After(do, k)
<1>2. Fits(k, trig[k])
  BY DEF Sounding
<1>3. r.can = trig[k].can
  <2>1. Fits(k, r)
    BY <1>1, <1>2, FittingHandled
  <2>2. r.valid = trig[k].valid
    BY <1>1, ValidHandled
  <2>3. QED
    BY <1>2, <2>1, <2>2 DEF Fits
<1>4. k \in Sustained => /\ r.valid = trig[k].valid
                         /\ r.triggered => trig[k].triggered \/ Fires(Head(stack[m]), k)
                         /\ Frees(Head(stack[m]), k) => ~r.triggered
  BY <1>1, <1>2, SustainedHandled
<1>5. steps \in Seq(Mild)
  <2>1. <<"reset", k>> \in Mild
    BY MildEntries
  <2>2. QED
    BY <2>1 DEF After
<1>6. Becomes(k, r, steps) /\ r \in States /\ steps \in Seq(Quiet)
  BY <1>1
<1> HIDE DEF r, steps
<1>7. trig' = [trig EXCEPT ![k] = r] /\ playing' = playing /\ UNCHANGED <<wasPlaying, interrupted, posted>>
  BY <1>6 DEF Becomes, history
<1>8. Do(m, Pushes(k, r, steps))
  BY <1>6 DEF Becomes, Pushes
<1>9. Pushes(k, r, steps) \in Seq(Mild)
  <2>1. Gives(k, r) \in Seq({"trigger"} \X Names)
    BY GivesType
  <2>2. {"trigger"} \X Names \subseteq Mild
    <3>1. ASSUME NEW e \in {"trigger"} \X Names PROVE e \in Mild
      <4>1. PICK c \in Names : e = <<"trigger", c>>
        BY <3>1
      <4>2. QED
        BY <4>1, MildEntries
    <3>2. QED
      BY <3>1
  <2>3. Gives(k, r) \in Seq(Mild)
    BY <2>1, <2>2
  <2>4. Pushes(k, r, steps) = Gives(k, r) \o <<>> \o steps
    BY <1>3 DEF Pushes
  <2>5. Gives(k, r) \o <<>> \in Seq(Mild)
    BY <2>3
  <2>6. QED
    BY <1>5, <2>4, <2>5
<1>10. Pushes(k, r, steps) \in Stacks
  BY <1>6, PushesType, StackKinds
<1>11. Handles
  <2>1. ASSUME NEW l \in Sustained
        PROVE  /\ trig'[l].valid = trig[l].valid
               /\ trig'[l].triggered => trig[l].triggered \/ Fires(Head(stack[m]), l)
               /\ Frees(Head(stack[m]), l) => ~trig'[l].triggered
    <3>1. l \in Triggers
      BY DEF Sustained, Bars
    <3>2. trig'[l] = IF l = k THEN r ELSE trig[l]
      BY <1>7, <3>1 DEF Typed, Scalars
    <3>3. l # k => ~Frees(Head(stack[m]), l)
      <4>1. Head(stack[m])[2] = k
        BY <1>1 DEF Arg
      <4>2. QED
        BY <4>1, FreesOwn
    <3>4. QED
      BY <1>4, <3>2, <3>3
  <2>2. QED
    BY <2>1 DEF Handles
<1>12. do \notin {"exit", "join", "rewind", "start", "state", "listen"}
  BY DEF TriggerSteps
<1>13. posted' = posted
  BY <1>7
<1>14. QED
  BY <1>1, <1>7, <1>8, <1>9, <1>10, <1>11, <1>12, <1>13, MildPush

\* What the message thread is given when its stack is empty: the triggers knew.
LEMMA SilentGiven ==
  ASSUME Typed, Silent, stack[m] = <<>>, NEW new \in Stacks, stack' = [stack EXCEPT ![m] = new],
         playing' = playing, wasPlaying' = wasPlaying, interrupted' = interrupted,
         \A i \in 1 .. Len(posted) : posted[i] = "playing" =>
             \/ \E j \in 1 .. Len(posted') : posted'[j] = "playing"
             \/ \E j \in 1 .. Len(new) : new[j] \in Aheads,
         \A i \in 1 .. Len(new) : /\ new[i][1] \notin {"cross", "under", "changed"}
                                  /\ new[i][1] = "time" => i = 1,
         \A k \in Sustained : trig'[k].triggered => trig[k].triggered
  PROVE  Silent'
<1>1. stack'[m] = new /\ new \in Seq(Entries)
  BY TwoCallers, StackKinds DEF Typed
<1>2. \A i \in 1 .. Len(stack[m]) : FALSE
  BY EmptySeq
<1>3. ~Ahead
  BY <1>2 DEF Ahead
<1>4. playing => wasPlaying
  BY <1>3 DEF Silent, Informed
<1>5. Informed'
  <2>1. (\E j \in 1 .. Len(new) : new[j] \in Aheads) => Ahead'
    BY <1>1 DEF Ahead, m
  <2>2. ~playing /\ wasPlaying => \/ \E j \in 1 .. Len(posted') : posted'[j] = "playing"
                                  \/ \E j \in 1 .. Len(new) : new[j] \in Aheads
    BY <1>3 DEF Silent, Informed
  <2>3. QED
    BY <1>4, <2>1, <2>2 DEF Informed
<1>6. Orderly(stack[m])'
  <2>1. Orderly(new)
    BY DEF Orderly
  <2>2. QED
    BY <1>1, <2>1 DEF Orderly, m
<1>7. Rewinding'
  <2>1. ASSUME ~wasPlaying, NEW i \in 1 .. Len(new) PROVE Rewinds(new[i], playing, Held')
    BY <1>4, <2>1 DEF Rewinds
  <2>2. QED
    BY <1>1, <2>1 DEF Rewinding, m
<1>8. Apart'
  <2>1. \A i \in 1 .. Len(new) : new[i] \in Entries \ Walks
    BY <1>1 DEF Walks
  <2>2. Followed(new, Aheads, Entries \ Walks)
    BY <2>1 DEF Followed
  <2>3. QED
    BY <1>1, <2>2 DEF Apart, m
<1>9. Balanced'
  <2>1. ASSUME ~interrupted, ~wasPlaying, NEW k \in Sustained PROVE ~Endangered(k)'
    <3>1. ~Freed(stack[m], k)
      BY <1>2 DEF Freed
    <3>2. ~trig[k].triggered
      BY <2>1, <3>1 DEF Silent, Balanced, Endangered
    <3>3. \A e : Fires(e, k)' => e[1] \in {"cross", "under"}
      <4>1. ASSUME NEW e, e = <<"under", k>> \/ \E b \in BOOLEAN : e = <<"cross", k, TRUE, b>>
            PROVE  e[1] \in {"cross", "under"}
        <5>1. e = <<"under", k>> => e[1] = "under"
          OBVIOUS
        <5>2. ASSUME NEW b \in BOOLEAN, e = <<"cross", k, TRUE, b>> PROVE e[1] = "cross"
          BY <5>2
        <5>3. QED
          BY <4>1, <5>1, <5>2
      <4>2. QED
        BY <4>1 DEF Fires
    <3>4. QED
      BY <1>1, <3>2, <3>3 DEF Endangered, m
  <2>2. QED
    BY <2>1 DEF Balanced
<1>10. QED
  BY <1>5, <1>6, <1>7, <1>8, <1>9 DEF Silent

\* Of these the stack that is given has only the first.
Still == {e \in Entries : e[1] \notin {"cross", "under", "changed", "time"}}

LEMMA StillSeqs ==
  /\ \A q \in Seq(Still) : \A i \in 1 .. Len(q) : q[i][1] \notin {"cross", "under", "changed", "time"}
  /\ \A q, r \in Seq(Still) : q \o r \in Seq(Still)
  /\ {<<"listen">>, <<"unlisten">>, <<"force">>, <<"state">>, <<"exit">>, <<"clear">>} \subseteq Still
  /\ Mild \subseteq Still /\ Seq(Mild) \subseteq Seq(Still)
  /\ ReleaseAll \in Seq(Still)
<1>1. \A q \in Seq(Still) : \A i \in 1 .. Len(q) : q[i][1] \notin {"cross", "under", "changed", "time"}
  <2>1. ASSUME NEW q \in Seq(Still), NEW i \in 1 .. Len(q) PROVE q[i] \in Still
    OBVIOUS
  <2>2. QED
    BY <2>1 DEF Still
<1>2. \A q, r \in Seq(Still) : q \o r \in Seq(Still)
  OBVIOUS
<1>3. {<<"listen">>, <<"unlisten">>, <<"force">>, <<"state">>, <<"exit">>, <<"clear">>} \subseteq Still
  BY QuietEntries DEF Still
<1>4. Mild \subseteq Still
  BY DEF Mild, Still
<1>5. Seq(Mild) \subseteq Seq(Still)
  BY <1>4
<1>6. ReleaseAll \in Seq(Still)
  <2>1. {"release"} \X Triggers \subseteq Still
    <3>1. ASSUME NEW e \in {"release"} \X Triggers PROVE e \in Still
      <4>1. PICK k \in Triggers : e = <<"release", k>>
        BY <3>1
      <4>2. QED
        BY <1>4, <4>1, MildEntries
    <3>2. QED
      BY <3>1
  <2>2. Releases \in Seq(Still)
    BY <2>1, ReleasesType
  <2>3. <<<<"clear">>>> \in Seq(Still)
    BY <1>3
  <2>4. QED
    BY <1>2, <2>2, <2>3 DEF ReleaseAll
<1>7. QED
  BY <1>1, <1>2, <1>3, <1>4, <1>5, <1>6

LEMMA SilentPosted ==
  ASSUME Typed, Silent, HandlePosted
  PROVE  Silent'
<1>1. stack[m] = <<>> /\ posted # <<>> /\ posted \in Seq({"time", "playing", "loop"}) /\ posted' = Tail(posted)
  BY DEF HandlePosted, Typed, Scalars
<1>2. /\ Head(posted) = posted[1] /\ Head(posted) \in {"time", "playing", "loop"}
      /\ Len(posted) \in Nat /\ Len(posted) > 0 /\ Len(Tail(posted)) = Len(posted) - 1
      /\ \A i \in 1 .. Len(Tail(posted)) : Tail(posted)[i] = posted[i + 1]
  BY <1>1, HeadTailProperties, EmptySeq
<1> DEFINE new == IF Head(posted) = "loop" THEN ReleaseAll ELSE Called(Head(posted))
<1>3. new \in Stacks
  <2>1. <<"time">> \in Entries /\ <<"exit">> \in Entries
    BY QuietEntries
  <2>2. <<<<"time">>>> \in Stacks /\ <<<<"exit">>>> \in Stacks
    BY <2>1, StackKinds
  <2>3. ReleaseAll \in Stacks
    BY ReleasesType, StackKinds
  <2>4. QED
    BY <2>2, <2>3 DEF Called
<1>4. \A i \in 1 .. Len(new) : /\ new[i][1] \notin {"cross", "under", "changed"}
                               /\ new[i][1] = "time" => i = 1
  <2>1. CASE Head(posted) = "loop"
    BY <2>1, StillSeqs
  <2>2. CASE Head(posted) = "time"
    <3>1. new = <<<<"time">>>>
      BY <2>2 DEF Called
    <3> HIDE DEF new
    <3>2. \A i \in 1 .. Len(new) : i = 1
      BY <3>1
    <3>3. new[1][1] = "time"
      BY <3>1
    <3>4. QED
      BY <3>2, <3>3
  <2>3. CASE Head(posted) = "playing"
    <3>1. new = <<<<"exit">>>>
      BY <2>3 DEF Called
    <3> HIDE DEF new
    <3>2. \A i \in 1 .. Len(new) : i = 1
      BY <3>1
    <3>3. new[1][1] = "exit"
      BY <3>1
    <3>4. QED
      BY <3>2, <3>3
  <2>4. QED
    BY <1>2, <2>1, <2>2, <2>3
<1>5. ASSUME NEW i \in 1 .. Len(posted), posted[i] = "playing"
      PROVE  \/ \E j \in 1 .. Len(posted') : posted'[j] = "playing"
             \/ \E j \in 1 .. Len(new) : new[j] \in Aheads
  <2>1. CASE i = 1
    <3>1. new = <<<<"exit">>>>
      BY <1>2, <1>5, <2>1 DEF Called
    <3>2. <<"exit">> \in Aheads
      BY QuietEntries DEF Aheads
    <3> HIDE DEF new
    <3>3. Len(new) = 1 /\ new[1] = <<"exit">>
      BY <3>1
    <3>4. QED
      BY <3>2, <3>3
  <2>2. CASE i # 1
    <3> DEFINE j == i - 1
    <3>1. j \in 1 .. Len(Tail(posted)) /\ j + 1 = i
      BY <1>2, <2>2
    <3> HIDE DEF j
    <3>2. posted'[j] = "playing" /\ j \in 1 .. Len(posted')
      BY <1>1, <1>2, <1>5, <3>1
    <3>3. QED
      BY <3>2
  <2>3. QED
    BY <2>1, <2>2
<1>6. stack' = [stack EXCEPT ![m] = new]
  BY DEF HandlePosted
<1>7. trig' = trig /\ playing' = playing /\ wasPlaying' = wasPlaying /\ interrupted' = interrupted
  BY DEF HandlePosted, layer, history
<1> HIDE DEF new
<1>8. QED
  BY <1>1, <1>3, <1>4, <1>5, <1>6, <1>7, SilentGiven

LEMMA SilentEdits ==
  ASSUME Typed, Silent, Command(m) \/ ChangeSpeed \/ ChangeCondition
  PROVE  Silent'
<1>1. /\ stack[m] = <<>> /\ posted' = posted /\ playing' = playing /\ wasPlaying' = wasPlaying
      /\ interrupted' = interrupted
  BY DEF Command, Give, ChangeSpeed, ChangeCondition, layer
<1>2. \A k \in Sustained : trig'[k].triggered => trig[k].triggered
  <2>1. CASE Command(m) \/ ChangeSpeed
    <3>1. trig' = trig
      BY <2>1 DEF Command, ChangeSpeed, layer
    <3>2. QED
      BY <3>1
  <2>2. CASE ChangeCondition
    <3>1. PICK k \in Triggers : trig' = [trig EXCEPT ![k] = Updated(k, [trig[k] EXCEPT !.valid = ~@])]
      BY <2>2 DEF ChangeCondition
    <3>2. trig \in [Triggers -> States] /\ \A l \in Sustained : l \in Triggers
      BY DEF Typed, Scalars, Sustained, Bars
    <3> DEFINE r == [trig[k] EXCEPT !.valid = ~@]
    <3>3. r \in States /\ r.triggered = trig[k].triggered
      BY <3>2 DEF States
    <3>4. trig' = [trig EXCEPT ![k] = Updated(k, r)]
      BY <3>1
    <3> HIDE DEF r
    <3>5. Updated(k, r).triggered = r.triggered
      BY <3>3 DEF Updated, States
    <3>6. QED
      BY <3>2, <3>3, <3>4, <3>5
  <2>3. QED
    BY <2>1, <2>2
<1>3. \E new \in Stacks : new \in Seq(Still) /\ stack' = [stack EXCEPT ![m] = new]
  <2>1. CASE Command(m)
    <3>1. PICK new \in Seq(Quiet) :
            /\ Give(m, new)
            /\ \/ \E v \in 0 .. Total : new = <<<<"seek", v, TRUE>>>>
               \/ \E c \in Commands[m] : c \in Seq(Names) /\ new = [i \in DOMAIN c |-> <<"trigger", c[i]>>]
      BY <2>1, CommandSteps, TwoCallers
    <3>2. ASSUME NEW v \in 0 .. Total, new = <<<<"seek", v, TRUE>>>> PROVE new \in Seq(Still)
      <4>1. <<"seek", v, TRUE>> \in Still
        BY QuietEntries DEF Still
      <4>2. QED
        BY <3>2, <4>1
    <3>3. ASSUME NEW c \in Seq(Names), new = [i \in DOMAIN c |-> <<"trigger", c[i]>>] PROVE new \in Seq(Still)
      <4>1. ASSUME NEW n \in Names PROVE <<"trigger", n>> \in Still
        <5>1. <<"trigger", n>> \in Mild
          BY MildEntries
        <5>2. QED
          BY <5>1, StillSeqs
      <4>2. QED
        BY <3>3, <4>1
    <3>4. new \in Seq(Still) /\ new \in Stacks
      BY <3>1, <3>2, <3>3, StackKinds
    <3>5. QED
      BY <3>1, <3>4 DEF Give
  <2>2. CASE ChangeSpeed
    <3> DEFINE a == <<<<"listen">>>>
               b == <<<<"unlisten">>, <<"force">>>>
    <3>1. stack' = [stack EXCEPT ![m] = a \o ReleaseAll \o b]
      BY <2>2 DEF ChangeSpeed, Give
    <3>2. a \in Seq(Still) /\ b \in Seq(Still)
      BY StillSeqs
    <3>3. a \o ReleaseAll \o b \in Stacks
      <4>1. Typed'
        BY <2>2, TypedEdits
      <4>2. stack'[m] \in Stacks
        BY <4>1, TwoCallers DEF Typed, m
      <4>3. QED
        BY <3>1, <4>2, TwoCallers DEF Typed
    <3> HIDE DEF a, b
    <3>4. a \o ReleaseAll \in Seq(Still)
      BY <3>2, StillSeqs
    <3>5. a \o ReleaseAll \o b \in Seq(Still)
      BY <3>2, <3>4, StillSeqs
    <3>6. QED
      BY <3>1, <3>3, <3>5
  <2>3. CASE ChangeCondition
    <3>1. PICK k \in Triggers, a \in {<<>>, <<<<"state">>>>} : Give(m, a \o <<<<"invalid", k>>>>)
      BY <2>3 DEF ChangeCondition
    <3> DEFINE b == <<<<"invalid", k>>>>
    <3>2. a \in Seq(Still) /\ a \in Seq(Quiet)
      <4>1. <<"state">> \in Still /\ <<"state">> \in Quiet
        BY StillSeqs, QuietEntries
      <4>2. /\ <<<<"state">>>> \in Seq(Still) /\ <<<<"state">>>> \in Seq(Quiet)
            /\ <<>> \in Seq(Still) /\ <<>> \in Seq(Quiet)
        BY <4>1
      <4>3. a = <<>> \/ a = <<<<"state">>>>
        BY <3>1
      <4>4. QED
        BY <4>2, <4>3
    <3>3. b \in Seq(Still) /\ b \in Seq(Quiet)
      <4>1. <<"invalid", k>> \in Still /\ <<"invalid", k>> \in Quiet
        BY MildEntries, StillSeqs, QuietEntries
      <4>2. QED
        BY <4>1
    <3>4. Give(m, a \o b)
      BY <3>1
    <3> HIDE DEF b
    <3>5. a \o b \in Seq(Still) /\ a \o b \in Seq(Quiet)
      BY <3>2, <3>3
    <3>6. QED
      BY <3>4, <3>5, StackKinds DEF Give
  <2>4. QED
    BY <2>1, <2>2, <2>3
<1>4. PICK new \in Stacks : new \in Seq(Still) /\ stack' = [stack EXCEPT ![m] = new]
  BY <1>3
<1>5. \A i \in 1 .. Len(new) : /\ new[i][1] \notin {"cross", "under", "changed"}
                               /\ new[i][1] = "time" => i = 1
  BY <1>4, StillSeqs
<1>6. QED
  BY <1>1, <1>2, <1>4, <1>5, SilentGiven

\* The sequence starts or stops on the message thread: its handler is next, and the triggers
\* that are still to be walked are none, or the stop has interrupted them.
LEMMA SilentSet ==
  ASSUME Typed, Following, Silent, Set(m), playing # Arg(m, 1)
  PROVE  Silent'
<1> DEFINE q == stack[m]
           new == <<<<"exit">>>>
<1>1. /\ At_(m, "set") /\ Arg(m, 1) \in BOOLEAN /\ Head(stack[m]) = <<"set", Arg(m, 1)>>
      /\ playing \in BOOLEAN /\ interrupted \in BOOLEAN
  BY SetArgument, TwoCallers DEF Set, Typed, Scalars
<1>2. q # <<>> /\ q \in Seq(Entries) /\ Head(q) = q[1] /\ Len(q) > 0 /\ Len(q) \in Nat /\ q[1][1] = "set"
  BY <1>1, FirstStep, TwoCallers
<1>3. Do(m, new) /\ posted' = posted
  <2>1. Notify(m, "playing", <<>>)
    BY Zenon DEF Set
  <2>2. Called("playing") \o <<>> = new
    BY DEF Called
  <2>3. QED
    BY <2>1, <2>2 DEF Notify, m
<1>4. playing' = Arg(m, 1) /\ trig' = trig /\ wasPlaying' = wasPlaying
  BY DEF Set, layer
<1>5. interrupted' = (interrupted \/ (m = MessageThread /\ playing /\ ~Arg(m, 1) /\ Walking))
  BY DEF Set
<1>6. new \in Stacks /\ Len(new) = 1 /\ new[1] = <<"exit">> /\ <<"exit">> \in Aheads /\ new \in Seq(Entries)
  BY QuietEntries, StackKinds DEF Aheads
<1>7. stack'[m] = new \o Tail(q)
  BY <1>2, <1>3, <1>6, Pushed, TwoCallers DEF Typed
<1> HIDE DEF new
<1> DEFINE s == new \o Tail(q)
<1>8. /\ Len(s) = Len(q) /\ s[1] = <<"exit">> /\ 1 \in 1 .. Len(s)
      /\ \A i \in 1 .. Len(s) : i > 1 => i \in 2 .. Len(q) /\ s[i] = q[i]
  <2>1. /\ Len(s) = Len(new) + Len(q) - 1
        /\ \A i \in 1 .. Len(new) : s[i] = new[i]
        /\ \A i \in 1 .. Len(s) : i > Len(new) => i - Len(new) + 1 \in 2 .. Len(q)
                                                  /\ s[i] = q[i - Len(new) + 1]
    <3>1. q \in Seq(Entries) /\ q # <<>> /\ new \in Seq(Entries)
      BY <1>2, <1>6
    <3> HIDE DEF q
    <3>2. QED
      BY <3>1, Replaced
  <2> HIDE DEF s, q
  <2>2. QED
    BY <1>2, <1>6, <2>1
<1>9. \A i \in 1 .. Len(new) : i = 1
  BY <1>6
<1>10. Orderly(q) /\ Orderly(new)
  BY <1>6, <1>9 DEF Silent, Orderly
<1>11. Orderly(s) /\ \A j \in 2 .. Len(q) : q[j][1] \notin {"time", "changed"}
  BY <1>2, <1>6, <1>10, OrderlyPush
<1>12. Arg(m, 1) => \A j \in 2 .. Len(q) : q[j] \in Calls
  <2>1. Arg(m, 1) => q[1] \in Plays
    BY <1>1, <1>2 DEF Plays
  <2>2. \A j \in 2 .. Len(q) : 1 \in 1 .. Len(q) /\ j \in 1 .. Len(q) /\ 1 < j
    BY <1>2
  <2>3. QED
    BY <2>1, <2>2 DEF Following, Nested, Followed
<1> HIDE DEF s, q
<1>13. Informed'
  <2>1. Ahead'
    BY <1>6, <1>7, <1>8 DEF Ahead, m, s, q
  <2>2. QED
    BY <2>1 DEF Informed
<1>14. Rewinding'
  <2>1. ASSUME NEW i \in 1 .. Len(s) PROVE Rewinds(s[i], playing', Held')
    <3>1. CASE i = 1
      BY <1>8, <3>1 DEF Rewinds
    <3>2. CASE i # 1 /\ Arg(m, 1)
      <4>1. s[i] \in Calls
        BY <1>8, <1>12, <3>2
      <4>2. s[i][1] \in {"trigger", "triggered"}
        BY <4>1, CallsApart
      <4>3. QED
        BY <4>2 DEF Rewinds
    <3>3. CASE i # 1 /\ ~Arg(m, 1)
      <4>1. i \in 2 .. Len(q) /\ s[i] = q[i]
        BY <1>8, <3>3
      <4>2. s[i][1] # "changed" /\ ~playing'
        BY <1>4, <1>11, <3>3, <4>1
      <4>3. QED
        BY <4>2 DEF Rewinds
    <3>4. QED
      BY <3>1, <3>2, <3>3
  <2>2. QED
    BY <1>7, <2>1 DEF Rewinding, m, s, q
<1>15. ~interrupted' => \A j \in 2 .. Len(q) : q[j] \in Entries \ Walks
  <2>1. ASSUME ~interrupted', NEW j \in 2 .. Len(q) PROVE q[j] \in Entries \ Walks
    <3>1. q[j] \in Entries /\ j \in 1 .. Len(q)
      BY <1>2
    <3>2. CASE Arg(m, 1)
      <4>1. q[j][1] \in {"trigger", "triggered"}
        BY <1>12, <3>2, CallsApart
      <4>2. QED
        BY <3>1, <4>1 DEF Walks
    <3>3. CASE ~Arg(m, 1)
      <4>1. ~Walking
        BY <1>1, <1>5, <2>1, <3>3 DEF m
      <4>2. DOMAIN q = 1 .. Len(q)
        BY <1>2
      <4>3. q[j][1] \notin {"cross", "under"}
        BY <3>1, <4>1, <4>2 DEF Walking, q, m
      <4>4. q[j][1] # "changed"
        BY <1>11
      <4>5. QED
        BY <3>1, <4>3, <4>4 DEF Walks
    <3>4. QED
      BY <3>2, <3>3
  <2>2. QED
    BY <2>1
<1>16. ~interrupted' => ~interrupted
  BY <1>5
<1>17. Apart'
  <2>1. ASSUME ~interrupted' PROVE Followed(s, Aheads, Entries \ Walks)
    <3>1. Followed(q, Aheads, Entries \ Walks)
      BY <1>16, <2>1 DEF Silent, Apart, q
    <3>2. Followed(new, Aheads, Entries \ Walks)
      BY <1>9 DEF Followed
    <3>3. \A j \in 2 .. Len(q) : q[j] \in Entries \ Walks
      BY <1>15, <2>1
    <3>4. QED
      BY <1>2, <1>6, <3>1, <3>2, <3>3, FollowedPush DEF s
  <2>2. QED
    BY <1>7, <2>1 DEF Apart, m, s, q
<1>18. Balanced'
  <2>1. CASE interrupted'
    BY <2>1 DEF Balanced
  <2>2. CASE ~interrupted'
    <3>1. interrupted' = interrupted
      BY <1>1, <1>5, <2>2
    <3>2. \A k : ~Frees(Head(stack[m]), k) /\ \A i \in 1 .. Len(new) : ~Fires(new[i], k)
      <4>1. Head(stack[m])[1] = "set"
        BY <1>1
      <4>2. \A i \in 1 .. Len(new) : new[i][1] = "exit"
        BY <1>6, <1>9
      <4>3. QED
        BY <4>1, <4>2, FiringKinds
    <3>3. \A k \in Sustained : /\ trig'[k].valid = trig[k].valid
                               /\ trig'[k].triggered => trig[k].triggered \/ Fires(Head(stack[m]), k)
                               /\ Frees(Head(stack[m]), k) => ~trig'[k].triggered
                               /\ ~wasPlaying /\ (\E i \in 1 .. Len(new) : Fires(new[i], k)) => Freed(new, k)
      BY <1>4, <3>2
    <3>4. Balanced
      BY DEF Silent
    <3>5. QED
      BY <1>2, <1>3, <1>4, <1>6, <3>1, <3>3, <3>4, BalancedPush DEF q
  <2>3. QED
    BY <2>1, <2>2
<1>19. Orderly(stack[m])'
  BY <1>7, <1>11 DEF Orderly, m, s, q
<1>20. QED
  BY <1>13, <1>14, <1>17, <1>18, <1>19 DEF Silent

\* The triggers are told: those that are held are released, and nothing after fires one.
LEMMA SilentState ==
  ASSUME Typed, Silent, StateChanged
  PROVE  Silent'
<1> DEFINE q == stack[m]
           new == Affected
<1>1. At_(m, "state") /\ Do(m, new) /\ wasPlaying' = playing /\ playing' = playing /\ trig' = trig
      /\ interrupted' = interrupted /\ playing \in BOOLEAN /\ wasPlaying \in BOOLEAN
  BY DEF StateChanged, history, Typed, Scalars
<1>2. q # <<>> /\ q \in Seq(Entries) /\ Head(q) = q[1] /\ Len(q) > 0 /\ Len(q) \in Nat /\ q[1][1] = "state"
  BY <1>1, FirstStep, TwoCallers
<1>3. new \in Seq(Quiet) /\ new \in Stacks /\ new \in Seq(Entries)
  BY AffectedType, UnclearSeqs, StackKinds
<1>4. stack'[m] = new \o Tail(q)
  BY <1>1, <1>2, <1>3, Pushed, TwoCallers DEF Typed
<1>5. \A i \in 1 .. Len(new) : new[i][1] \in {"under", "release"}
  <2>1. \A r \in Seq({"under"} \X Triggers) : \A i \in 1 .. Len(r) : r[i][1] = "under"
    <3>1. ASSUME NEW r \in Seq({"under"} \X Triggers), NEW i \in 1 .. Len(r) PROVE r[i] \in {"under"} \X Triggers
      OBVIOUS
    <3>2. QED
      BY <3>1
  <2>2. \A r \in Seq({"release"} \X Triggers) : \A i \in 1 .. Len(r) : r[i][1] = "release"
    <3>1. ASSUME NEW r \in Seq({"release"} \X Triggers), NEW i \in 1 .. Len(r)
          PROVE  r[i] \in {"release"} \X Triggers
      OBVIOUS
    <3>2. QED
      BY <3>1
  <2>3. new = Unders \/ new = Releases \/ new = <<>>
    BY DEF Affected
  <2> HIDE DEF new
  <2>4. QED
    BY <2>1, <2>2, <2>3, UndersType, ReleasesType
<1>6. playing \/ wasPlaying \/ new = <<>>
  BY DEF Affected
<1>7. ~playing /\ wasPlaying => new = Releases
  BY DEF Affected
<1> HIDE DEF new
<1> DEFINE s == new \o Tail(q)
<1>8. /\ Len(s) = Len(new) + Len(q) - 1 /\ Len(new) \in Nat
      /\ \A i \in 1 .. Len(new) : s[i] = new[i]
      /\ \A i \in 1 .. Len(s) : i > Len(new) => i - Len(new) + 1 \in 2 .. Len(q)
                                                /\ s[i] = q[i - Len(new) + 1]
  BY <1>2, <1>3, Replaced, EmptySeq
<1>9. Orderly(q) /\ Orderly(new)
  BY <1>5 DEF Silent, Orderly
<1>10. Orderly(s) /\ \A j \in 2 .. Len(q) : q[j][1] \notin {"time", "changed"}
  BY <1>2, <1>3, <1>9, OrderlyPush
<1> HIDE DEF s, q
<1>11. Informed'
  BY <1>1 DEF Informed
<1>12. Rewinding'
  <2>1. ASSUME ~playing, NEW i \in 1 .. Len(s) PROVE Rewinds(s[i], playing', Held')
    <3>1. s[i][1] # "changed"
      <4>1. CASE i <= Len(new)
        <5>1. i \in 1 .. Len(new) /\ s[i] = new[i]
          BY <1>8, <4>1
        <5>2. QED
          BY <1>5, <5>1
      <4>2. CASE i > Len(new)
        BY <1>8, <1>10, <4>2
      <4>3. QED
        BY <1>8, <4>1, <4>2
    <3>2. QED
      BY <1>1, <2>1, <3>1 DEF Rewinds
  <2>2. QED
    BY <1>1, <1>4, <2>1 DEF Rewinding, m, s, q
<1>13. ~interrupted => Followed(q, Aheads, Entries \ Walks)
  BY DEF Silent, Apart, q
<1>14. \A i \in 1 .. Len(new) : new[i] \notin Aheads
  BY <1>5 DEF Aheads
<1>15. Apart'
  <2>1. ASSUME ~interrupted PROVE Followed(s, Aheads, Entries \ Walks)
    <3>1. Followed(new, Aheads, Entries \ Walks)
      BY <1>14 DEF Followed
    <3>2. QED
      BY <1>2, <1>3, <1>13, <1>14, <2>1, <3>1, FollowedPush DEF s
  <2>2. QED
    BY <1>1, <1>4, <2>1 DEF Apart, m, s, q
<1>16. Balanced'
  <2>1. CASE playing \/ interrupted
    BY <1>1, <2>1 DEF Balanced
  <2>2. CASE ~playing /\ ~wasPlaying
    <3>1. \A k : ~Frees(Head(stack[m]), k) /\ \A i \in 1 .. Len(new) : ~Fires(new[i], k)
      <4>1. Head(stack[m])[1] = "state"
        BY <1>2 DEF q
      <4>2. \A i \in 1 .. Len(new) : FALSE
        BY <1>6, <2>2, EmptySeq
      <4>3. QED
        BY <4>1, <4>2, FiringKinds
    <3>2. \A k \in Sustained : /\ trig'[k].valid = trig[k].valid
                               /\ trig'[k].triggered => trig[k].triggered \/ Fires(Head(stack[m]), k)
                               /\ Frees(Head(stack[m]), k) => ~trig'[k].triggered
                               /\ ~wasPlaying /\ (\E i \in 1 .. Len(new) : Fires(new[i], k)) => Freed(new, k)
      BY <1>1, <3>1
    <3>3. Balanced
      BY DEF Silent
    <3>4. wasPlaying' = wasPlaying
      BY <1>1, <2>2
    <3>5. QED
      BY <1>1, <1>2, <1>3, <3>2, <3>3, <3>4, BalancedPush DEF q
  <2>3. CASE ~playing /\ wasPlaying /\ ~interrupted
    <3>1. ASSUME NEW k \in Sustained PROVE Freed(s, k)
      <4>1. k \in Triggers
        BY DEF Sustained, Bars
      <4>2. k \in 1 .. Len(new) /\ new[k] = <<"release", k>>
        BY <1>7, <2>3, <4>1, ReleasesType DEF Releases
      <4>3. k \in 1 .. Len(s) /\ Frees(s[k], k)
        <5>1. s[k] = <<"release", k>> /\ k \in 1 .. Len(s)
          BY <1>2, <1>8, <4>2
        <5>2. QED
          BY <5>1 DEF Frees
      <4>4. ASSUME NEW i \in 1 .. Len(s) PROVE ~Fires(s[i], k)
        <5>1. CASE i <= Len(new)
          <6>1. i \in 1 .. Len(new) /\ s[i] = new[i]
            BY <1>8, <5>1
          <6>2. new \in Seq({"release"} \X Triggers)
            BY <1>7, <2>3, ReleasesType
          <6>3. new[i] \in {"release"} \X Triggers
            BY <6>1, <6>2
          <6>4. s[i][1] = "release"
            BY <6>1, <6>3
          <6>5. QED
            BY <6>4, FiringKinds
        <5>2. CASE i > Len(new)
          <6>1. PICK j \in 2 .. Len(q) : s[i] = q[j]
            BY <1>8, <5>2
          <6>2. 1 \in 1 .. Len(q) /\ j \in 1 .. Len(q) /\ 1 < j /\ q[1] \in Entries
            BY <1>2
          <6>3. q[1] \in Aheads
            BY <1>2, <6>2 DEF Aheads
          <6>4. q[j] \in Entries \ Walks
            BY <1>13, <2>3, <6>2, <6>3 DEF Followed
          <6>5. q[j][1] \notin {"cross", "under"}
            BY <6>4 DEF Walks
          <6>6. QED
            BY <6>1, <6>5, FiringKinds
        <5>3. QED
          BY <1>8, <5>1, <5>2
      <4>5. QED
        BY <4>3, <4>4 DEF Freed
    <3>2. ASSUME NEW k \in Sustained PROVE Freed(stack[m], k)'
      <4>1. Freed(s, k)
        BY <3>1
      <4>2. \A e : Fires(e, k)' = Fires(e, k) /\ Frees(e, k)' = Frees(e, k)
        BY <1>1, FiringKept
      <4>3. stack'[m] = s
        BY <1>4 DEF s
      <4>4. QED
        BY <4>1, <4>2, <4>3 DEF Freed, m
    <3>3. QED
      BY <3>2 DEF Balanced
  <2>4. QED
    BY <1>1, <2>1, <2>2, <2>3
<1>17. Orderly(stack[m])'
  BY <1>4, <1>10 DEF Orderly, m, s, q
<1>18. QED
  BY <1>11, <1>12, <1>15, <1>16, <1>17 DEF Silent

\* Each end is listed once, after those that are before it.
LEMMA InOrderPlaces ==
  ASSUME NEW E \in SUBSET Ends, IsFiniteSet(E)
  PROVE  LET q == InOrder(E)
             n == Cardinality(E)
         IN  /\ n \in Nat /\ Len(q) = n /\ q \in Seq(Ends)
             /\ \A i \in 1 .. n : q[i] \in E
             /\ \A e \in E : \E i \in 1 .. n : q[i] = e
             /\ \A i, j \in 1 .. n : Before(q[i], q[j]) => i < j
             /\ \A i, j \in 1 .. n : q[i] = q[j] => i = j
<1> DEFINE q == InOrder(E)
           n == Cardinality(E)
           rank(e) == Cardinality({f \in E : Before(f, e)})
<1>1. /\ n \in Nat
      /\ \A i \in 1 .. n : \E e \in E : rank(e) = i - 1
      /\ \A e \in E : rank(e) \in 0 .. n - 1
      /\ \A e, f \in E : Before(e, f) => rank(e) < rank(f)
  BY EachPlaceIsTaken
<1>2. q \in Seq(E) /\ q = [i \in 1 .. n |-> CHOOSE e \in E : rank(e) = i - 1]
  BY InOrderType DEF InOrder
<1> HIDE DEF rank, q, n
<1>3. Len(q) = n
  BY <1>1, <1>2
<1>4. ASSUME NEW i \in 1 .. n PROVE q[i] \in E /\ rank(q[i]) = i - 1
  BY <1>1, <1>2
<1>5. ASSUME NEW e \in E PROVE \E i \in 1 .. n : q[i] = e
  <2> DEFINE i == rank(e) + 1
  <2>1. i \in 1 .. n
    BY <1>1
  <2>2. q[i] \in E /\ rank(q[i]) = rank(e) /\ rank(e) \in Int
    BY <1>1, <1>4, <2>1
  <2>3. q[i] = e
    <3>1. e \in Ends /\ q[i] \in Ends
      BY <2>2
    <3>2. ~Before(q[i], e) /\ ~Before(e, q[i])
      BY <1>1, <2>2
    <3>3. QED
      BY <3>1, <3>2, BeforeIsTotal
  <2>4. QED
    BY <2>1, <2>3
<1>6. ASSUME NEW i \in 1 .. n, NEW j \in 1 .. n, Before(q[i], q[j]) PROVE i < j
  <2>1. rank(q[i]) < rank(q[j])
    BY <1>1, <1>4, <1>6
  <2>2. QED
    BY <1>4, <2>1
<1>7. ASSUME NEW i \in 1 .. n, NEW j \in 1 .. n, q[i] = q[j] PROVE i = j
  <2>1. i - 1 = j - 1
    BY <1>4, <1>7
  <2>2. QED
    BY <2>1
<1>8. q \in Seq(Ends)
  BY <1>2
<1>9. QED
  BY <1>1, <1>3, <1>4, <1>5, <1>6, <1>7, <1>8 DEF q, n

\* What a walk backwards pushes.
LEMMA BackwardSteps ==
  ASSUME NEW from, NEW to, NEW only \in BOOLEAN
  PROVE  LET E == Between(from, to, FALSE, only)
             q == InOrder(E)
             n == Cardinality(E)
             s == Timespan(from, to, FALSE, only)
         IN  /\ Len(s) = n
             /\ \A i \in 1 .. n :
                  /\ n - i + 1 \in 1 .. n
                  /\ \E b \in BOOLEAN :
                       /\ s[i] = <<"cross", q[n - i + 1].of, b, only>>
                       /\ b <=> ~only /\ (~q[n - i + 1].on \/ q[n - i + 1].of \notin Bars)
<1> DEFINE E == Between(from, to, FALSE, only)
           q == InOrder(E)
           n == Cardinality(E)
           s == Timespan(from, to, FALSE, only)
           order == Reverse(q)
           on(e) == ~only /\ (~e.on \/ e.of \notin Bars)
           step(e) == <<"cross", e.of, on(e), only>>
<1>1. E \in SUBSET Ends /\ IsFiniteSet(E)
  BY BetweenType
<1>2. s = [i \in DOMAIN order |-> step(order[i])]
  BY DEF Timespan, Between
<1> HIDE DEF E
<1>3. n \in Nat /\ Len(q) = n /\ q \in Seq(Ends)
  BY <1>1, InOrderPlaces
<1> HIDE DEF q, n
<1>4. Len(order) = n /\ DOMAIN order = 1 .. n /\ \A i \in 1 .. n : order[i] = q[n - i + 1]
  BY <1>3 DEF Reverse
<1> HIDE DEF order, s, step
<1>5. s = [i \in 1 .. n |-> step(order[i])]
  BY <1>2, <1>4
<1>6. Len(s) = n /\ \A i \in 1 .. n : s[i] = step(q[n - i + 1])
  BY <1>3, <1>4, <1>5
<1>7. \A i \in 1 .. n : n - i + 1 \in 1 .. n
  BY <1>3
<1>8. ASSUME NEW e \in Ends
      PROVE  \E b \in BOOLEAN : /\ step(e) = <<"cross", e.of, b, only>>
                                /\ b <=> ~only /\ (~e.on \/ e.of \notin Bars)
  <2>1. e.on \in BOOLEAN
    BY DEF Ends
  <2>2. on(e) \in BOOLEAN /\ (on(e) <=> ~only /\ (~e.on \/ e.of \notin Bars))
    BY <2>1
  <2> HIDE DEF on
  <2>3. step(e) = <<"cross", e.of, on(e), only>>
    BY DEF step
  <2>4. QED
    BY <2>2, <2>3
<1>9. \A i \in 1 .. n : q[i] \in Ends
  BY <1>3
<1>10. QED
  <2> HIDE DEF on
  <2>1. ASSUME NEW i \in 1 .. n
        PROVE  \E b \in BOOLEAN :
                 /\ s[i] = <<"cross", q[n - i + 1].of, b, only>>
                 /\ b <=> ~only /\ (~q[n - i + 1].on \/ q[n - i + 1].of \notin Bars)
    <3> DEFINE e == q[n - i + 1]
    <3>1. e \in Ends /\ s[i] = step(e)
      BY <1>6, <1>7, <1>9
    <3> HIDE DEF e
    <3>2. QED
      BY <1>8, <3>1 DEF e
  <2>2. QED
    BY <1>6, <1>7, <2>1 DEF E, q, n, s

\* A walk back to 0 crosses the begin of a bar after its end, which may have fired it.
LEMMA BackwardFrees ==
  ASSUME NEW high \in Nat, NEW k \in Sustained, NEW i \in 1 .. Len(Timespan(0, high, FALSE, FALSE)),
         Fires(Timespan(0, high, FALSE, FALSE)[i], k)
  PROVE  Freed(Timespan(0, high, FALSE, FALSE), k)
<1> DEFINE E == Between(0, high, FALSE, FALSE)
           q == InOrder(E)
           n == Cardinality(E)
           s == Timespan(0, high, FALSE, FALSE)
           e == [at |-> At[k] + Length[k], of |-> k, on |-> FALSE]
           f == [at |-> At[k], of |-> k, on |-> TRUE]
<1>1. E \in SUBSET Ends /\ IsFiniteSet(E)
  BY BetweenType
<1>2. /\ n \in Nat
      /\ \A j \in 1 .. n : q[j] \in E
      /\ \A g \in E : \E j \in 1 .. n : q[j] = g
      /\ \A j, l \in 1 .. n : Before(q[j], q[l]) => j < l
      /\ \A j, l \in 1 .. n : q[j] = q[l] => j = l
  BY <1>1, InOrderPlaces
<1>3. /\ Len(s) = n
      /\ \A j \in 1 .. n :
           /\ n - j + 1 \in 1 .. n
           /\ \E b \in BOOLEAN : /\ s[j] = <<"cross", q[n - j + 1].of, b, FALSE>>
                                 /\ b <=> ~FALSE /\ (~q[n - j + 1].on \/ q[n - j + 1].of \notin Bars)
  BY BackwardSteps
<1>4. k \in Triggers /\ k \in Bars /\ At[k] \in Nat /\ Length[k] \in Nat /\ Length[k] > 0
  BY TriggerAssumption DEF Sustained, Bars
<1>5. \A g \in E : (\E l \in Triggers : g \in EndsOf(l)) /\ 0 <= g.at /\ g.at <= high
  BY DEF Between
<1>6. f \in E \/ ~(At[k] <= high)
  <2>1. f \in EndsOf(k) /\ f.at = At[k] /\ 0 <= f.at
    BY <1>4 DEF EndsOf
  <2> HIDE DEF f
  <2>2. QED
    BY <1>4, <2>1 DEF Between
<1> HIDE DEF E, q, n, s
<1>7. ASSUME NEW g \in E, g.of = k, ~g.on PROVE g = e
  <2>1. PICK l \in Triggers : g \in EndsOf(l)
    BY <1>5
  <2>2. g = [at |-> At[l], of |-> l, on |-> TRUE] \/ g = [at |-> At[l] + Length[l], of |-> l, on |-> FALSE]
    BY <2>1 DEF EndsOf
  <2>3. g = [at |-> At[l] + Length[l], of |-> l, on |-> FALSE] /\ l = k
    BY <1>7, <2>2
  <2>4. QED
    BY <2>3
<1>8. ASSUME NEW j \in 1 .. n, Fires(s[j], k) PROVE trig[k].valid /\ q[n - j + 1] = e
  <2> DEFINE g == q[n - j + 1]
  <2>1. g \in E /\ g \in Ends
    <3>1. n - j + 1 \in 1 .. n
      BY <1>3
    <3>2. QED
      BY <1>1, <1>2, <3>1
  <2>2. PICK b \in BOOLEAN : s[j] = <<"cross", g.of, b, FALSE>> /\ (b <=> ~g.on \/ g.of \notin Bars)
    BY <1>3
  <2> HIDE DEF g
  <2>3. s[j][1] = "cross" /\ s[j][2] = g.of /\ s[j][3] = b
    BY <2>2
  <2>4. PICK c : s[j] = <<"cross", k, TRUE, c>>
    <3>1. <<"under", k>>[1] = "under"
      OBVIOUS
    <3>2. QED
      BY <1>8, <2>3, <3>1 DEF Fires
  <2>5. g.of = k /\ b = TRUE
    <3>1. s[j][2] = k /\ s[j][3] = TRUE
      BY <2>4
    <3>2. QED
      BY <2>3, <3>1
  <2>6. g = e
    BY <1>4, <1>7, <2>1, <2>2, <2>5
  <2>7. trig[k].valid
    BY <1>8 DEF Fires
  <2>8. QED
    BY <2>6, <2>7 DEF g
<1>9. i \in 1 .. n /\ Fires(s[i], k)
  BY <1>3 DEF s
<1> DEFINE a == n - i + 1
<1>10. a \in 1 .. n /\ q[a] = e /\ trig[k].valid /\ e \in E
  <2>1. a \in 1 .. n
    BY <1>3, <1>9
  <2>2. q[a] = e /\ trig[k].valid
    BY <1>8, <1>9
  <2>3. q[a] \in E
    BY <1>2, <2>1
  <2>4. QED
    BY <2>1, <2>2, <2>3
<1>11. f \in E
  <2>1. e.at <= high
    BY <1>5, <1>10
  <2>2. At[k] <= high
    BY <1>4, <2>1
  <2>3. QED
    BY <1>6, <2>2
<1>12. Before(f, e)
  BY <1>4 DEF Before
<1>13. PICK c \in 1 .. n : q[c] = f
  BY <1>2, <1>11
<1> HIDE DEF a
<1>14. c < a
  <2>1. Before(q[c], q[a])
    BY <1>10, <1>12, <1>13
  <2> HIDE DEF e, f
  <2>2. QED
    BY <1>2, <1>10, <2>1
<1> DEFINE p == n - c + 1
<1>15. p \in 1 .. n /\ n - p + 1 = c
  BY <1>2
<1> HIDE DEF p
<1>16. s[p] = <<"cross", k, FALSE, FALSE>>
  <2>1. f.of = k /\ f.on = TRUE
    OBVIOUS
  <2> HIDE DEF f, e
  <2>2. PICK b \in BOOLEAN : s[p] = <<"cross", f.of, b, FALSE>> /\ (b <=> ~f.on \/ f.of \notin Bars)
    BY <1>3, <1>13, <1>15
  <2>3. b = FALSE
    BY <1>4, <2>1, <2>2
  <2>4. QED
    BY <2>1, <2>2, <2>3
<1>17. Frees(s[p], k)
  BY <1>10, <1>16 DEF Frees
<1>18. ASSUME NEW j \in 1 .. n, j > p PROVE ~Fires(s[j], k)
  <2> HIDE DEF e, f
  <2>1. SUFFICES ASSUME Fires(s[j], k) PROVE FALSE
    OBVIOUS
  <2> DEFINE d == n - j + 1
  <2>2. d \in 1 .. n /\ q[d] = e
    BY <1>3, <1>8, <2>1
  <2>3. d = a
    BY <1>2, <1>10, <2>2
  <2>4. QED
    BY <1>2, <1>10, <1>14, <1>15, <1>18, <2>3 DEF d
<1>19. QED
  BY <1>3, <1>15, <1>17, <1>18 DEF Freed, s

\* A walk that only releases fires nothing.
LEMMA ReleasingWalk ==
  ASSUME NEW from, NEW to, NEW onward \in BOOLEAN, NEW k, NEW i \in 1 .. Len(Timespan(from, to, onward, TRUE))
  PROVE  ~Fires(Timespan(from, to, onward, TRUE)[i], k)
<1> DEFINE E == Between(from, to, onward, TRUE)
           s == Timespan(from, to, onward, TRUE)
<1>1. E \in SUBSET Ends /\ IsFiniteSet(E)
  BY BetweenType
<1>2. s[i] \in {"cross"} \X Triggers \X BOOLEAN \X BOOLEAN
  <2> DEFINE S == {"cross"} \X Triggers \X BOOLEAN \X BOOLEAN
  <2>1. s \in Seq(S)
    <3>1. TRUE \in BOOLEAN
      OBVIOUS
    <3>2. QED
      BY <3>1, TimespanType
  <2>2. i \in 1 .. Len(s)
    OBVIOUS
  <2> HIDE DEF s, S
  <2>3. s[i] \in S
    BY <2>1, <2>2
  <2>4. QED
    BY <2>3 DEF S
<1>3. s[i][3] = FALSE
  <2>1. CASE ~onward
    <3>1. onward = FALSE /\ i \in 1 .. Len(s)
      BY <2>1
    <3>2. s = Timespan(from, to, FALSE, TRUE)
      BY <3>1
    <3> HIDE DEF s
    <3> DEFINE q == InOrder(Between(from, to, FALSE, TRUE))
               n == Cardinality(Between(from, to, FALSE, TRUE))
    <3>3. /\ Len(s) = n
          /\ \A j \in 1 .. n : \E b \in BOOLEAN :
               /\ s[j] = <<"cross", q[n - j + 1].of, b, TRUE>>
               /\ b <=> ~TRUE /\ (~q[n - j + 1].on \/ q[n - j + 1].of \notin Bars)
      BY <3>2, BackwardSteps
    <3> HIDE DEF q, n
    <3>4. i \in 1 .. n
      BY <3>1, <3>3
    <3>5. PICK b \in BOOLEAN : s[i] = <<"cross", q[n - i + 1].of, b, TRUE>> /\ ~b
      BY <3>3, <3>4
    <3>6. QED
      BY <3>5
  <2>2. CASE onward
    <3> DEFINE q == InOrder(E)
               n == Cardinality(E)
    <3>1. onward = TRUE
      BY <2>2
    <3>2. s = [j \in DOMAIN q |-> <<"cross", q[j].of, q[j].on, TRUE>>]
      BY <3>1 DEF Timespan, Between
    <3>3. \A g \in E : g.on # TRUE
      BY <3>1 DEF Between
    <3>4. n \in Nat /\ Len(q) = n /\ q \in Seq(Ends) /\ \A j \in 1 .. n : q[j] \in E
      BY <1>1, InOrderPlaces
    <3>5. i \in 1 .. Len(s)
      OBVIOUS
    <3> HIDE DEF E, q, n, s
    <3>6. DOMAIN q = 1 .. n
      BY <3>4
    <3>7. i \in 1 .. n
      BY <3>2, <3>4, <3>5, <3>6
    <3>8. s[i] = <<"cross", q[i].of, q[i].on, TRUE>> /\ q[i] \in E /\ q[i] \in Ends
      BY <1>1, <3>2, <3>4, <3>6, <3>7
    <3>9. q[i].on \in BOOLEAN /\ q[i].on # TRUE
      BY <3>3, <3>8 DEF Ends
    <3>10. s[i][3] = q[i].on
      BY <3>8
    <3>11. QED
      BY <3>9, <3>10
  <2>3. QED
    BY <2>1, <2>2
<1>4. s[i][1] = "cross"
  BY <1>2
<1> HIDE DEF s
<1>5. ~Fires(s[i], k)
  BY <1>3, <1>4, FiringKinds
<1>6. QED
  BY <1>5 DEF s

\* Until the triggers know that the sequence plays, a walk which fires goes back to 0, and
\* releases what it fires.
LEMMA WalkFrees ==
  ASSUME Scalars, NEW from \in 0 .. Total, NEW evaluate \in BOOLEAN, playing \/ evaluate => time = 0,
         NEW k \in Sustained, NEW i \in 1 .. Len(Walk(from, evaluate)), Fires(Walk(from, evaluate)[i], k)
  PROVE  Freed(Walk(from, evaluate), k)
<1> DEFINE s == Walk(from, evaluate)
           low == IF from < time THEN from ELSE time
           high == IF from < time THEN time ELSE from
<1>1. i \in 1 .. Len(s) /\ Fires(s[i], k) /\ time \in Nat /\ from \in Nat /\ forward \in BOOLEAN
  BY Sizes DEF Scalars
<1>2. ASSUME s = <<>> PROVE FALSE
  BY <1>1, <1>2, EmptySeq
<1>3. ASSUME s = Timespan(low, high, ~forward, TRUE) \o ReleaseAll PROVE FALSE
  <2> DEFINE t == Timespan(low, high, ~forward, TRUE)
  <2>1. t \in Seq({"cross"} \X Triggers \X BOOLEAN \X BOOLEAN) /\ (~forward) \in BOOLEAN
    BY <1>1, TimespanType
  <2>2. t \in Seq(Quiet) /\ ReleaseAll \in Seq(Quiet)
    BY <2>1, UnclearSeqs, ReleasesType
  <2>3. \A j \in 1 .. Len(t) : ~Fires(t[j], k)
    BY <2>1, ReleasingWalk
  <2>4. \A j \in 1 .. Len(ReleaseAll) : ~Fires(ReleaseAll[j], k)
    <3>1. \A j \in 1 .. Len(ReleaseAll) : ReleaseAll[j][1] \notin {"cross", "under"}
      BY StillSeqs
    <3>2. QED
      BY <3>1, FiringKinds
  <2> HIDE DEF t
  <2>5. i \in 1 .. Len(t \o ReleaseAll) /\ Fires((t \o ReleaseAll)[i], k)
    BY <1>1, <1>3 DEF t
  <2>6. \A j \in 1 .. Len(t \o ReleaseAll) :
          \/ j \in 1 .. Len(t) /\ (t \o ReleaseAll)[j] = t[j]
          \/ j - Len(t) \in 1 .. Len(ReleaseAll) /\ (t \o ReleaseAll)[j] = ReleaseAll[j - Len(t)]
    <3> DEFINE r == ReleaseAll
    <3>1. r \in Seq(Quiet)
      BY <2>2
    <3> HIDE DEF r
    <3>2. \A j \in 1 .. Len(t \o r) : \/ j \in 1 .. Len(t) /\ (t \o r)[j] = t[j]
                                      \/ j - Len(t) \in 1 .. Len(r) /\ (t \o r)[j] = r[j - Len(t)]
      BY <2>2, <3>1
    <3>3. QED
      BY <3>2 DEF r
  <2>7. QED
    BY <2>3, <2>4, <2>5, <2>6
<1>4. \/ s = <<>>
      \/ s = Timespan(low, high, ~forward, TRUE) \o ReleaseAll
      \/ /\ s = Timespan(low, high, forward, FALSE) /\ time # from
         /\ forward = (time >= from) /\ ((playing /\ ~seeking) \/ evaluate)
  <2>1. CASE time = from
    BY <2>1 DEF Walk
  <2>2. CASE time # from /\ forward = (time >= from)
    BY <2>2 DEF Walk
  <2>3. CASE time # from /\ forward # (time >= from)
    BY <2>3 DEF Walk
  <2>4. QED
    BY <2>1, <2>2, <2>3
<1>5. CASE s = Timespan(low, high, forward, FALSE) /\ time # from /\ forward = (time >= from)
           /\ ((playing /\ ~seeking) \/ evaluate)
  <2>1. time = 0
    BY <1>5
  <2>2. from > 0 /\ ~(from < time) /\ ~(time >= from)
    BY <1>1, <1>5, <2>1
  <2>3. low = 0 /\ high = from
    BY <2>1, <2>2
  <2>4. forward = FALSE
    <3>1. forward = (time >= from)
      BY <1>5
    <3>2. forward <=> time >= from
      BY <3>1
    <3>3. ~forward
      BY <2>2, <3>2
    <3>4. QED
      BY <1>1, <3>3
  <2> HIDE DEF low, high
  <2>5. s = Timespan(0, from, FALSE, FALSE)
    BY <1>5, <2>3, <2>4
  <2> HIDE DEF s
  <2>6. QED
    BY <1>1, <2>5, BackwardFrees DEF s
<1> HIDE DEF s, low, high
<1>6. QED
  BY <1>2, <1>3, <1>4, <1>5

Walked == {e \in Entries : e[1] \in {"cross", "release", "clear"}}

LEMMA WalkedSteps ==
  ASSUME Scalars, NEW from \in 0 .. Total, NEW evaluate \in BOOLEAN
  PROVE  Walk(from, evaluate) \in Seq(Walked)
<1> DEFINE low == IF from < time THEN from ELSE time
           high == IF from < time THEN time ELSE from
<1>1. forward \in BOOLEAN /\ (~forward) \in BOOLEAN
  BY DEF Scalars
<1>2. \A q \in Seq({"cross"} \X Triggers \X BOOLEAN \X BOOLEAN) : q \in Seq(Walked)
  <2> DEFINE S == {"cross"} \X Triggers \X BOOLEAN \X BOOLEAN
  <2>1. S \subseteq Walked
    BY DEF Walked, Entries
  <2> HIDE DEF S
  <2>2. \A q \in Seq(S) : q \in Seq(Walked)
    BY <2>1
  <2>3. QED
    BY <2>2 DEF S
<1>3. ReleaseAll \in Seq(Walked)
  <2> DEFINE S == {"release"} \X Triggers
  <2>1. S \subseteq Walked
    BY DEF Walked, Entries
  <2>2. Releases \in Seq(S)
    BY ReleasesType
  <2> HIDE DEF S
  <2>3. Releases \in Seq(Walked)
    BY <2>1, <2>2
  <2>4. <<"clear">> \in Walked
    BY QuietEntries DEF Walked
  <2>5. <<<<"clear">>>> \in Seq(Walked)
    BY <2>4
  <2>6. QED
    BY <2>3, <2>5 DEF ReleaseAll
<1>4. \A q, r \in Seq(Walked) : q \o r \in Seq(Walked)
  OBVIOUS
<1>5. Timespan(low, high, forward, FALSE) \in Seq(Walked)
  BY <1>1, <1>2, TimespanType
<1>6. Timespan(low, high, ~forward, TRUE) \o ReleaseAll \in Seq(Walked)
  <2>1. Timespan(low, high, ~forward, TRUE) \in Seq(Walked)
    BY <1>1, <1>2, TimespanType
  <2>2. QED
    BY <1>3, <1>4, <2>1
<1>7. <<>> \in Seq(Walked)
  OBVIOUS
<1>8. \/ Walk(from, evaluate) = <<>>
      \/ Walk(from, evaluate) = Timespan(low, high, forward, FALSE)
      \/ Walk(from, evaluate) = Timespan(low, high, ~forward, TRUE) \o ReleaseAll
  BY DEF Walk
<1> HIDE DEF low, high
<1>9. QED
  BY <1>5, <1>6, <1>7, <1>8

LEMMA SilentChanged ==
  ASSUME Typed, Silent, Changed
  PROVE  Silent'
<1> DEFINE from == Arg(m, 1)
           evaluate == Arg(m, 2)
           new == Walk(from, evaluate)
<1>1. PICK do \in {"changed"} : At_(m, do)
  BY DEF Changed
<1>2. Scalars /\ from \in 0 .. Total /\ evaluate \in BOOLEAN
  BY <1>1, FirstStep, TwoCallers, EntryParts DEF Arg, Typed
<1>3. Do(m, new) /\ playing' = playing /\ posted' = posted /\ UNCHANGED <<trig, wasPlaying, interrupted>>
  BY DEF Changed, layer, history
<1>4. ~wasPlaying /\ (playing \/ evaluate) => time = 0
  <2>1. /\ 1 \in 1 .. Len(stack[m]) /\ stack[m][1][1] = "changed" /\ stack[m][1] = Head(stack[m])
    BY <1>1, FirstStep, TwoCallers
  <2>2. Head(stack[m])[3] = evaluate
    BY DEF Arg
  <2>3. ~wasPlaying => Rewinds(stack[m][1], playing, Held)
    BY <2>1 DEF Silent, Rewinding
  <2>4. QED
    BY <2>1, <2>2, <2>3 DEF Rewinds, Held
<1>5. new \in Seq(Quiet) /\ new \in Stacks /\ new \in Seq(Entries)
  BY <1>2, WalkQuiet, StackKinds
<1>6. \A i \in 1 .. Len(new) : new[i][1] \in {"cross", "release", "clear"}
  <2>1. new \in Seq(Walked)
    BY <1>2, WalkedSteps
  <2> HIDE DEF new
  <2>2. \A i \in 1 .. Len(new) : new[i] \in Walked
    BY <2>1
  <2>3. QED
    BY <2>2 DEF Walked
<1>7. \A k \in Sustained : ~wasPlaying /\ (\E i \in 1 .. Len(new) : Fires(new[i], k)) => Freed(new, k)
  <2>1. ASSUME NEW k \in Sustained, ~wasPlaying, NEW i \in 1 .. Len(new), Fires(new[i], k) PROVE Freed(new, k)
    <3> HIDE DEF from, evaluate
    <3>1. QED
      BY <1>2, <1>4, <2>1, WalkFrees
  <2>2. QED
    BY <2>1
<1> HIDE DEF new
<1>8. \A i \in 1 .. Len(new) : /\ new[i] \notin Aheads /\ new[i][1] \notin {"time", "changed"}
                               /\ Rewinds(new[i], playing, Held')
  BY <1>6 DEF Aheads, Rewinds
<1>9. Orderly(new) /\ Followed(new, Aheads, Entries \ Walks)
  BY <1>8 DEF Orderly, Followed
<1>10. Handles
  BY <1>1, <1>3, UntouchedTriggers
<1>11. Head(stack[m]) \notin Aheads
  BY <1>1, AheadHead
<1>12. \A k \in Sustained : /\ trig'[k].valid = trig[k].valid
                            /\ trig'[k].triggered => trig[k].triggered \/ Fires(Head(stack[m]), k)
                            /\ Frees(Head(stack[m]), k) => ~trig'[k].triggered
                            /\ ~wasPlaying /\ (\E i \in 1 .. Len(new) : Fires(new[i], k)) => Freed(new, k)
  BY <1>7, <1>10 DEF Handles
<1>13. QED
  BY <1>1, <1>3, <1>5, <1>8, <1>9, <1>11, <1>12, SilentPush

LEMMA InitSilent == Init => Silent
<1> SUFFICES ASSUME Init PROVE Silent
  OBVIOUS
<1>1. stack[m] = <<>> /\ \A i : i \notin 1 .. Len(stack[m])
  <2>1. stack[m] = <<>>
    BY TwoCallers DEF Init
  <2>2. QED
    BY <2>1, EmptySeq
<1>2. ~playing /\ ~wasPlaying /\ \A k \in Sustained : ~trig[k].triggered
  BY DEF Init, Idle, Sustained, Bars
<1>3. Informed
  BY <1>2 DEF Informed
<1>4. Orderly(stack[m]) /\ Rewinding
  BY <1>1 DEF Orderly, Rewinding
<1>5. Apart
  BY <1>1 DEF Apart, Followed
<1>6. Balanced
  BY <1>1, <1>2 DEF Balanced, Endangered
<1>7. QED
  BY <1>3, <1>4, <1>5, <1>6 DEF Silent

LEMMA StepSilent ==
  NoOnce /\ QuietSeeks /\ Typed /\ Following /\ Sounding /\ Silent /\ [Next]_vars => Silent'
<1> SUFFICES ASSUME NoOnce, QuietSeeks, Typed, Following, Sounding, Silent, [Next]_vars PROVE Silent'
  OBVIOUS
<1>1. CASE Call(m)
  <2>1. CASE playing' = playing
    BY <1>1, <2>1, SilentCalls
  <2>2. CASE playing' # playing
    <3>1. Set(m)
      BY <1>1, <2>2 DEF Call, Trigger, Ended, Seek, Sought
    <3>2. playing # Arg(m, 1)
      BY <2>2, <3>1 DEF Set
    <3>3. QED
      BY <3>1, <3>2, SilentSet
  <2>3. QED
    BY <2>1, <2>2
<1>2. CASE Call(Other) \/ Command(Other)
  BY <1>2, SilentOthers
<1>3. CASE Handler
  BY <1>3, SilentRestarts, SilentTimes, SilentChanged, SilentState, SilentTriggers, SilentPosted DEF Handler
<1>4. CASE Play
  BY <1>4, SilentPlay
<1>5. CASE Command(m) \/ ChangeSpeed \/ ChangeCondition
  BY <1>5, SilentEdits
<1>6. CASE UNCHANGED vars
  <2>1. stack' = stack /\ posted' = posted /\ playing' = playing /\ UNCHANGED <<trig, wasPlaying, interrupted>>
    BY <1>6 DEF vars, layer, history
  <2>2. time' = time /\ timeLock' = timeLock
    BY <1>6 DEF vars, clock
  <2>3. Held => Held'
    BY <2>2 DEF Held, m
  <2>4. stack'[m] = stack[m]
    BY <2>1
  <2>5. QED
    BY <2>1, <2>3, <2>4, SilentKept
<1>7. QED
  BY <1>1, <1>2, <1>3, <1>4, <1>5, <1>6, TwoCallers DEF Next

\* Once all that was posted is handled and the sequence is stopped, no bar sounds, unless a
\* consequence stopped it before the triggers that follow were walked (SilentWhenStopped):
\* where only the message thread's own calls start it, no bar fires only once, and a seek
\* fires nothing while the sequence is stopped.
THEOREM SilentOnceStopped == ASSUME OneStarter, NoOnce, QuietSeeks PROVE Spec => []SilentWhenStopped
<1>1. Silent => SilentWhenStopped
  <2> SUFFICES ASSUME Silent, Resting, ~playing, ~interrupted, NEW k \in Sustained PROVE ~trig[k].triggered
    BY DEF SilentWhenStopped, NeverHangs
  <2>1. stack[m] = <<>> /\ posted = <<>>
    BY TwoCallers DEF Resting
  <2>2. /\ \A i : i \notin 1 .. Len(stack[m])
        /\ \A i : i \notin 1 .. Len(posted)
    BY <2>1, EmptySeq
  <2>3. ~wasPlaying
    BY <2>2 DEF Silent, Informed, Ahead
  <2>4. ~Freed(stack[m], k)
    BY <2>2 DEF Freed
  <2>5. QED
    BY <2>3, <2>4 DEF Silent, Balanced, Endangered
<1>2. Init => Typed /\ Following /\ Sounding /\ Silent
  BY InitTyped, InitFollowing, InitSounding, InitSilent
<1>3. Typed /\ Following /\ Sounding /\ Silent /\ [Next]_vars => (Typed /\ Following /\ Sounding /\ Silent)'
  BY StepTyped, StepFollowing, StepSounding, StepSilent
<1>4. QED
  BY <1>1, <1>2, <1>3, PTL DEF Spec
=============================================================================
