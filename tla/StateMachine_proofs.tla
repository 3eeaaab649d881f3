------------------------ MODULE StateMachine_proofs ------------------------
(***************************************************************************)
(* Proofs about the state machine, for any set of states and transitions   *)
(* and, but for ActivityKept, any number of threads.                       *)
(***************************************************************************)
EXTENDS StateMachine, SequenceFacts_proofs

-----------------------------------------------------------------------------
\* The calls that are still to be made, by a thread or from a message.
Stacked == {ToSet(stack[th]) : th \in Threads}
Ahead == ToSet(posted) \union UNION Stacked

Kinds(q, K) == \A c \in ToSet(q) : c.do \in K

\* Which calls are where: only the message thread runs handlers.
Placed ==
  /\ \A th \in Threads \ {Message} : Kinds(stack[th], {"set", "fire", "release"})
  /\ Kinds(posted, {"changed", "update"})
  /\ depth = Count(stack[Message], {Leave})

TypeInv == TypeOK /\ Placed

\* What the calls are made of.
LEMMA CallFields ==
  ASSUME NEW c \in Calls
  PROVE  /\ c.do \in {"set", "load", "changed", "update", "evalDisabled", "link", "unlink",
                      "applyDisabled", "loop", "test", "fire", "release", "leave"}
         /\ c.do \in {"set", "load", "changed", "update", "evalDisabled", "link", "unlink",
                      "applyDisabled", "loop", "test"} => c.s \in States
         /\ c.do \in {"set", "applyDisabled"} => c.v \in BOOLEAN
         /\ c.do = "loop" => c.rest \in Seq(Transitions)
         /\ c.do = "test" => c.rest \in Seq(Transitions) \ {<<>>}
         /\ c.do \in {"fire", "release"} => c.t \in Transitions
         /\ c.do = "leave" <=> c = Leave
BY DEF Calls, Leave

LEMMA CallTypes ==
  /\ \A s \in States : /\ Load(s) \in Calls /\ Enabled(s) \in Calls /\ Changed(s) \in Calls
                       /\ EvalDisabled(s) \in Calls /\ Link(s) \in Calls /\ Unlink(s) \in Calls
                       /\ \A v \in BOOLEAN : Set(s, v) \in Calls /\ ApplyDisabled(s, v) \in Calls
                       /\ \A r \in Seq(Transitions) : /\ Loop(s, r) \in Calls
                                                      /\ r # <<>> => Test(s, r) \in Calls
  /\ \A t \in Transitions : Fire(t) \in Calls /\ Release(t) \in Calls
  /\ Leave \in Calls
BY DEF Calls, Load, Enabled, Changed, EvalDisabled, Link, Unlink, Set, ApplyDisabled,
       Loop, Test, Fire, Release, Leave

\* Which calls are not the end of a checked transition.
LEMMA NotLeave ==
  /\ \A s : /\ Load(s) # Leave /\ Enabled(s) # Leave /\ Changed(s) # Leave
            /\ EvalDisabled(s) # Leave /\ Link(s) # Leave /\ Unlink(s) # Leave
            /\ \A v : Set(s, v) # Leave /\ ApplyDisabled(s, v) # Leave
            /\ \A r : Loop(s, r) # Leave /\ Test(s, r) # Leave
  /\ \A t : Fire(t) # Leave /\ Release(t) # Leave
BY DEF Load, Enabled, Changed, EvalDisabled, Link, Unlink, Set, ApplyDisabled,
       Loop, Test, Fire, Release, Leave

\* The stacks after a call has left others to be made.
LEMMA Returned ==
  ASSUME stack \in [Threads -> Seq(Calls)], NEW th \in Threads, stack[th] # <<>>,
         NEW new \in Seq(Calls), Return(th, new)
  PROVE  /\ stack' \in [Threads -> Seq(Calls)]
         /\ stack'[th] = new \o Tail(stack[th])
         /\ \A u \in Threads \ {th} : stack'[u] = stack[u]
         /\ ToSet(stack[th]) = {Top(th)} \union ToSet(Tail(stack[th]))
         /\ ToSet(stack'[th]) = ToSet(new) \union ToSet(Tail(stack[th]))
         /\ Top(th) \in Calls
<1>1. stack[th] \in Seq(Calls)
  OBVIOUS
<1>2. /\ Head(stack[th]) \in Calls
      /\ ToSet(stack[th]) = {Head(stack[th])} \union ToSet(Tail(stack[th]))
  BY <1>1, HeadElements
<1>3. /\ new \o Tail(stack[th]) \in Seq(Calls)
      /\ ToSet(new \o Tail(stack[th])) = ToSet(new) \union ToSet(Tail(stack[th]))
  BY <1>1, ReplacedElements
<1>4. /\ stack'[th] = new \o Tail(stack[th])
      /\ \A u \in Threads \ {th} : stack'[u] = stack[u]
      /\ stack' \in [Threads -> Seq(Calls)]
  BY <1>3 DEF Return
<1>5. QED
  BY <1>2, <1>3, <1>4 DEF Top

\* A sequence with no Leave, or with one at its end.
LEMMA NoLeave ==
  ASSUME NEW q \in Seq(Calls), Leave \notin ToSet(q)
  PROVE  Count(q, {Leave}) = 0
<1>1. ~(\E i \in 1..Len(q) : q[i] \in {Leave})
  BY Elements
<1>2. QED
  BY <1>1, CountType

\* Placed holds after a step that leaves calls allowed on its thread.
LEMMA PlacedStep ==
  ASSUME TypeInv, NEW th \in Threads, stack[th] # <<>>,
         NEW new \in Seq(Calls), Return(th, new),
         th # Message => Kinds(new, {"set", "fire", "release"}),
         Kinds(posted', {"changed", "update"}),
         depth' = IF th = Message THEN depth + Count(new, {Leave}) - One(Top(th), {Leave})
                  ELSE depth
  PROVE  Placed' /\ stack' \in [Threads -> Seq(Calls)]
<1>1. stack \in [Threads -> Seq(Calls)] /\ Message \in Threads
  BY ConstantsAssumption DEF TypeInv, TypeOK
<1>2. /\ stack' \in [Threads -> Seq(Calls)]
      /\ stack'[th] = new \o Tail(stack[th])
      /\ \A u \in Threads \ {th} : stack'[u] = stack[u]
      /\ ToSet(stack[th]) = {Top(th)} \union ToSet(Tail(stack[th]))
      /\ ToSet(stack'[th]) = ToSet(new) \union ToSet(Tail(stack[th]))
  BY <1>1, Returned
<1>3. ASSUME NEW u \in Threads \ {Message} PROVE Kinds(stack'[u], {"set", "fire", "release"})
  BY <1>2 DEF Kinds, TypeInv, Placed
<1>4. depth' = Count(stack'[Message], {Leave})
  <2>1. depth = Count(stack[Message], {Leave})
    BY DEF TypeInv, Placed
  <2>2. CASE th = Message
    <3>1. Count(new \o Tail(stack[th]), {Leave}) =
            Count(new, {Leave}) + Count(stack[th], {Leave}) - One(Head(stack[th]), {Leave})
      BY <1>1, CountReplaced
    <3>2. /\ Count(new, {Leave}) \in Nat /\ Count(stack[th], {Leave}) \in Nat
          /\ One(Head(stack[th]), {Leave}) \in Nat
      <4>1. stack[th] \in Seq(Calls)
        BY <1>1
      <4>2. Count(stack[th], {Leave}) \in Nat
        BY <4>1, CountType
      <4>3. Count(new, {Leave}) \in Nat
        BY CountType
      <4>4. QED
        BY <4>2, <4>3 DEF One
    <3>3. depth' = Count(stack[th], {Leave}) + Count(new, {Leave}) - One(Top(th), {Leave})
      BY <2>1, <2>2
    <3>4. depth' = Count(new, {Leave}) + Count(stack[th], {Leave}) - One(Head(stack[th]), {Leave})
      BY <3>2, <3>3 DEF Top
    <3>5. QED
      BY <1>2, <2>2, <3>1, <3>4
  <2>3. CASE th # Message
    BY <1>1, <1>2, <2>1, <2>3
  <2>4. QED
    BY <2>2, <2>3
<1>5. QED
  BY <1>2, <1>3, <1>4 DEF Placed

\* Short lists of calls.
LEMMA Lists ==
  /\ <<>> \in Seq(Calls) /\ Leave \notin ToSet(<<>>)
  /\ \A x \in Calls : <<x>> \in Seq(Calls) /\ (x # Leave => Leave \notin ToSet(<<x>>))
  /\ \A x, y \in Calls : /\ <<x, y>> \in Seq(Calls)
                         /\ x # Leave /\ y # Leave => Leave \notin ToSet(<<x, y>>)
  /\ \A x, y, z \in Calls : /\ <<x, y, z>> \in Seq(Calls)
                            /\ x # Leave /\ y # Leave /\ z # Leave
                                 => Leave \notin ToSet(<<x, y, z>>)
BY ShortElements

LEMMA RunType ==
  ASSUME TypeInv, NEW s \in States
  PROVE  Running(s) \in BOOLEAN
BY DEF TypeInv, TypeOK, Running

LEMMA OutsType ==
  ASSUME TypeInv, NEW s
  PROVE  /\ Outs(s) \in Seq(Transitions)
         /\ ToSet(Outs(s)) = {t \in Existing : Src[t] = s}
         /\ Existing \subseteq Transitions
<1>1. trans \in Seq(Transitions)
  BY DEF TypeInv, TypeOK
<1>2. /\ Outs(s) \in Seq(Transitions)
      /\ ToSet(Outs(s)) = ToSet(trans) \cap {t \in Transitions : Src[t] = s}
  BY <1>1, SelectedPicks, SelectedElements DEF Outs
<1>3. Existing \subseteq Transitions
  BY <1>1, Elements DEF Existing
<1>4. QED
  BY <1>2, <1>3 DEF Existing

LEMMA LinkedType ==
  ASSUME NEW s
  PROVE  Linked(s) \subseteq States /\ IsFiniteSet(Linked(s)) /\ s \notin Linked(s)
<1>1. Linked(s) \in SUBSET States /\ s \notin Linked(s)
  BY DEF Linked
<1>2. QED
  BY <1>1, FS_Subset, ConstantsAssumption

\* The calls that set the states linked to s inactive.
Stops(s) == LET others == SetToSeq(Rivals(s))
            IN  [i \in 1..Len(others) |-> Set(others[i], FALSE)]

LEMMA StopsElements ==
  ASSUME NEW s
  PROVE  /\ Stops(s) \in Seq(Calls)
         /\ ToSet(Stops(s)) = {Set(l, FALSE) : l \in Linked(s)}
<1> DEFINE others == SetToSeq(Rivals(s))
<1>1. Rivals(s) = Linked(s) /\ Linked(s) \subseteq States /\ IsFiniteSet(Linked(s))
  BY LinkedType DEF Rivals
<1>2. others \in Seq(Linked(s)) /\ ToSet(others) = Linked(s)
  BY <1>1, ListedElements
<1> HIDE DEF others
<1>3. Len(others) \in Nat /\ \A i \in 1..Len(others) : others[i] \in States
  BY <1>1, <1>2, ElementOfSeq
<1> DEFINE q == [i \in 1..Len(others) |-> Set(others[i], FALSE)]
<1>4. q \in Seq(Calls) /\ DOMAIN q = 1..Len(others) /\ DOMAIN others = 1..Len(others)
  <2>1. \A i \in 1..Len(others) : Set(others[i], FALSE) \in Calls
    BY <1>3, CallTypes
  <2>2. q \in [1..Len(others) -> Calls]
    BY <2>1
  <2>3. DOMAIN others = 1..Len(others)
    BY <1>2, LenProperties
  <2> HIDE DEF q
  <2>4. q \in Seq(Calls) /\ DOMAIN q = 1..Len(others)
    BY <1>3, <2>2
  <2>5. QED
    BY <2>3, <2>4
<1>5. ToSet(q) = {Set(l, FALSE) : l \in Linked(s)}
  BY <1>2, <1>4 DEF ToSet
<1>6. Stops(s) = q
  BY DEF Stops, others
<1>7. QED
  BY <1>4, <1>5, <1>6

LEMMA TypeInit ==
  Init => TypeInv
<1> SUFFICES ASSUME Init PROVE TypeInv
  OBVIOUS
<1>1. PICK order \in SetToSeqs(States) :
        stack = [th \in Threads |->
                  IF th = Message THEN [i \in 1..Len(order) |-> Load(order[i])] ELSE <<>>]
  BY DEF Init
<1>2. Len(order) \in Nat /\ \A i \in 1..Len(order) : order[i] \in States
  <2>1. Cardinality(States) \in Nat /\ order \in [1..Cardinality(States) -> States]
    BY ConstantsAssumption, FS_CardinalityType DEF SetToSeqs
  <2>2. order \in Seq(States)
    BY <2>1
  <2>3. QED
    BY <2>2, ElementOfSeq
<1> DEFINE loads == [i \in 1..Len(order) |-> Load(order[i])]
<1>3. loads \in Seq(Calls) /\ Leave \notin ToSet(loads)
  <2>1. \A i \in 1..Len(order) : loads[i] \in Calls /\ loads[i] # Leave
    BY <1>2, CallTypes, NotLeave
  <2>2. loads \in Seq(Calls) /\ DOMAIN loads = 1..Len(order)
    BY <1>2, <2>1
  <2>3. QED
    BY <2>1, <2>2 DEF ToSet
<1>4. stack \in [Threads -> Seq(Calls)] /\ stack[Message] = loads
      /\ \A th \in Threads \ {Message} : stack[th] = <<>>
  BY <1>1, <1>3, ConstantsAssumption
<1>5. TypeOK
  <2>1. valid \in [Transitions -> BOOLEAN]
    <3> DEFINE A == ToSet(Start) \ (OnActivate \union Pulsed)
    <3>1. valid = [t \in Transitions |-> FALSE] \/ valid = [t \in Transitions |-> t \in A]
      BY DEF Init
    <3> HIDE DEF A
    <3>2. \A t \in Transitions : (t \in A) \in BOOLEAN
      OBVIOUS
    <3>3. [t \in Transitions |-> FALSE] \in [Transitions -> BOOLEAN]
          /\ [t \in Transitions |-> t \in A] \in [Transitions -> BOOLEAN]
      BY <3>2, Zenon
    <3>4. QED
      BY <3>1, <3>3
  <2>2. /\ pmDisabled \in [States -> BOOLEAN] /\ enabled \in [States -> BOOLEAN]
        /\ active \in [States -> BOOLEAN] /\ ever \in SUBSET States
    BY DEF Init
  <2>3. trans \in Seq(Transitions) /\ depth \in 0..MaxDepth /\ posted \in Seq(Calls)
    BY ConstantsAssumption DEF Init
  <2>4. tEnabled \in [Transitions -> BOOLEAN] /\ triggering \in SUBSET Transitions
        /\ bridged \in BOOLEAN
    BY DEF Init
  <2>5. QED
    BY <1>4, <2>1, <2>2, <2>3, <2>4 DEF TypeOK
<1>6. Placed
  BY <1>3, <1>4, NoLeave, ShortElements DEF Init, Placed, Kinds
<1>7. QED
  BY <1>5, <1>6 DEF TypeInv

-----------------------------------------------------------------------------
LEMMA TypeStep ==
  ASSUME TypeInv, NEW th \in Threads, Step(th)
  PROVE  TypeInv'
<1> USE DEF TypeInv
<1>0. /\ stack \in [Threads -> Seq(Calls)] /\ posted \in Seq(Calls)
      /\ Kinds(posted, {"changed", "update"})
      /\ active \in [States -> BOOLEAN] /\ enabled \in [States -> BOOLEAN]
      /\ depth \in 0..MaxDepth
  BY DEF TypeOK, Placed
<1>1. ASSUME stack[th] # <<>>
      PROVE  /\ Top(th) \in Calls /\ One(Top(th), {Leave}) = IF Top(th).do = "leave" THEN 1 ELSE 0
             /\ th # Message => Top(th).do \in {"set", "fire", "release"}
             /\ \A s \in States : Running(s) \in BOOLEAN
             /\ Tail(stack[th]) \in Seq(Calls)
  <2>1. /\ Top(th) \in Calls /\ Tail(stack[th]) \in Seq(Calls)
        /\ ToSet(stack[th]) = {Top(th)} \union ToSet(Tail(stack[th]))
    <3>1. stack[th] \in Seq(Calls)
      BY <1>0
    <3>2. QED
      BY <1>1, <3>1, HeadElements DEF Top
  <2>2. One(Top(th), {Leave}) = IF Top(th).do = "leave" THEN 1 ELSE 0
    BY <2>1, CallFields DEF One
  <2>3. th # Message => Top(th).do \in {"set", "fire", "release"}
    BY <2>1 DEF Placed, Kinds
  <2>4. QED
    BY <1>0, <2>1, <2>2, <2>3 DEF Running
\* Every call but the end of a checked transition, when it leaves no such end.
<1>2. ASSUME NEW new \in Seq(Calls), Return(th, new), stack[th] # <<>>,
             Top(th).do # "leave", Leave \notin ToSet(new),
             th # Message => Kinds(new, {"set", "fire", "release"}),
             Kinds(posted', {"changed", "update"}), depth' = depth
      PROVE  Placed' /\ stack' \in [Threads -> Seq(Calls)]
  <2>1. Count(new, {Leave}) = 0 /\ One(Top(th), {Leave}) = 0
    BY <1>1, <1>2, NoLeave
  <2>2. depth' = IF th = Message THEN depth + Count(new, {Leave}) - One(Top(th), {Leave})
                 ELSE depth
    BY <1>0, <1>2, <2>1
  <2>3. QED
    BY <1>2, <2>2, PlacedStep
<1>3. CASE HandleLoadActivation(th)
  <2> DEFINE new == IF Running(Top(th).s) THEN <<Changed(Top(th).s)>> ELSE <<>>
  <2>1. stack[th] # <<>> /\ Top(th).do = "load" /\ Return(th, new) /\ UNCHANGED data
    BY <1>3 DEF HandleLoadActivation, Calling
  <2>2. new \in Seq(Calls) /\ Leave \notin ToSet(new)
    BY <1>1, <2>1, CallFields, CallTypes, NotLeave, ShortElements
  <2>3. Placed' /\ stack' \in [Threads -> Seq(Calls)]
    BY <1>0, <1>1, <1>2, <2>1, <2>2 DEF data
  <2>4. QED
    BY <2>1, <2>3 DEF TypeOK, data, history, Existing
<1>4. CASE HandleEnabled(th)
  <2>1. stack[th] # <<>> /\ Top(th).do = "update" /\ Return(th, Update(Top(th).s))
        /\ UNCHANGED data
    BY <1>4 DEF HandleEnabled, Calling
  <2>2. Update(Top(th).s) \in Seq(Calls) /\ Leave \notin ToSet(Update(Top(th).s))
    BY <1>1, <2>1, CallFields, CallTypes, NotLeave, ShortElements DEF Update
  <2>3. Placed' /\ stack' \in [Threads -> Seq(Calls)]
    BY <1>0, <1>1, <1>2, <2>1, <2>2 DEF data
  <2>4. QED
    BY <2>1, <2>3 DEF TypeOK, data, history
<1>5. CASE SetValue(th)
  <2> DEFINE s == Top(th).s
             new == IF active[s] = Top(th).v \/ th # Message THEN <<>> ELSE <<Changed(s)>>
  <2>1. stack[th] # <<>> /\ Top(th).do = "set" /\ depth' = depth /\ Return(th, new)
    BY <1>5 DEF SetValue, Calling
  <2>2. s \in States /\ Top(th).v \in BOOLEAN /\ Changed(s) \in Calls
    BY <1>1, <2>1, CallFields, CallTypes
  <2>3. new \in Seq(Calls) /\ Leave \notin ToSet(new)
        /\ (th # Message => Kinds(new, {"set", "fire", "release"}))
    BY <2>2, NotLeave, ShortElements DEF Kinds
  <2>4. posted' \in Seq(Calls) /\ Kinds(posted', {"changed", "update"})
    <3>1. posted' = posted \/ posted' = Append(posted, Changed(s))
      BY <1>5 DEF SetValue, Post
    <3>2. Changed(s).do = "changed"
      BY DEF Changed
    <3>3. /\ Append(posted, Changed(s)) \in Seq(Calls)
          /\ ToSet(Append(posted, Changed(s))) = ToSet(posted) \union {Changed(s)}
      BY <1>0, <2>2, AppendElements
    <3>4. QED
      BY <1>0, <3>1, <3>2, <3>3 DEF Kinds
  <2>5. Placed' /\ stack' \in [Threads -> Seq(Calls)]
    BY <1>2, <2>1, <2>3, <2>4
  <2>6. active' \in [States -> BOOLEAN] /\ ever' \in SUBSET States
    BY <1>5, <2>2 DEF SetValue, TypeOK
  <2>7. QED
    BY <1>5, <2>4, <2>5, <2>6 DEF SetValue, TypeOK
<1>6. CASE HandleActiveChanged(th)
  <2> DEFINE s == Top(th).s
             new == IF ~enabled[s] THEN <<>>
                    ELSE IF active[s] THEN <<EvalDisabled(s), Link(s), Loop(s, Outs(s))>>
                    ELSE Update(s)
  <2>1. stack[th] # <<>> /\ Top(th).do = "changed" /\ depth' = depth /\ posted' = posted
        /\ Return(th, new)
    BY <1>6 DEF HandleActiveChanged, Calling
  <2>2. s \in States /\ Outs(s) \in Seq(Transitions)
    BY <1>1, <2>1, CallFields, OutsType
  <2>3. new \in Seq(Calls) /\ Leave \notin ToSet(new)
    <3>1. EvalDisabled(s) \in Calls /\ Link(s) \in Calls /\ Loop(s, Outs(s)) \in Calls
      BY <2>2, CallTypes
    <3>2. <<EvalDisabled(s), Link(s), Loop(s, Outs(s))>> \in Seq(Calls) /\ Update(s) \in Seq(Calls)
          /\ <<>> \in Seq(Calls)
      BY <3>1 DEF Update
    <3>3. Leave \notin ToSet(<<EvalDisabled(s), Link(s), Loop(s, Outs(s))>>)
          /\ Leave \notin ToSet(Update(s)) /\ Leave \notin ToSet(<<>>)
      BY NotLeave, ShortElements DEF Update
    <3>4. QED
      BY <3>2, <3>3
  <2>4. Placed' /\ stack' \in [Threads -> Seq(Calls)]
    BY <1>0, <1>1, <1>2, <2>1, <2>3
  <2>5. valid' \in [Transitions -> BOOLEAN]
    BY <1>6 DEF HandleActiveChanged, TypeOK
  <2>6. QED
    BY <1>6, <2>4, <2>5 DEF HandleActiveChanged, TypeOK, history
<1>7. CASE ComputeDisabled(th)
  <2> DEFINE s == Top(th).s
  <2>1. stack[th] # <<>> /\ Top(th).do = "evalDisabled" /\ UNCHANGED data
        /\ Return(th, <<ApplyDisabled(s, ~Running(s))>>)
    BY <1>7 DEF ComputeDisabled, Calling
  <2>2. <<ApplyDisabled(s, ~Running(s))>> \in Seq(Calls)
        /\ Leave \notin ToSet(<<ApplyDisabled(s, ~Running(s))>>)
    <3>1. s \in States
      BY <1>1, <2>1, CallFields
    <3>2. (~Running(s)) \in BOOLEAN
      OBVIOUS
    <3>3. ApplyDisabled(s, ~Running(s)) \in Calls /\ ApplyDisabled(s, ~Running(s)) # Leave
      BY <3>1, <3>2, CallTypes, NotLeave
    <3>4. QED
      BY <3>3, Lists
  <2>3. Placed' /\ stack' \in [Threads -> Seq(Calls)]
    BY <1>0, <1>1, <1>2, <2>1, <2>2 DEF data
  <2>4. QED
    BY <2>1, <2>3 DEF TypeOK, data, history
<1>8. CASE SetForceDisabled(th)
  <2>1. stack[th] # <<>> /\ Top(th).do = "applyDisabled" /\ Return(th, <<>>)
        /\ depth' = depth /\ posted' = posted
    BY <1>8 DEF SetForceDisabled, Calling
  <2>2. <<>> \in Seq(Calls) /\ Leave \notin ToSet(<<>>)
    BY ShortElements
  <2>3. Placed' /\ stack' \in [Threads -> Seq(Calls)]
    BY <1>0, <1>1, <1>2, <2>1, <2>2
  <2>4. pmDisabled' \in [States -> BOOLEAN]
    BY <1>1, <1>8, <2>1, CallFields DEF SetForceDisabled, TypeOK
  <2>5. QED
    BY <1>8, <2>3, <2>4 DEF SetForceDisabled, TypeOK, history
<1>9. CASE StateActivationChanged(th)
  <2> DEFINE new == IF active[Top(th).s] THEN <<Unlink(Top(th).s)>> ELSE <<>>
  <2>1. stack[th] # <<>> /\ Top(th).do = "link" /\ Return(th, new) /\ UNCHANGED data
    BY <1>9 DEF StateActivationChanged, Calling
  <2>2. new \in Seq(Calls) /\ Leave \notin ToSet(new)
    BY <1>1, <2>1, CallFields, CallTypes, NotLeave, ShortElements
  <2>3. Placed' /\ stack' \in [Threads -> Seq(Calls)]
    BY <1>0, <1>1, <1>2, <2>1, <2>2 DEF data
  <2>4. QED
    BY <2>1, <2>3 DEF TypeOK, data, history
<1>10. CASE SetStateActive(th)
  <2>1. stack[th] # <<>> /\ Top(th).do = "unlink" /\ Return(th, Stops(Top(th).s))
        /\ UNCHANGED data
    BY <1>10 DEF SetStateActive, Calling, Stops
  <2> DEFINE s == Top(th).s
  <2>2. Stops(s) \in Seq(Calls) /\ Leave \notin ToSet(Stops(s))
    <3> HIDE DEF s
    <3>1. Stops(s) \in Seq(Calls) /\ ToSet(Stops(s)) = {Set(l, FALSE) : l \in Linked(s)}
      BY StopsElements
    <3>2. QED
      BY <3>1, NotLeave
  <2>3. Placed' /\ stack' \in [Threads -> Seq(Calls)]
    BY <1>0, <1>1, <1>2, <2>1, <2>2 DEF data
  <2>4. QED
    BY <2>1, <2>3 DEF TypeOK, data, history
<1>11. CASE VisitTransition(th)
  <2> DEFINE s == Top(th).s
             rest == Top(th).rest
             t == Head(rest)
             new == IF rest = <<>> THEN <<>>
                    ELSE IF t \in OnActivate /\ CanTrigger(t)
                    THEN <<Fire(t), Release(t), Test(s, rest)>> ELSE <<Test(s, rest)>>
  <2>1. stack[th] # <<>> /\ Top(th).do = "loop" /\ depth' = depth /\ posted' = posted
        /\ Return(th, new)
    BY <1>11 DEF VisitTransition, Calling
  <2>2. s \in States /\ rest \in Seq(Transitions)
    BY <1>1, <2>1, CallFields
  <2>3. rest # <<>> => t \in Transitions
    BY <2>2, HeadElements
  <2>4. new \in Seq(Calls) /\ Leave \notin ToSet(new)
    <3>1. rest # <<>> => Fire(t) \in Calls /\ Release(t) \in Calls /\ Test(s, rest) \in Calls
      BY <2>2, <2>3, CallTypes
    <3>2. CASE rest = <<>>
      BY <3>2, Lists
    <3>3. CASE rest # <<>>
      BY <3>1, <3>3, NotLeave, Lists
    <3>4. QED
      BY <3>2, <3>3
  <2>5. Placed' /\ stack' \in [Threads -> Seq(Calls)]
    BY <1>0, <1>1, <1>2, <2>1, <2>4
  <2>6. valid' \in [Transitions -> BOOLEAN] /\ triggering' \in SUBSET Transitions
    <3>1. rest # <<>> => Forced(t) \subseteq BOOLEAN
      BY <2>3 DEF Forced, TypeOK
    <3>2. QED
      BY <1>11, <2>3, <3>1 DEF VisitTransition, TypeOK
  <2>7. QED
    BY <1>11, <2>5, <2>6 DEF VisitTransition, TypeOK, history
<1>12. CASE TestTransition(th)
  <2> DEFINE s == Top(th).s
             rest == Top(th).rest
             t == Head(rest)
  <2>1. stack[th] # <<>> /\ Top(th).do = "test" /\ posted' = posted /\ th = Message
    BY <1>1, <1>12 DEF TestTransition, Calling
  <2>2. s \in States /\ rest \in Seq(Transitions) /\ rest # <<>>
    BY <1>1, <2>1, CallFields
  <2>3. t \in Transitions /\ Tail(rest) \in Seq(Transitions)
    BY <2>2, HeadElements
  <2>4. ASSUME ~(s \in Check /\ valid[t])
        PROVE  Placed' /\ stack' \in [Threads -> Seq(Calls)]
    <3> DEFINE new == <<Loop(s, Tail(rest))>>
    <3>1. Return(th, new) /\ depth' = depth
      BY <1>12, <2>4 DEF TestTransition, Advance
    <3>2. Loop(s, Tail(rest)) \in Calls /\ Loop(s, Tail(rest)) # Leave
      BY <2>2, <2>3, CallTypes, NotLeave
    <3>3. new \in Seq(Calls) /\ Leave \notin ToSet(new)
      BY <3>2, Lists
    <3> HIDE DEF new
    <3>4. QED
      BY <1>0, <1>2, <2>1, <3>1, <3>3
  <2>5. ASSUME s \in Check /\ valid[t] /\ depth >= MaxDepth
        PROVE  Placed' /\ stack' \in [Threads -> Seq(Calls)]
    <3> DEFINE new == <<>>
    <3>1. Return(th, new) /\ depth' = depth
      BY <1>12, <2>5 DEF TestTransition, TooDeep
    <3>2. new \in Seq(Calls) /\ Leave \notin ToSet(new)
      BY Lists
    <3> HIDE DEF new
    <3>3. QED
      BY <1>0, <1>2, <2>1, <3>1, <3>2
  <2>6. ASSUME s \in Check /\ valid[t] /\ ~(depth >= MaxDepth)
        PROVE  Placed' /\ stack' \in [Threads -> Seq(Calls)]
    <3> DEFINE new == <<Fire(t), Leave>>
    <3>1. Return(th, new) /\ depth' = depth + 1
      BY <1>12, <2>6 DEF TestTransition, TooDeep
    <3>2. Fire(t) \in Calls /\ Leave \in Calls /\ Fire(t) # Leave
      BY <2>3, CallTypes, NotLeave
    <3> DEFINE fire == <<Fire(t)>>
               leave == <<Leave>>
    <3>3. fire \in Seq(Calls) /\ leave \in Seq(Calls) /\ new = fire \o leave /\ new \in Seq(Calls)
      BY <3>2
    <3>5. Count(fire, {Leave}) = 0 /\ Count(leave, {Leave}) = 1
      BY <3>2, CountOne DEF One
    <3> HIDE DEF new, fire, leave
    <3>4. Count(fire \o leave, {Leave}) = Count(fire, {Leave}) + Count(leave, {Leave})
      BY <3>3, CountConcat
    <3>6. Count(new, {Leave}) = 1 /\ new \in Seq(Calls)
      BY <3>3, <3>4, <3>5
    <3>7. One(Top(th), {Leave}) = 0
      BY <1>1, <2>1
    <3>8. depth' = depth + Count(new, {Leave}) - One(Top(th), {Leave})
      BY <1>0, <3>1, <3>6, <3>7
    <3>9. QED
      BY <1>0, <2>1, <3>1, <3>6, <3>8, PlacedStep
  <2>7. Placed' /\ stack' \in [Threads -> Seq(Calls)]
    BY <2>4, <2>5, <2>6
  <2>8. depth' \in 0..MaxDepth
    BY <1>0, <1>12, ConstantsAssumption DEF TestTransition, TooDeep
  <2>9. QED
    BY <1>12, <2>7, <2>8 DEF TestTransition, TypeOK, history
<1>13. CASE LeaveTransition(th)
  <2>1. stack[th] # <<>> /\ Top(th).do = "leave" /\ posted' = posted /\ th = Message
        /\ Return(th, <<>>) /\ depth' = depth - 1
    BY <1>1, <1>13 DEF LeaveTransition, Calling
  <2>2. <<>> \in Seq(Calls) /\ Count(<<>>, {Leave}) = 0
    BY CountOne
  <2>3. One(Top(th), {Leave}) = 1
    BY <1>1, <2>1
  <2>4. depth' = depth + Count(<<>>, {Leave}) - One(Top(th), {Leave})
    BY <1>0, <2>1, <2>2, <2>3
  <2>5. Placed' /\ stack' \in [Threads -> Seq(Calls)]
    BY <1>0, <2>1, <2>2, <2>4, PlacedStep
  <2>6. depth > 0
    <3>1. Top(th) \in ToSet(stack[th]) /\ Top(th) = Leave /\ stack[th] \in Seq(Calls)
      <4>1. stack[th] \in Seq(Calls)
        BY <1>0
      <4>2. ToSet(stack[th]) = {Head(stack[th])} \union ToSet(Tail(stack[th]))
        BY <2>1, <4>1, HeadElements
      <4>3. QED
        BY <1>1, <2>1, <4>1, <4>2, CallFields DEF Top
    <3>2. \E i \in 1..Len(stack[th]) : stack[th][i] \in {Leave}
      BY <3>1, Elements
    <3>3. Count(stack[th], {Leave}) > 0
      BY <3>1, <3>2, CountType
    <3>4. QED
      BY <2>1, <3>3 DEF Placed
  <2>7. depth' \in 0..MaxDepth
    BY <1>0, <2>1, <2>6, ConstantsAssumption
  <2>8. QED
    BY <1>13, <2>5, <2>7 DEF LeaveTransition, TypeOK, history
<1>14. CASE FireTransition(th)
  <2> DEFINE t == Top(th).t
             new == IF active[Src[t]] THEN Switch(t) ELSE <<>>
  <2>1. stack[th] # <<>> /\ Top(th).do = "fire" /\ Return(th, new) /\ UNCHANGED data
    BY <1>14 DEF FireTransition, Calling
  <2>2. Src[t] \in States /\ Dst[t] \in States
    BY <1>1, <2>1, CallFields, ConstantsAssumption
  <2>3. new \in Seq(Calls) /\ Leave \notin ToSet(new)
    <3>1. /\ Set(Src[t], FALSE) \in Calls /\ Set(Dst[t], TRUE) \in Calls
          /\ Set(Src[t], FALSE) # Leave /\ Set(Dst[t], TRUE) # Leave
      BY <2>2, CallTypes, NotLeave
    <3>2. Switch(t) \in Seq(Calls) /\ Leave \notin ToSet(Switch(t))
      BY <3>1, Lists DEF Switch
    <3>3. QED
      BY <3>2, Lists
  <2>4. Kinds(new, {"set", "fire", "release"})
    BY ShortElements DEF Kinds, Switch, Set
  <2>5. Placed' /\ stack' \in [Threads -> Seq(Calls)]
    BY <1>0, <1>2, <2>1, <2>3, <2>4 DEF data
  <2>6. QED
    BY <2>1, <2>5 DEF TypeOK, data, history
<1>15. CASE ReleaseTrigger(th)
  <2>1. stack[th] # <<>> /\ Top(th).do = "release" /\ Return(th, <<>>)
        /\ depth' = depth /\ posted' = posted
    BY <1>15 DEF ReleaseTrigger, Calling
  <2>2. <<>> \in Seq(Calls) /\ Leave \notin ToSet(<<>>) /\ Kinds(<<>>, {"set", "fire", "release"})
    BY ShortElements DEF Kinds
  <2>3. Placed' /\ stack' \in [Threads -> Seq(Calls)]
    BY <1>0, <1>2, <2>1, <2>2
  <2>4. valid' \in [Transitions -> BOOLEAN] /\ triggering' \in SUBSET Transitions
    BY <1>1, <1>15, <2>1, CallFields DEF ReleaseTrigger, TypeOK
  <2>5. QED
    BY <1>15, <2>3, <2>4 DEF ReleaseTrigger, TypeOK, history
<1>16. QED
  BY <1>3, <1>4, <1>5, <1>6, <1>7, <1>8, <1>9, <1>10, <1>11, <1>12, <1>13, <1>14, <1>15
     DEF Step

\* Calls given to a thread that has none to make.
LEMMA Begun ==
  ASSUME TypeInv, NEW th \in Threads, NEW new \in Seq(Calls), Begin(th, new),
         Leave \notin ToSet(new),
         th # Message => Kinds(new, {"set", "fire", "release"}),
         Kinds(posted', {"changed", "update"}), depth' = depth
  PROVE  /\ Placed' /\ stack' \in [Threads -> Seq(Calls)]
         /\ stack'[th] = new /\ stack[th] = <<>>
         /\ \A u \in Threads \ {th} : stack'[u] = stack[u]
<1>1. stack \in [Threads -> Seq(Calls)] /\ Message \in Threads
  BY ConstantsAssumption DEF TypeInv, TypeOK
<1>2. /\ stack' \in [Threads -> Seq(Calls)]
      /\ stack'[th] = new /\ stack[th] = <<>>
      /\ \A u \in Threads \ {th} : stack'[u] = stack[u]
  BY <1>1 DEF Begin
<1>3. ASSUME NEW u \in Threads \ {Message} PROVE Kinds(stack'[u], {"set", "fire", "release"})
  BY <1>2 DEF TypeInv, Placed
<1>4. depth' = Count(stack'[Message], {Leave})
  <2>1. depth = Count(stack[Message], {Leave})
    BY DEF TypeInv, Placed
  <2>2. CASE th = Message
    <3>1. Count(new, {Leave}) = 0 /\ Count(<<>>, {Leave}) = 0
      BY NoLeave, CountOne
    <3>2. QED
      BY <1>2, <2>1, <2>2, <3>1
  <2>3. CASE th # Message
    BY <1>1, <1>2, <2>1, <2>3
  <2>4. QED
    BY <2>2, <2>3
<1>5. QED
  BY <1>2, <1>3, <1>4 DEF Placed

LEMMA TypeHandle ==
  ASSUME TypeInv, HandlePosted
  PROVE  /\ TypeInv' /\ Head(posted) \in Calls
         /\ stack[Message] = <<>> /\ stack'[Message] = <<Head(posted)>>
         /\ \A u \in Threads \ {Message} : stack'[u] = stack[u]
         /\ ToSet(posted) = {Head(posted)} \union ToSet(posted')
         /\ Head(posted).do \in {"changed", "update"}
<1>1. /\ stack \in [Threads -> Seq(Calls)] /\ posted \in Seq(Calls) /\ posted # <<>>
      /\ Message \in Threads /\ Kinds(posted, {"changed", "update"})
      /\ posted' = Tail(posted) /\ stack[Message] = <<>> /\ depth' = depth
      /\ stack' = [stack EXCEPT ![Message] = <<Head(posted)>>]
  BY ConstantsAssumption DEF TypeInv, TypeOK, Placed, HandlePosted
<1>2. /\ Head(posted) \in Calls /\ posted' \in Seq(Calls)
      /\ ToSet(posted) = {Head(posted)} \union ToSet(posted')
  BY <1>1, HeadElements
<1>3. Head(posted).do \in {"changed", "update"} /\ Kinds(posted', {"changed", "update"})
  BY <1>1, <1>2 DEF Kinds
<1>4. Head(posted) # Leave
  BY <1>2, <1>3, CallFields
<1>5. <<Head(posted)>> \in Seq(Calls) /\ Leave \notin ToSet(<<Head(posted)>>)
  BY <1>2, <1>4, Lists
<1>6. /\ stack'[Message] = <<Head(posted)>> /\ stack' \in [Threads -> Seq(Calls)]
      /\ \A u \in Threads \ {Message} : stack'[u] = stack[u]
  BY <1>1, <1>5
<1>7. depth' = Count(stack'[Message], {Leave})
  <2>1. depth = Count(<<>>, {Leave})
    BY <1>1 DEF TypeInv, Placed
  <2>2. Count(<<Head(posted)>>, {Leave}) = 0 /\ Count(<<>>, {Leave}) = 0
    BY <1>5, NoLeave, CountOne
  <2>3. QED
    BY <1>1, <1>6, <2>1, <2>2
<1>8. Placed'
  BY <1>3, <1>6, <1>7 DEF Placed, TypeInv
<1>9. TypeOK'
  BY <1>2, <1>6 DEF TypeInv, TypeOK, HandlePosted, history
<1>10. QED
  BY <1>1, <1>2, <1>3, <1>6, <1>8, <1>9 DEF TypeInv

\* What the environment's actions start: no end of a checked transition.
LEMMA Starts ==
  /\ \A s \in States : \A v \in BOOLEAN :
       /\ <<Set(s, v)>> \in Seq(Calls) /\ Leave \notin ToSet(<<Set(s, v)>>)
       /\ ToSet(<<Set(s, v)>>) = {Set(s, v)}
       /\ Kinds(<<Set(s, v)>>, {"set", "fire", "release"})
  /\ \A s \in States :
       /\ <<Enabled(s)>> \in Seq(Calls) /\ Leave \notin ToSet(<<Enabled(s)>>)
       /\ ToSet(<<Enabled(s)>>) = {Enabled(s)}
  /\ \A t \in Transitions :
       /\ <<Fire(t), Release(t)>> \in Seq(Calls) /\ Leave \notin ToSet(<<Fire(t), Release(t)>>)
       /\ ToSet(<<Fire(t), Release(t)>>) = {Fire(t), Release(t)}
       /\ Kinds(<<Fire(t), Release(t)>>, {"set", "fire", "release"})
       /\ Joined(t) \in Seq(Calls) /\ Leave \notin ToSet(Joined(t))
  /\ <<>> \in Seq(Calls) /\ Leave \notin ToSet(<<>>) /\ Kinds(<<>>, {"set", "fire", "release"})
<1>1. ASSUME NEW s \in States, NEW v \in BOOLEAN
      PROVE  /\ <<Set(s, v)>> \in Seq(Calls) /\ Leave \notin ToSet(<<Set(s, v)>>)
             /\ ToSet(<<Set(s, v)>>) = {Set(s, v)}
             /\ Kinds(<<Set(s, v)>>, {"set", "fire", "release"})
  <2>1. Set(s, v) \in Calls /\ Set(s, v) # Leave /\ Set(s, v).do = "set"
    <3>1. Set(s, v).do = "set"
      BY DEF Set
    <3>2. QED
      BY <3>1, CallTypes, NotLeave
  <2>2. QED
    BY <2>1, Lists, ShortElements DEF Kinds
<1>2. ASSUME NEW s \in States
      PROVE  /\ <<Enabled(s)>> \in Seq(Calls) /\ Leave \notin ToSet(<<Enabled(s)>>)
             /\ ToSet(<<Enabled(s)>>) = {Enabled(s)}
  BY CallTypes, NotLeave, Lists, ShortElements
<1>3. ASSUME NEW t \in Transitions
      PROVE  /\ <<Fire(t), Release(t)>> \in Seq(Calls)
             /\ Leave \notin ToSet(<<Fire(t), Release(t)>>)
             /\ ToSet(<<Fire(t), Release(t)>>) = {Fire(t), Release(t)}
             /\ Kinds(<<Fire(t), Release(t)>>, {"set", "fire", "release"})
             /\ Joined(t) \in Seq(Calls) /\ Leave \notin ToSet(Joined(t))
  <2>1. Fire(t) \in Calls /\ Release(t) \in Calls /\ Fire(t) # Leave /\ Release(t) # Leave
    BY CallTypes, NotLeave
  <2>2. Fire(t).do = "fire" /\ Release(t).do = "release"
    BY DEF Fire, Release
  <2>3. /\ <<Fire(t), Release(t)>> \in Seq(Calls) /\ Leave \notin ToSet(<<Fire(t), Release(t)>>)
        /\ ToSet(<<Fire(t), Release(t)>>) = {Fire(t), Release(t)}
    BY <2>1, Lists, ShortElements
  <2>4. Kinds(<<Fire(t), Release(t)>>, {"set", "fire", "release"})
    BY <2>2, <2>3 DEF Kinds
  <2>5. Src[t] \in States /\ Dst[t] \in States
    BY ConstantsAssumption
  <2>6. \A s \in States : <<Unlink(s)>> \in Seq(Calls) /\ Leave \notin ToSet(<<Unlink(s)>>)
    BY CallTypes, NotLeave, Lists
  <2>7. Joined(t) \in Seq(Calls) /\ Leave \notin ToSet(Joined(t))
    BY <2>5, <2>6, Lists DEF Joined
  <2>8. QED
    BY <2>3, <2>4, <2>7
<1>4. Kinds(<<>>, {"set", "fire", "release"})
  BY ShortElements DEF Kinds
<1>5. QED
  BY <1>1, <1>2, <1>3, <1>4, Lists

LEMMA TypeEnvironment ==
  ASSUME TypeInv, Environment
  PROVE  TypeInv'
<1> USE DEF TypeInv
<1>0. /\ Kinds(posted, {"changed", "update"}) /\ posted \in Seq(Calls)
      /\ active \in [States -> BOOLEAN] /\ enabled \in [States -> BOOLEAN]
      /\ valid \in [Transitions -> BOOLEAN] /\ trans \in Seq(Transitions)
      /\ Message \in Threads
  BY ConstantsAssumption DEF TypeOK, Placed
<1>1. ASSUME NEW th \in Threads, NEW t \in Transitions, PulseConditions(th, t) PROVE TypeInv'
  <2> DEFINE fires == ~valid[t] /\ CanTrigger(t)
             new == IF fires THEN <<Fire(t), Release(t)>> ELSE <<>>
  <2>1. Begin(th, new) /\ posted' = posted /\ depth' = depth
    BY <1>1 DEF PulseConditions
  <2>2. new \in Seq(Calls) /\ Leave \notin ToSet(new) /\ Kinds(new, {"set", "fire", "release"})
    BY Starts
  <2>3. Placed' /\ stack' \in [Threads -> Seq(Calls)]
    <3> HIDE DEF new
    <3>1. QED
      BY <1>0, <2>1, <2>2, Begun
  <2>4. fires \in BOOLEAN /\ valid' = [valid EXCEPT ![t] = fires]
    BY <1>1 DEF PulseConditions, CanTrigger
  <2>5. valid' \in [Transitions -> BOOLEAN]
    <3> HIDE DEF fires
    <3>1. QED
      BY <1>0, <2>4
  <2>6. QED
    BY <1>1, <2>3, <2>5 DEF PulseConditions, TypeOK, history
<1>2. ASSUME NEW th \in Threads, NEW s \in States, Activate(th, s) PROVE TypeInv'
  <2>1. Begin(th, <<Set(s, TRUE)>>) /\ UNCHANGED data
    BY <1>2 DEF Activate
  <2>2. Placed' /\ stack' \in [Threads -> Seq(Calls)]
    BY <1>0, <2>1, Starts, Begun DEF data
  <2>3. QED
    BY <2>1, <2>2 DEF TypeOK, data, history
<1>3. ASSUME NEW th \in Threads, NEW s \in States, Deactivate(th, s) PROVE TypeInv'
  <2>1. Begin(th, <<Set(s, FALSE)>>) /\ UNCHANGED data
    BY <1>3 DEF Deactivate
  <2>2. Placed' /\ stack' \in [Threads -> Seq(Calls)]
    BY <1>0, <2>1, Starts, Begun DEF data
  <2>3. QED
    BY <2>1, <2>2 DEF TypeOK, data, history
<1>4. ASSUME NEW th \in Threads, NEW s \in States, EnableState(th, s) PROVE TypeInv'
  <2> DEFINE new == IF th = Message THEN <<Enabled(s)>> ELSE <<>>
  <2>1. Begin(th, new) /\ depth' = depth
    BY <1>4 DEF EnableState
  <2>2. new \in Seq(Calls) /\ Leave \notin ToSet(new)
        /\ (th # Message => Kinds(new, {"set", "fire", "release"}))
    BY Starts
  <2>3. posted' \in Seq(Calls) /\ Kinds(posted', {"changed", "update"})
    <3>1. posted' = posted \/ posted' = Append(posted, Enabled(s))
      BY <1>4 DEF EnableState, Post
    <3>2. Enabled(s).do = "update" /\ Enabled(s) \in Calls
      BY CallTypes DEF Enabled
    <3>3. /\ Append(posted, Enabled(s)) \in Seq(Calls)
          /\ ToSet(Append(posted, Enabled(s))) = ToSet(posted) \union {Enabled(s)}
      BY <1>0, <3>2, AppendElements
    <3>4. QED
      BY <1>0, <3>1, <3>2, <3>3 DEF Kinds
  <2>4. Placed' /\ stack' \in [Threads -> Seq(Calls)]
    <3> HIDE DEF new
    <3>1. QED
      BY <2>1, <2>2, <2>3, Begun
  <2>5. enabled' \in [States -> BOOLEAN]
    BY <1>0, <1>4 DEF EnableState
  <2>6. QED
    BY <1>4, <2>3, <2>4, <2>5 DEF EnableState, TypeOK, history
<1>5. ASSUME NEW t \in Transitions, ChangeConditions(t) PROVE TypeInv'
  <2> DEFINE fires == valid'[t] /\ CanTrigger(t)
             new == IF fires THEN <<Fire(t), Release(t)>> ELSE <<>>
  <2>1. Begin(Message, new) /\ posted' = posted /\ depth' = depth
    BY <1>5 DEF ChangeConditions
  <2>2. new \in Seq(Calls) /\ Leave \notin ToSet(new)
    BY Starts
  <2>3. Placed' /\ stack' \in [Threads -> Seq(Calls)]
    <3> HIDE DEF new
    <3>1. QED
      BY <1>0, <2>1, <2>2, Begun
  <2>4. valid' \in [Transitions -> BOOLEAN] /\ triggering' \in SUBSET Transitions
    BY <1>5 DEF ChangeConditions, TypeOK
  <2>5. QED
    BY <1>5, <2>3, <2>4 DEF ChangeConditions, TypeOK, history
<1>6. ASSUME NEW t \in Transitions, EnableTransition(t) PROVE TypeInv'
  <2>1. Begin(Message, <<>>) /\ posted' = posted /\ depth' = depth
    BY <1>6 DEF EnableTransition
  <2>2. Placed' /\ stack' \in [Threads -> Seq(Calls)]
    BY <1>0, <2>1, Starts, Begun
  <2>3. QED
    BY <1>6, <2>2 DEF EnableTransition, TypeOK, history
<1>7. ASSUME NEW t \in Transitions, AddTransition(t) PROVE TypeInv'
  <2>1. Begin(Message, Joined(t)) /\ posted' = posted /\ depth' = depth
    BY <1>7 DEF AddTransition
  <2>2. Placed' /\ stack' \in [Threads -> Seq(Calls)]
    BY <1>0, <2>1, Starts, Begun
  <2>3. trans' \in Seq(Transitions)
    BY <1>0, <1>7, AppendElements DEF AddTransition
  <2>4. bridged' \in BOOLEAN
    BY <1>0, <1>7, ConstantsAssumption DEF AddTransition, TypeOK
  <2>5. valid' \in [Transitions -> BOOLEAN] /\ tEnabled' \in [Transitions -> BOOLEAN]
    BY <1>7 DEF AddTransition, TypeOK
  <2>6. QED
    BY <1>7, <2>2, <2>3, <2>4, <2>5 DEF AddTransition, TypeOK
<1>8. ASSUME NEW t \in Transitions, RemoveTransition(t) PROVE TypeInv'
  <2>1. trans' \in Seq(Transitions)
    BY <1>0, <1>8, SelectedPicks DEF RemoveTransition
  <2>2. QED
    BY <1>8, <2>1 DEF RemoveTransition, TypeOK, Placed, history
<1>9. QED
  BY <1>1, <1>2, <1>3, <1>4, <1>5, <1>6, <1>7, <1>8 DEF Environment

LEMMA TypeNext ==
  TypeInv /\ [Next]_vars => TypeInv'
<1>1. CASE UNCHANGED vars
  BY <1>1 DEF vars, history, TypeInv, TypeOK, Placed
<1>2. QED
  BY <1>1, TypeStep, TypeHandle, TypeEnvironment DEF Next

LEMMA TypeAlways ==
  Spec => []TypeInv
BY TypeInit, TypeNext, PTL DEF Spec

\* The state machine's variables always have their types: among them, that
\* transitions checked on activation never nest beyond MaxDepth, whatever loop
\* of valid transitions the user builds (State::handleActiveChanged).
THEOREM TypeCorrect ==
  Spec => []TypeOK
<1>1. TypeInv => TypeOK
  BY DEF TypeInv
<1>2. QED
  BY <1>1, TypeAlways, PTL

-----------------------------------------------------------------------------
\* The states joined to s by the transitions of E: a set closed under them.
Closed(C, E) == \A t \in E : Src[t] \in C <=> Dst[t] \in C
Joint(E, s) == {l \in States : \A C \in SUBSET States : s \in C /\ Closed(C, E) => l \in C}

LEMMA LinkedJoint ==
  \A s : Linked(s) = Joint(Existing, s) \ {s}
BY DEF Linked, Joint, Closed

\* Being joined is an equivalence, kept when transitions are added.
LEMMA JointFacts ==
  ASSUME NEW E \in SUBSET Transitions, NEW s \in States
  PROVE  /\ s \in Joint(E, s)
         /\ Closed(Joint(E, s), E)
         /\ \A l \in Joint(E, s) : l \in States /\ s \in Joint(E, l) /\ Joint(E, l) \subseteq Joint(E, s)
<1>1. s \in Joint(E, s)
  BY DEF Joint
<1>2. Closed(Joint(E, s), E)
  BY ConstantsAssumption DEF Joint, Closed
<1>3. ASSUME NEW l \in Joint(E, s) PROVE s \in Joint(E, l)
  <2>1. SUFFICES ASSUME NEW C \in SUBSET States, l \in C, Closed(C, E), s \notin C
                 PROVE  FALSE
    BY DEF Joint
  <2>2. Closed(States \ C, E)
    BY <2>1, ConstantsAssumption DEF Closed
  <2>3. l \in States \ C
    BY <2>1, <2>2 DEF Joint
  <2>4. QED
    BY <2>1, <2>3
<1>4. ASSUME NEW l \in Joint(E, s) PROVE Joint(E, l) \subseteq Joint(E, s)
  BY DEF Joint
<1>5. \A l \in Joint(E, s) : l \in States
  BY DEF Joint
<1>6. QED
  BY <1>1, <1>2, <1>3, <1>4, <1>5

LEMMA JointGrows ==
  ASSUME NEW E, NEW F, E \subseteq F, NEW s
  PROVE  Joint(E, s) \subseteq Joint(F, s)
BY DEF Joint, Closed

\* States that a transition joins anew are both joined to its two ends.
LEMMA JointByOne ==
  ASSUME NEW E \in SUBSET Transitions, NEW t \in Transitions,
         NEW s \in States, NEW l \in Joint(E \union {t}, s), l \notin Joint(E, s)
  PROVE  s \in Joint(E \union {t}, Src[t]) /\ s \in Joint(E \union {t}, Dst[t])
<1> DEFINE F == E \union {t}
<1>1. s \in Joint(E, s) /\ Closed(Joint(E, s), E) /\ Joint(E, s) \in SUBSET States
  BY JointFacts DEF Joint
<1>2. ~(Src[t] \in Joint(E, s) <=> Dst[t] \in Joint(E, s))
  <2>1. ~Closed(Joint(E, s), F)
    BY <1>1 DEF Joint
  <2>2. QED
    BY <1>1, <2>1 DEF Closed
<1>3. Joint(E, s) \subseteq Joint(F, s)
  BY JointGrows
<1>4. F \in SUBSET Transitions
  OBVIOUS
<1>5. Closed(Joint(F, s), F)
  BY <1>4, JointFacts
<1>6. Src[t] \in Joint(F, s) /\ Dst[t] \in Joint(F, s)
  BY <1>2, <1>3, <1>5 DEF Closed
<1>7. QED
  BY <1>4, <1>6, JointFacts

-----------------------------------------------------------------------------
\* The call c sets s inactive, or will, if another linked state is running.
Settles(c, s) ==
  \/ c.do = "set" /\ c.s = s /\ ~c.v
  \/ c.do \in {"load", "changed", "update", "link", "unlink"} /\ c.s = s
  \/ c.do = "unlink" /\ s \in Linked(c.s)

\* Of two linked states that run, a call ahead settles one.
RunInv ==
  ~bridged => \A s \in States : \A l \in Linked(s) :
    Running(s) /\ Running(l) => \E c \in Ahead : Settles(c, s) \/ Settles(c, l)

LEMMA AheadElements ==
  /\ \A c : c \in Ahead <=> c \in ToSet(posted) \/ \E th \in Threads : c \in ToSet(stack[th])
  /\ \A c : c \in Ahead' <=> c \in ToSet(posted') \/ \E th \in Threads : c \in ToSet(stack'[th])
<1>1. \A X : X \in Stacked <=> \E th \in Threads : X = ToSet(stack[th])
  BY DEF Stacked
<1>2. \A X : X \in Stacked' <=> \E th \in Threads : X = ToSet(stack'[th])
  BY DEF Stacked
<1>3. \A c : c \in UNION Stacked <=> \E th \in Threads : c \in ToSet(stack[th])
  BY <1>1
<1>4. \A c : c \in UNION Stacked' <=> \E th \in Threads : c \in ToSet(stack'[th])
  BY <1>2
<1>5. Ahead = ToSet(posted) \union UNION Stacked /\ Ahead' = ToSet(posted') \union UNION Stacked'
  BY DEF Ahead
<1>6. QED
  BY <1>3, <1>4, <1>5

LEMMA AheadReturned ==
  ASSUME TypeInv, NEW th \in Threads, stack[th] # <<>>, NEW new \in Seq(Calls),
         Return(th, new), ToSet(posted) \subseteq ToSet(posted')
  PROVE  /\ \A c \in Ahead : c = Top(th) \/ c \in Ahead'
         /\ ToSet(new) \subseteq Ahead' /\ ToSet(posted') \subseteq Ahead'
<1>1. stack \in [Threads -> Seq(Calls)]
  BY DEF TypeInv, TypeOK
<1>2. /\ \A u \in Threads \ {th} : stack'[u] = stack[u]
      /\ ToSet(stack[th]) = {Top(th)} \union ToSet(Tail(stack[th]))
      /\ ToSet(stack'[th]) = ToSet(new) \union ToSet(Tail(stack[th]))
  BY <1>1, Returned
<1>3. \A c : c \in Ahead' <=> c \in ToSet(posted') \/ \E u \in Threads : c \in ToSet(stack'[u])
  BY AheadElements
<1>4. ASSUME NEW c \in Ahead PROVE c = Top(th) \/ c \in Ahead'
  <2>1. CASE c \in ToSet(posted)
    BY <1>3, <2>1
  <2>2. ASSUME NEW u \in Threads, c \in ToSet(stack[u]) PROVE c = Top(th) \/ c \in Ahead'
    <3>1. CASE u = th
      BY <1>2, <1>3, <2>2, <3>1
    <3>2. CASE u # th
      BY <1>2, <1>3, <2>2, <3>2
    <3>3. QED
      BY <3>1, <3>2
  <2>3. QED
    BY <2>1, <2>2, AheadElements
<1>5. ToSet(new) \subseteq Ahead' /\ ToSet(posted') \subseteq Ahead'
  BY <1>2, <1>3
<1>6. QED
  BY <1>4, <1>5

LEMMA AheadBegun ==
  ASSUME TypeInv, NEW th \in Threads, NEW new \in Seq(Calls), Begin(th, new),
         ToSet(posted) \subseteq ToSet(posted')
  PROVE  Ahead \subseteq Ahead' /\ ToSet(new) \subseteq Ahead' /\ ToSet(posted') \subseteq Ahead'
<1>1. stack \in [Threads -> Seq(Calls)]
  BY DEF TypeInv, TypeOK
<1>2. stack[th] = <<>> /\ stack'[th] = new /\ \A u \in Threads \ {th} : stack'[u] = stack[u]
  BY <1>1 DEF Begin
<1>3. ToSet(stack[th]) = {}
  BY <1>2, ShortElements
<1>4. \A c : c \in Ahead' <=> c \in ToSet(posted') \/ \E u \in Threads : c \in ToSet(stack'[u])
  BY AheadElements
<1>5. ASSUME NEW c \in Ahead PROVE c \in Ahead'
  BY <1>2, <1>3, <1>4, AheadElements
<1>6. QED
  BY <1>2, <1>4, <1>5

\* A call that hands over to new what it would settle.
LEMMA RunKept ==
  ASSUME TypeInv, RunInv, NEW th \in Threads, stack[th] # <<>>, NEW new \in Seq(Calls),
         Return(th, new), ToSet(posted) \subseteq ToSet(posted'),
         UNCHANGED <<active, enabled, trans, bridged>>,
         \A s \in States : \A l \in Linked(s) :
           Running(s) /\ Running(l) /\ (Settles(Top(th), s) \/ Settles(Top(th), l))
             => \E c \in ToSet(new) : Settles(c, s) \/ Settles(c, l)
  PROVE  RunInv'
<1>1. /\ \A c \in Ahead : c = Top(th) \/ c \in Ahead'
      /\ ToSet(new) \subseteq Ahead'
  BY AheadReturned
<1>2. /\ \A s : Linked(s)' = Linked(s) /\ (Running(s)' <=> Running(s))
      /\ \A c, s : Settles(c, s)' <=> Settles(c, s)
  BY DEF Linked, Existing, Running, Settles
<1>3. SUFFICES ASSUME ~bridged, NEW s \in States, NEW l \in Linked(s), Running(s), Running(l)
               PROVE  \E c \in Ahead' : Settles(c, s) \/ Settles(c, l)
  BY <1>2 DEF RunInv
<1>4. PICK c \in Ahead : Settles(c, s) \/ Settles(c, l)
  BY <1>3 DEF RunInv
<1>5. CASE c = Top(th)
  BY <1>1, <1>3, <1>4, <1>5
<1>6. CASE c \in Ahead'
  BY <1>4, <1>6
<1>7. QED
  BY <1>1, <1>5, <1>6

LEMMA RunInit ==
  Init => RunInv
<1> SUFFICES ASSUME Init PROVE RunInv
  OBVIOUS
<1>1. PICK order \in SetToSeqs(States) :
        stack = [th \in Threads |->
                  IF th = Message THEN [i \in 1..Len(order) |-> Load(order[i])] ELSE <<>>]
  BY DEF Init
<1> DEFINE n == Cardinality(States)
<1>2. /\ n \in Nat /\ order \in [1..n -> States]
      /\ \A i, j \in 1..n : i # j => order[i] # order[j]
  BY ConstantsAssumption, FS_CardinalityType DEF SetToSeqs
<1>3. \A s \in States : \E i \in 1..n : order[i] = s
  <2>1. order \in Injection(1..n, States)
    BY <1>2 DEF Injection, IsInjective
  <2>2. IsFiniteSet(1..n) /\ Cardinality(1..n) = n
    <3>1. 1 \in Int /\ n \in Int
      BY <1>2
    <3>2. IsFiniteSet(1..n) /\ Cardinality(1..n) = IF 1 > n THEN 0 ELSE n - 1 + 1
      BY <3>1, FS_Interval
    <3>3. QED
      BY <1>2, <3>2
  <2>3. order \in Surjection(1..n, States)
    BY <2>1, <2>2, ConstantsAssumption, FS_Injection
  <2>4. QED
    BY <2>3 DEF Surjection
<1> HIDE DEF n
<1>4. Len(order) = n
  BY <1>2
<1>5. \A s \in States : Load(s) \in Ahead
  <2> DEFINE loads == [i \in 1..n |-> Load(order[i])]
  <2>1. stack[Message] = loads /\ Message \in Threads
    BY <1>1, <1>4, ConstantsAssumption
  <2>2. \A s \in States : Load(s) \in ToSet(loads)
    BY <1>3 DEF ToSet
  <2> HIDE DEF loads
  <2>3. QED
    BY <2>1, <2>2, AheadElements
<1>6. \A s : Settles(Load(s), s)
  BY DEF Load, Settles
<1>7. QED
  BY <1>5, <1>6 DEF RunInv

LEMMA RunStep ==
  ASSUME TypeInv, RunInv, NEW th \in Threads, Step(th)
  PROVE  RunInv'
<1>0. stack \in [Threads -> Seq(Calls)] /\ posted \in Seq(Calls)
      /\ active \in [States -> BOOLEAN] /\ enabled \in [States -> BOOLEAN]
  BY DEF TypeInv, TypeOK
<1>1. ASSUME stack[th] # <<>> PROVE Top(th) \in Calls
  <2>1. stack[th] \in Seq(Calls)
    BY <1>0
  <2>2. QED
    BY <1>1, <2>1, HeadElements DEF Top
\* Calls of the other kinds settle nothing.
<1>2. \A c, s : Settles(c, s) => c.do \in {"set", "load", "changed", "update", "link", "unlink"}
  BY DEF Settles
<1>3. CASE HandleLoadActivation(th)
  <2> DEFINE s == Top(th).s
             new == IF Running(s) THEN <<Changed(s)>> ELSE <<>>
  <2>1. stack[th] # <<>> /\ Top(th).do = "load" /\ Return(th, new) /\ UNCHANGED data
    BY <1>3 DEF HandleLoadActivation, Calling
  <2>2. new \in Seq(Calls) /\ (Running(s) => Changed(s) \in ToSet(new))
    BY <1>1, <2>1, CallFields, CallTypes, Lists, ShortElements
  <2>3. /\ \A l : Settles(Top(th), l) => l = s
        /\ Settles(Changed(s), s)
    BY <2>1 DEF Settles, Changed
  <2> HIDE DEF new
  <2>4. QED
    BY <2>1, <2>2, <2>3, RunKept DEF data, history
<1>4. CASE HandleEnabled(th)
  <2> DEFINE s == Top(th).s
             new == Update(s)
  <2>1. stack[th] # <<>> /\ Top(th).do = "update" /\ Return(th, new) /\ UNCHANGED data
    BY <1>4 DEF HandleEnabled, Calling
  <2>2. new \in Seq(Calls) /\ Link(s) \in ToSet(new)
    BY <1>1, <2>1, CallFields, CallTypes, Lists, ShortElements DEF Update
  <2>3. (\A l : Settles(Top(th), l) => l = s) /\ Settles(Link(s), s)
    BY <2>1 DEF Settles, Link
  <2> HIDE DEF new
  <2>4. QED
    BY <2>1, <2>2, <2>3, RunKept DEF data, history
<1>5. CASE SetValue(th)
  <2> DEFINE s == Top(th).s
             new == IF active[s] = Top(th).v \/ th # Message THEN <<>> ELSE <<Changed(s)>>
  <2>1. /\ stack[th] # <<>> /\ Top(th).do = "set" /\ Return(th, new)
        /\ active' = [active EXCEPT ![s] = Top(th).v]
        /\ UNCHANGED <<enabled, trans, bridged>>
    BY <1>5 DEF SetValue, Calling
  <2>2. s \in States /\ Top(th).v \in BOOLEAN /\ Changed(s) \in Calls
    BY <1>1, <2>1, CallFields, CallTypes
  <2>3. new \in Seq(Calls)
    BY <2>2, Lists
  <2>4. ToSet(posted) \subseteq ToSet(posted')
    <3>1. posted' = posted \/ posted' = Append(posted, Changed(s))
      BY <1>5 DEF SetValue, Post
    <3>2. ToSet(Append(posted, Changed(s))) = ToSet(posted) \union {Changed(s)}
      BY <1>0, <2>2, AppendElements
    <3>3. QED
      BY <3>1, <3>2
  <2>5. active[s] # Top(th).v => Changed(s) \in Ahead'
    <3>1. SUFFICES ASSUME active[s] # Top(th).v PROVE Changed(s) \in ToSet(new) \union ToSet(posted')
      <4> HIDE DEF new
      <4>1. QED
        BY <2>1, <2>3, <2>4, AheadReturned
    <3>2. CASE th = Message
      BY <3>1, <3>2, ShortElements
    <3>3. CASE th # Message
      <4>1. posted' = Append(posted, Changed(s))
        BY <1>5, <3>1, <3>3 DEF SetValue, Post
      <4>2. QED
        BY <1>0, <2>2, <4>1, AppendElements
    <3>4. QED
      BY <3>2, <3>3
  <2>6. \A c \in Ahead : c = Top(th) \/ c \in Ahead'
    <3> HIDE DEF new
    <3>1. QED
      BY <2>1, <2>3, <2>4, AheadReturned
  <2>7. /\ \A r : Linked(r)' = Linked(r)
        /\ \A c, r : Settles(c, r)' <=> Settles(c, r)
    BY <2>1 DEF Linked, Existing, Settles
  <2>8. SUFFICES ASSUME ~bridged, NEW r \in States, NEW l \in Linked(r), Running(r)', Running(l)'
                 PROVE  \E c \in Ahead' : Settles(c, r) \/ Settles(c, l)
    BY <2>1, <2>7 DEF RunInv
  <2>9. l \in States
    BY LinkedType
  <2>10. CASE Running(r) /\ Running(l)
    <3>1. PICK c \in Ahead : Settles(c, r) \/ Settles(c, l)
      BY <2>8, <2>10 DEF RunInv
    <3>2. c # Top(th)
      <4>1. SUFFICES ASSUME Settles(Top(th), r) \/ Settles(Top(th), l) PROVE FALSE
        BY <3>1
      <4>2. Top(th).v = FALSE /\ (s = r \/ s = l)
        BY <2>1, <2>2, <4>1 DEF Settles
      <4>3. ~active'[s]
        BY <1>0, <2>1, <2>2, <4>2
      <4>4. QED
        BY <2>8, <4>2, <4>3 DEF Running
    <3>3. QED
      BY <2>6, <3>1, <3>2
  <2>11. CASE ~(Running(r) /\ Running(l))
    <3>1. (s = r \/ s = l) /\ active[s] # Top(th).v
      BY <1>0, <2>1, <2>2, <2>8, <2>9, <2>11 DEF Running
    <3>2. Settles(Changed(s), s)
      BY DEF Settles, Changed
    <3>3. QED
      BY <2>5, <3>1, <3>2
  <2>12. QED
    BY <2>10, <2>11
<1>6. CASE HandleActiveChanged(th)
  <2> DEFINE s == Top(th).s
             new == IF ~enabled[s] THEN <<>>
                    ELSE IF active[s] THEN <<EvalDisabled(s), Link(s), Loop(s, Outs(s))>>
                    ELSE Update(s)
  <2>1. /\ stack[th] # <<>> /\ Top(th).do = "changed" /\ posted' = posted
        /\ Return(th, new) /\ UNCHANGED <<active, enabled, trans, bridged>>
    BY <1>6 DEF HandleActiveChanged, Calling, history
  <2>2. s \in States /\ Outs(s) \in Seq(Transitions)
    BY <1>1, <2>1, CallFields, OutsType
  <2>3. new \in Seq(Calls) /\ (Running(s) => Link(s) \in ToSet(new))
    <3>1. EvalDisabled(s) \in Calls /\ Link(s) \in Calls /\ Loop(s, Outs(s)) \in Calls
      BY <2>2, CallTypes
    <3>2. <<EvalDisabled(s), Link(s), Loop(s, Outs(s))>> \in Seq(Calls) /\ Update(s) \in Seq(Calls)
          /\ <<>> \in Seq(Calls)
      BY <3>1 DEF Update
    <3>3. Link(s) \in ToSet(<<EvalDisabled(s), Link(s), Loop(s, Outs(s))>>)
      BY ShortElements
    <3>4. QED
      BY <3>2, <3>3 DEF Running
  <2>4. (\A l : Settles(Top(th), l) => l = s) /\ Settles(Link(s), s)
    BY <2>1 DEF Settles, Link
  <2> HIDE DEF new
  <2>5. QED
    BY <2>1, <2>3, <2>4, RunKept
<1>7. CASE StateActivationChanged(th)
  <2> DEFINE s == Top(th).s
             new == IF active[s] THEN <<Unlink(s)>> ELSE <<>>
  <2>1. stack[th] # <<>> /\ Top(th).do = "link" /\ Return(th, new) /\ UNCHANGED data
    BY <1>7 DEF StateActivationChanged, Calling
  <2>2. new \in Seq(Calls) /\ (Running(s) => Unlink(s) \in ToSet(new))
    BY <1>1, <2>1, CallFields, CallTypes, Lists, ShortElements DEF Running
  <2>3. (\A l : Settles(Top(th), l) => l = s) /\ Settles(Unlink(s), s)
    BY <2>1 DEF Settles, Unlink
  <2> HIDE DEF new
  <2>4. QED
    BY <2>1, <2>2, <2>3, RunKept DEF data, history
<1>8. CASE SetStateActive(th)
  <2> DEFINE s == Top(th).s
  <2>1. stack[th] # <<>> /\ Top(th).do = "unlink" /\ Return(th, Stops(s)) /\ UNCHANGED data
    BY <1>8 DEF SetStateActive, Calling, Stops
  <2>2. s \in States
    BY <1>1, <2>1, CallFields
  <2>3. Stops(s) \in Seq(Calls) /\ ToSet(Stops(s)) = {Set(l, FALSE) : l \in Linked(s)}
    <3> HIDE DEF s
    <3>1. QED
      BY StopsElements
  <2>4. \A l : Settles(Set(l, FALSE), l)
    BY DEF Settles, Set
  <2>5. \A l : Settles(Top(th), l) => l = s \/ l \in Linked(s)
    BY <2>1 DEF Settles
  <2>6. ASSUME NEW r \in States, NEW l \in Linked(r), Settles(Top(th), r) \/ Settles(Top(th), l)
        PROVE  \E c \in ToSet(Stops(s)) : Settles(c, r) \/ Settles(c, l)
    <3>1. r \in Linked(s) \/ l \in Linked(s)
      <4>1. l \in Joint(Existing, r) /\ l # r
        BY LinkedJoint
      <4>2. Existing \in SUBSET Transitions
        BY OutsType
      <4>3. l = s => r \in Joint(Existing, s)
        BY <4>1, <4>2, JointFacts
      <4>4. QED
        BY <2>5, <2>6, <4>1, <4>3, LinkedJoint
    <3>2. QED
      BY <2>3, <2>4, <3>1
  <2>7. QED
    BY <2>1, <2>3, <2>6, RunKept DEF data, history
\* The other calls settle nothing and change no state.
<1>9. ASSUME stack[th] # <<>>, NEW new \in Seq(Calls), Return(th, new), posted' = posted,
             UNCHANGED <<active, enabled, trans, bridged>>,
             Top(th).do \notin {"set", "load", "changed", "update", "link", "unlink"}
      PROVE  RunInv'
  BY <1>2, <1>9, RunKept
<1>10. CASE ComputeDisabled(th)
  <2> DEFINE s == Top(th).s
             new == <<ApplyDisabled(s, ~Running(s))>>
  <2>1. stack[th] # <<>> /\ Top(th).do = "evalDisabled" /\ UNCHANGED data /\ Return(th, new)
    BY <1>10 DEF ComputeDisabled, Calling
  <2>2. new \in Seq(Calls)
    <3>1. (~Running(s)) \in BOOLEAN /\ s \in States
      BY <1>1, <2>1, CallFields
    <3>2. QED
      BY <3>1, CallTypes, Lists
  <2> HIDE DEF new
  <2>3. QED
    BY <1>9, <2>1, <2>2 DEF data, history
<1>11. CASE SetForceDisabled(th)
  <2>1. /\ stack[th] # <<>> /\ Top(th).do = "applyDisabled" /\ Return(th, <<>>)
        /\ posted' = posted /\ UNCHANGED <<active, enabled, trans, bridged>>
    BY <1>11 DEF SetForceDisabled, Calling, history
  <2>2. QED
    BY <1>9, <2>1, Lists
<1>12. CASE VisitTransition(th)
  <2> DEFINE s == Top(th).s
             rest == Top(th).rest
             t == Head(rest)
             new == IF rest = <<>> THEN <<>>
                    ELSE IF t \in OnActivate /\ CanTrigger(t)
                    THEN <<Fire(t), Release(t), Test(s, rest)>> ELSE <<Test(s, rest)>>
  <2>1. /\ stack[th] # <<>> /\ Top(th).do = "loop" /\ posted' = posted /\ Return(th, new)
        /\ UNCHANGED <<active, enabled, trans, bridged>>
    BY <1>12 DEF VisitTransition, Calling, history
  <2>2. s \in States /\ rest \in Seq(Transitions)
    BY <1>1, <2>1, CallFields
  <2>3. rest # <<>> => Fire(t) \in Calls /\ Release(t) \in Calls /\ Test(s, rest) \in Calls
    BY <2>2, HeadElements, CallTypes
  <2>4. new \in Seq(Calls)
    BY <2>3, Lists
  <2> HIDE DEF new
  <2>5. QED
    BY <1>9, <2>1, <2>4
<1>13. CASE TestTransition(th)
  <2> DEFINE s == Top(th).s
             rest == Top(th).rest
             t == Head(rest)
             new == IF s \in Check /\ valid[t]
                    THEN IF TooDeep(depth) THEN <<>> ELSE <<Fire(t), Leave>>
                    ELSE <<Loop(s, Tail(rest))>>
  <2>1. /\ stack[th] # <<>> /\ Top(th).do = "test" /\ posted' = posted /\ Return(th, new)
        /\ UNCHANGED <<active, enabled, trans, bridged>>
    BY <1>13 DEF TestTransition, Calling, Advance, history
  <2>2. s \in States /\ rest \in Seq(Transitions) /\ rest # <<>>
    BY <1>1, <2>1, CallFields
  <2>3. Fire(t) \in Calls /\ Leave \in Calls /\ Loop(s, Tail(rest)) \in Calls
    BY <2>2, HeadElements, CallTypes
  <2>4. new \in Seq(Calls)
    BY <2>3, Lists
  <2> HIDE DEF new
  <2>5. QED
    BY <1>9, <2>1, <2>4
<1>14. CASE LeaveTransition(th)
  <2>1. /\ stack[th] # <<>> /\ Top(th).do = "leave" /\ Return(th, <<>>)
        /\ posted' = posted /\ UNCHANGED <<active, enabled, trans, bridged>>
    BY <1>14 DEF LeaveTransition, Calling, history
  <2>2. QED
    BY <1>9, <2>1, Lists
<1>15. CASE FireTransition(th)
  <2> DEFINE t == Top(th).t
             new == IF active[Src[t]] THEN Switch(t) ELSE <<>>
  <2>1. stack[th] # <<>> /\ Top(th).do = "fire" /\ Return(th, new) /\ UNCHANGED data
    BY <1>15 DEF FireTransition, Calling
  <2>2. Set(Src[t], FALSE) \in Calls /\ Set(Dst[t], TRUE) \in Calls
    BY <1>1, <2>1, CallFields, CallTypes, ConstantsAssumption
  <2>3. new \in Seq(Calls)
    BY <2>2, Lists DEF Switch
  <2> HIDE DEF new
  <2>4. QED
    BY <1>9, <2>1, <2>3 DEF data, history
<1>16. CASE ReleaseTrigger(th)
  <2>1. /\ stack[th] # <<>> /\ Top(th).do = "release" /\ Return(th, <<>>)
        /\ posted' = posted /\ UNCHANGED <<active, enabled, trans, bridged>>
    BY <1>16 DEF ReleaseTrigger, Calling, history
  <2>2. QED
    BY <1>9, <2>1, Lists
<1>17. QED
  BY <1>3, <1>4, <1>5, <1>6, <1>7, <1>8, <1>10, <1>11, <1>12, <1>13, <1>14, <1>15, <1>16
     DEF Step

LEMMA RunHandle ==
  ASSUME TypeInv, RunInv, HandlePosted
  PROVE  RunInv'
<1>1. /\ Message \in Threads
      /\ stack[Message] = <<>> /\ stack'[Message] = <<Head(posted)>>
      /\ \A u \in Threads \ {Message} : stack'[u] = stack[u]
      /\ ToSet(posted) = {Head(posted)} \union ToSet(posted')
  BY TypeHandle, ConstantsAssumption
<1>2. ToSet(<<>>) = {} /\ ToSet(<<Head(posted)>>) = {Head(posted)}
  BY ShortElements
<1>3. ASSUME NEW c \in Ahead PROVE c \in Ahead'
  <2>1. CASE c \in ToSet(posted)
    BY <1>1, <1>2, <2>1, AheadElements
  <2>2. ASSUME NEW u \in Threads, c \in ToSet(stack[u]) PROVE c \in Ahead'
    <3>1. u # Message
      BY <1>1, <1>2, <2>2
    <3>2. QED
      BY <1>1, <2>2, <3>1, AheadElements
  <2>3. QED
    BY <2>1, <2>2, AheadElements
<1>4. /\ \A s : Linked(s)' = Linked(s) /\ (Running(s)' <=> Running(s))
      /\ \A c, s : Settles(c, s)' <=> Settles(c, s)
      /\ bridged' = bridged
  BY DEF HandlePosted, Linked, Existing, Running, Settles, history
<1>5. QED
  BY <1>3, <1>4 DEF RunInv

\* A thread begins calls and no state starts to run, nor is one linked anew.
LEMMA RunBegun ==
  ASSUME TypeInv, RunInv, NEW th \in Threads, NEW new \in Seq(Calls), Begin(th, new),
         UNCHANGED <<active, enabled, trans, posted, bridged>>
  PROVE  RunInv'
<1>1. Ahead \subseteq Ahead'
  BY AheadBegun
<1>2. /\ \A s : Linked(s)' = Linked(s) /\ (Running(s)' <=> Running(s))
      /\ \A c, s : Settles(c, s)' <=> Settles(c, s)
  BY DEF Linked, Existing, Running, Settles
<1>3. QED
  BY <1>1, <1>2 DEF RunInv

LEMMA RunEnvironment ==
  ASSUME TypeInv, RunInv, Environment
  PROVE  RunInv'
<1>0. /\ posted \in Seq(Calls) /\ trans \in Seq(Transitions) /\ Message \in Threads
      /\ active \in [States -> BOOLEAN] /\ enabled \in [States -> BOOLEAN]
      /\ Existing \in SUBSET Transitions /\ bridged \in BOOLEAN
  BY OutsType, ConstantsAssumption DEF TypeInv, TypeOK
<1>1. ASSUME NEW th \in Threads, NEW t \in Transitions, PulseConditions(th, t) PROVE RunInv'
  <2> DEFINE new == IF ~valid[t] /\ CanTrigger(t) THEN <<Fire(t), Release(t)>> ELSE <<>>
  <2>1. Begin(th, new) /\ UNCHANGED <<active, enabled, trans, posted, bridged>>
    BY <1>1 DEF PulseConditions, history
  <2>2. new \in Seq(Calls)
    BY Starts
  <2> HIDE DEF new
  <2>3. QED
    BY <2>1, <2>2, RunBegun
<1>2. ASSUME NEW th \in Threads, NEW s \in States, Activate(th, s) \/ Deactivate(th, s)
      PROVE RunInv'
  <2>1. PICK v \in BOOLEAN : Begin(th, <<Set(s, v)>>)
    BY <1>2 DEF Activate, Deactivate
  <2>2. UNCHANGED <<active, enabled, trans, posted, bridged>>
    BY <1>2 DEF Activate, Deactivate, data, history
  <2>3. QED
    BY <2>1, <2>2, Starts, RunBegun
<1>3. ASSUME NEW th \in Threads, NEW s \in States, EnableState(th, s) PROVE RunInv'
  <2> DEFINE new == IF th = Message THEN <<Enabled(s)>> ELSE <<>>
  <2>1. /\ Begin(th, new) /\ enabled' = [enabled EXCEPT ![s] = ~@]
        /\ UNCHANGED <<active, trans, bridged>>
        /\ posted' = IF th = Message THEN posted ELSE Append(posted, Enabled(s))
    BY <1>3 DEF EnableState, Post, history
  <2>2. new \in Seq(Calls)
    BY Starts
  <2>3. /\ Enabled(s) \in Calls
        /\ ToSet(Append(posted, Enabled(s))) = ToSet(posted) \union {Enabled(s)}
    <3>1. Enabled(s) \in Calls
      BY CallTypes
    <3>2. QED
      BY <1>0, <3>1, AppendElements
  <2>4. ToSet(posted) \subseteq ToSet(posted')
    BY <2>1, <2>3
  <2>5. Enabled(s) \in ToSet(new) \union ToSet(posted')
    BY <2>1, <2>3, ShortElements
  <2> HIDE DEF new
  <2>6. Ahead \subseteq Ahead' /\ Enabled(s) \in Ahead'
    BY <2>1, <2>2, <2>4, <2>5, AheadBegun
  <2>7. /\ \A r : Linked(r)' = Linked(r)
        /\ \A c, r : Settles(c, r)' <=> Settles(c, r)
    BY <2>1 DEF Linked, Existing, Settles
  <2>8. \A r \in States : r # s => (Running(r)' <=> Running(r))
    BY <1>0, <2>1 DEF Running
  <2>9. Settles(Enabled(s), s)
    BY DEF Settles, Enabled
  <2>10. \A r : Linked(r) \subseteq States
    BY LinkedType
  <2>11. QED
    BY <2>1, <2>6, <2>7, <2>8, <2>9, <2>10 DEF RunInv
<1>4. ASSUME NEW t \in Transitions, ChangeConditions(t) PROVE RunInv'
  <2> DEFINE new == IF valid'[t] /\ CanTrigger(t) THEN <<Fire(t), Release(t)>> ELSE <<>>
  <2>1. Begin(Message, new) /\ UNCHANGED <<active, enabled, trans, posted, bridged>>
    BY <1>4 DEF ChangeConditions, history
  <2>2. new \in Seq(Calls)
    BY Starts
  <2> HIDE DEF new
  <2>3. QED
    BY <1>0, <2>1, <2>2, RunBegun
<1>5. ASSUME NEW t \in Transitions, EnableTransition(t) PROVE RunInv'
  <2>1. Begin(Message, <<>>) /\ UNCHANGED <<active, enabled, trans, posted, bridged>>
    BY <1>5 DEF EnableTransition, history
  <2>2. QED
    BY <1>0, <2>1, Starts, RunBegun
<1>6. ASSUME NEW t \in Transitions, AddTransition(t) PROVE RunInv'
  <2>1. /\ Begin(Message, Joined(t)) /\ UNCHANGED <<active, enabled, posted>>
        /\ trans' = Append(trans, t)
        /\ bridged' = (bridged \/ (~active[Src[t]] /\ ~active[Dst[t]]))
    BY <1>6 DEF AddTransition
  <2>2. Ahead \subseteq Ahead' /\ ToSet(Joined(t)) \subseteq Ahead'
    BY <1>0, <2>1, Starts, AheadBegun
  <2>3. Existing' = Existing \union {t}
    BY <1>0, <2>1, AppendElements DEF Existing
  <2> DEFINE E == Existing
             F == E \union {t}
  <2>4. \A s : Linked(s) = Joint(E, s) \ {s} /\ Linked(s)' = Joint(F, s) \ {s}
    BY <2>3, LinkedJoint DEF Linked, Joint, Closed
  <2>5. \A s : Linked(s) \subseteq Linked(s)'
    BY <2>4, JointGrows
  <2>6. \A c, s : Settles(c, s) => Settles(c, s)'
    BY <2>5 DEF Settles
  <2>7. \A s : Running(s)' <=> Running(s)
    BY <2>1 DEF Running
  <2>8. SUFFICES ASSUME ~bridged', NEW s \in States, NEW l \in Linked(s)', Running(s), Running(l)
                 PROVE  \E c \in Ahead' : Settles(c, s)' \/ Settles(c, l)'
    BY <2>7 DEF RunInv
  <2>9. CASE l \in Linked(s)
    <3>1. ~bridged
      BY <1>0, <2>1, <2>8
    <3>2. PICK c \in Ahead : Settles(c, s) \/ Settles(c, l)
      BY <2>8, <2>9, <3>1 DEF RunInv
    <3>3. QED
      BY <2>2, <2>6, <3>2
  <2>10. CASE l \notin Linked(s)
    <3>1. l \in Joint(F, s) /\ l \notin Joint(E, s) /\ E \in SUBSET Transitions
      BY <1>0, <2>4, <2>8, <2>10
    <3>2. s \in Joint(F, Src[t]) /\ s \in Joint(F, Dst[t])
      BY <3>1, JointByOne
    <3>3. active[Src[t]] \/ active[Dst[t]]
      BY <1>0, <2>1, <2>8
    <3>4. PICK x \in {Src[t], Dst[t]} : Joined(t) = <<Unlink(x)>>
      BY <3>3 DEF Joined
    <3>5. Unlink(x) \in Ahead'
      BY <2>2, <3>4, ShortElements
    <3>6. s = x \/ s \in Linked(x)'
      BY <2>4, <3>2
    <3>7. Unlink(x).do = "unlink" /\ Unlink(x).s = x
      BY DEF Unlink
    <3>8. Settles(Unlink(x), s)'
      BY <3>6, <3>7 DEF Settles
    <3>9. QED
      BY <3>5, <3>8
  <2>11. QED
    BY <2>9, <2>10
<1>7. ASSUME NEW t \in Transitions, RemoveTransition(t) PROVE RunInv'
  <2>1. /\ \A th \in Threads : stack[th] = <<>>
        /\ trans' = Selected(trans, Transitions \ {t})
        /\ UNCHANGED <<active, enabled, stack, posted, bridged>>
    BY <1>7 DEF RemoveTransition, history
  <2>2. Existing' \subseteq Existing
    BY <1>0, <2>1, SelectedElements DEF Existing
  <2>3. \A s : Linked(s)' \subseteq Linked(s)
    BY <2>2 DEF Linked
  <2>4. Ahead' = ToSet(posted) /\ Ahead = ToSet(posted)
    BY <2>1, AheadElements, ShortElements
  <2>5. \A c \in Ahead : c.do \in {"changed", "update"}
    BY <2>4 DEF TypeInv, Placed, Kinds
  <2>6. ASSUME NEW c \in Ahead, NEW s, Settles(c, s) PROVE Settles(c, s)'
    BY <2>5, <2>6 DEF Settles
  <2>7. \A s : Running(s)' <=> Running(s)
    BY <2>1 DEF Running
  <2>8. SUFFICES ASSUME ~bridged, NEW s \in States, NEW l \in Linked(s)', Running(s), Running(l)
                 PROVE  \E c \in Ahead' : Settles(c, s)' \/ Settles(c, l)'
    BY <2>1, <2>7 DEF RunInv
  <2>9. PICK c \in Ahead : Settles(c, s) \/ Settles(c, l)
    BY <2>3, <2>8 DEF RunInv
  <2>10. QED
    BY <2>4, <2>6, <2>9
<1>8. QED
  BY <1>1, <1>2, <1>3, <1>4, <1>5, <1>6, <1>7 DEF Environment

LEMMA RunNext ==
  TypeInv /\ RunInv /\ [Next]_vars => RunInv'
<1>1. ASSUME UNCHANGED vars, RunInv PROVE RunInv'
  <2>1. Ahead' = Ahead
    BY <1>1 DEF vars, Ahead, Stacked
  <2>2. /\ \A s : Linked(s)' = Linked(s) /\ (Running(s)' <=> Running(s))
        /\ \A c, s : Settles(c, s)' <=> Settles(c, s)
        /\ bridged' = bridged
    BY <1>1 DEF vars, history, Linked, Existing, Running, Settles
  <2>3. QED
    BY <1>1, <2>1, <2>2 DEF RunInv
<1>2. QED
  BY <1>1, RunStep, RunHandle, RunEnvironment DEF Next

\* At most one of the states linked by transitions runs once every handler is
\* over, for any states, transitions and threads (StateManager::setStateActive,
\* State::handleActiveChanged): as long as no transition has been created between
\* two inactive states.
THEOREM OneOfLinkedRuns ==
  Spec => []OneRunning
<1>1. ASSUME TypeInv, RunInv PROVE OneRunning
  <2>1. SUFFICES ASSUME AtRest, ~bridged, NEW s \in States, NEW l \in Linked(s),
                        Running(s), Running(l)
                 PROVE  FALSE
    BY DEF OneRunning
  <2>2. PICK c \in Ahead : Settles(c, s) \/ Settles(c, l)
    BY <1>1, <2>1 DEF RunInv
  <2>3. Ahead = {}
    BY <2>1, AheadElements, ShortElements DEF AtRest
  <2>4. QED
    BY <2>2, <2>3
<1>2. Spec => []RunInv
  BY RunInit, RunNext, TypeAlways, PTL DEF Spec
<1>3. QED
  BY <1>1, <1>2, TypeAlways, PTL

-----------------------------------------------------------------------------
\* What the processors of s have been told already: the argument of the call
\* that applies it is evaluated before.
Applying(s) ==
  /\ stack[Message] # <<>>
  /\ Head(stack[Message]).do = "applyDisabled" /\ Head(stack[Message]).s = s
Effective(s) == IF Applying(s) THEN Head(stack[Message]).v ELSE pmDisabled[s]

MessageAhead == ToSet(stack[Message]) \union ToSet(posted)

\* The call c tells the processors of s what the state is by then.
Evaluates(c, s) ==
  /\ c.do \in {"update", "evalDisabled", "changed"} /\ c.s = s
  /\ c.do = "changed" => enabled[s]

NoApply(q) == \A c \in ToSet(q) : c.do # "applyDisabled"

\* Processors that are not told of their state are going to be.
FollowInv ==
  /\ stack[Message] # <<>> => NoApply(Tail(stack[Message]))
  /\ \A s \in States : \/ Effective(s) = ~Running(s)
                       \/ \E c \in MessageAhead : Evaluates(c, s)

LEMMA NoApplyParts ==
  ASSUME NEW q \in Seq(Calls), NoApply(q), q # <<>>
  PROVE  Head(q).do # "applyDisabled" /\ NoApply(Tail(q))
BY HeadElements DEF NoApply

\* No value is about to be applied before, nor after: what changes is covered.
LEMMA FollowWhere ==
  ASSUME FollowInv, stack'[Message] # <<>> => NoApply(Tail(stack'[Message])),
         \A s \in States : Effective(s)' = Effective(s), enabled' = enabled,
         \A s \in States : \/ Running(s)' <=> Running(s)
                           \/ \E c \in MessageAhead' : Evaluates(c, s),
         \A s \in States : \A c \in MessageAhead : Evaluates(c, s)
           => \E d \in MessageAhead' : Evaluates(d, s)
  PROVE  FollowInv'
<1>1. \A c, s : Evaluates(c, s)' <=> Evaluates(c, s)
  BY DEF Evaluates
<1>2. ASSUME NEW s \in States
      PROVE  Effective(s)' = ~Running(s)' \/ \E c \in MessageAhead' : Evaluates(c, s)'
  <2>1. CASE \E c \in MessageAhead' : Evaluates(c, s)
    BY <1>1, <2>1
  <2>2. CASE (Running(s)' <=> Running(s)) /\ Effective(s) = ~Running(s)
    <3>1. Effective(s)' = Effective(s)
      OBVIOUS
    <3>2. (~Running(s)') = (~Running(s))
      BY <2>2
    <3>3. QED
      BY <2>2, <3>1, <3>2
  <2>3. CASE \E c \in MessageAhead : Evaluates(c, s)
    BY <1>1, <2>3
  <2>4. QED
    BY <2>1, <2>2, <2>3 DEF FollowInv
<1>3. QED
  BY <1>2 DEF FollowInv

\* A call of the message thread that applies nothing.
LEMMA FollowKept ==
  ASSUME TypeInv, FollowInv, stack[Message] # <<>>, Top(Message).do # "applyDisabled",
         NEW new \in Seq(Calls), NoApply(new), Return(Message, new),
         ToSet(posted) \subseteq ToSet(posted'), UNCHANGED <<enabled, pmDisabled>>,
         \A s \in States : \/ Running(s)' <=> Running(s)
                           \/ \E c \in ToSet(new) \union ToSet(posted') : Evaluates(c, s),
         \A s \in States : Evaluates(Top(Message), s)
           => \E c \in ToSet(new) \union ToSet(posted') : Evaluates(c, s)
  PROVE  FollowInv'
<1>1. stack \in [Threads -> Seq(Calls)] /\ Message \in Threads
  BY ConstantsAssumption DEF TypeInv, TypeOK
<1>2. /\ stack' \in [Threads -> Seq(Calls)]
      /\ ToSet(stack[Message]) = {Top(Message)} \union ToSet(Tail(stack[Message]))
      /\ ToSet(stack'[Message]) = ToSet(new) \union ToSet(Tail(stack[Message]))
  BY <1>1, Returned
<1>3. NoApply(stack'[Message])
  BY <1>2 DEF NoApply, FollowInv
<1>4. stack'[Message] # <<>>
        => Head(stack'[Message]).do # "applyDisabled" /\ NoApply(Tail(stack'[Message]))
  BY <1>1, <1>2, <1>3, NoApplyParts
<1>5. \A s \in States : Effective(s)' = Effective(s)
  BY <1>4 DEF Effective, Applying, Top
<1>6. MessageAhead' = ToSet(new) \union ToSet(Tail(stack[Message])) \union ToSet(posted')
  BY <1>2 DEF MessageAhead
<1>7. ASSUME NEW s \in States, NEW c \in MessageAhead, Evaluates(c, s)
      PROVE  \E d \in MessageAhead' : Evaluates(d, s)
  BY <1>2, <1>6, <1>7 DEF MessageAhead
<1>8. \A s \in States : \/ Running(s)' <=> Running(s)
                        \/ \E c \in MessageAhead' : Evaluates(c, s)
  BY <1>6
<1>9. QED
  BY <1>4, <1>5, <1>7, <1>8, FollowWhere

\* A step that leaves the calls of the message thread as they are.
LEMMA FollowElsewhere ==
  ASSUME TypeInv, FollowInv, stack'[Message] = stack[Message],
         ToSet(posted) \subseteq ToSet(posted'), UNCHANGED <<enabled, pmDisabled>>,
         \A s \in States : \/ Running(s)' <=> Running(s)
                           \/ \E c \in ToSet(posted') : Evaluates(c, s)
  PROVE  FollowInv'
<1>1. \A s \in States : Effective(s)' = Effective(s)
  BY DEF Effective, Applying
<1>2. MessageAhead \subseteq MessageAhead' /\ ToSet(posted') \subseteq MessageAhead'
  BY DEF MessageAhead
<1>3. stack'[Message] # <<>> => NoApply(Tail(stack'[Message]))
  BY DEF FollowInv
<1>4. \A s \in States : \A c \in MessageAhead : Evaluates(c, s)
        => \E d \in MessageAhead' : Evaluates(d, s)
  BY <1>2
<1>5. \A s \in States : \/ Running(s)' <=> Running(s)
                        \/ \E c \in MessageAhead' : Evaluates(c, s)
  BY <1>2
<1>6. QED
  BY <1>1, <1>3, <1>4, <1>5, FollowWhere

\* What the message thread begins with.
LEMMA FollowBegun ==
  ASSUME TypeInv, FollowInv, stack[Message] = <<>>, NEW new \in Seq(Calls), NoApply(new),
         stack'[Message] = new, UNCHANGED <<active, enabled, pmDisabled>>,
         ToSet(posted) \subseteq ToSet(new) \union ToSet(posted')
  PROVE  FollowInv'
<1>1. new # <<>> => Head(new).do # "applyDisabled" /\ NoApply(Tail(new))
  BY NoApplyParts
<1>2. \A s \in States : Effective(s)' = Effective(s)
  BY <1>1 DEF Effective, Applying
<1>3. MessageAhead = ToSet(posted) /\ MessageAhead' = ToSet(new) \union ToSet(posted')
  BY ShortElements DEF MessageAhead
<1>4. \A s \in States : Running(s)' <=> Running(s)
  BY DEF Running
<1>5. \A s \in States : \A c \in MessageAhead : Evaluates(c, s)
        => \E d \in MessageAhead' : Evaluates(d, s)
  BY <1>3
<1>6. QED
  BY <1>1, <1>2, <1>4, <1>5, FollowWhere

LEMMA FollowInit ==
  Init => FollowInv
<1> SUFFICES ASSUME Init PROVE FollowInv
  OBVIOUS
<1>1. PICK order \in SetToSeqs(States) :
        stack = [th \in Threads |->
                  IF th = Message THEN [i \in 1..Len(order) |-> Load(order[i])] ELSE <<>>]
  BY DEF Init
<1> DEFINE loads == [i \in 1..Len(order) |-> Load(order[i])]
<1>2. stack[Message] = loads
  BY <1>1, ConstantsAssumption
<1>3. \A s : Load(s).do # "applyDisabled"
  BY DEF Load
<1>4. NoApply(loads)
  BY <1>3 DEF NoApply, ToSet
<1>5. loads \in Seq(Calls)
  <2>1. stack \in [Threads -> Seq(Calls)] /\ Message \in Threads
    BY TypeInit, ConstantsAssumption DEF TypeInv, TypeOK
  <2>2. QED
    BY <1>2, <2>1
<1> HIDE DEF loads
<1>6. loads # <<>> => Head(loads).do # "applyDisabled" /\ NoApply(Tail(loads))
  BY <1>4, <1>5, NoApplyParts
<1>7. \A s \in States : Effective(s) = ~Running(s)
  BY <1>2, <1>6 DEF Effective, Applying, Running, Init
<1>8. QED
  BY <1>2, <1>6, <1>7 DEF FollowInv

LEMMA NoApplyLists ==
  /\ NoApply(<<>>)
  /\ \A x : x.do # "applyDisabled" => NoApply(<<x>>)
  /\ \A x, y : x.do # "applyDisabled" /\ y.do # "applyDisabled" => NoApply(<<x, y>>)
  /\ \A x, y, z : x.do # "applyDisabled" /\ y.do # "applyDisabled" /\ z.do # "applyDisabled"
       => NoApply(<<x, y, z>>)
BY ShortElements DEF NoApply

LEMMA Does ==
  /\ \A s : /\ Load(s).do = "load" /\ Enabled(s).do = "update" /\ Enabled(s).s = s
            /\ Changed(s).do = "changed" /\ Changed(s).s = s
            /\ EvalDisabled(s).do = "evalDisabled" /\ EvalDisabled(s).s = s
            /\ Link(s).do = "link" /\ Link(s).s = s /\ Unlink(s).do = "unlink" /\ Unlink(s).s = s
            /\ \A v : /\ Set(s, v).do = "set" /\ Set(s, v).s = s /\ Set(s, v).v = v
                      /\ ApplyDisabled(s, v).do = "applyDisabled"
                      /\ ApplyDisabled(s, v).s = s /\ ApplyDisabled(s, v).v = v
            /\ \A r : /\ Loop(s, r).do = "loop" /\ Loop(s, r).s = s /\ Loop(s, r).rest = r
                      /\ Test(s, r).do = "test" /\ Test(s, r).s = s /\ Test(s, r).rest = r
  /\ \A t : /\ Fire(t).do = "fire" /\ Fire(t).t = t
            /\ Release(t).do = "release" /\ Release(t).t = t
  /\ Leave.do = "leave"
BY DEF Load, Enabled, Changed, EvalDisabled, Link, Unlink, Set, ApplyDisabled,
       Loop, Test, Fire, Release, Leave

LEMMA FollowStep ==
  ASSUME TypeInv, FollowInv, NEW th \in Threads, Step(th)
  PROVE  FollowInv'
<1>0. stack \in [Threads -> Seq(Calls)] /\ posted \in Seq(Calls)
      /\ active \in [States -> BOOLEAN] /\ enabled \in [States -> BOOLEAN]
      /\ pmDisabled \in [States -> BOOLEAN] /\ Message \in Threads
  BY ConstantsAssumption DEF TypeInv, TypeOK
<1>1. ASSUME stack[th] # <<>>
      PROVE  Top(th) \in Calls /\ (th # Message => Top(th).do \in {"set", "fire", "release"})
  <2>1. stack[th] \in Seq(Calls)
    BY <1>0
  <2>2. Top(th) \in Calls /\ Top(th) \in ToSet(stack[th])
    BY <1>1, <2>1, HeadElements DEF Top
  <2>3. QED
    BY <2>2 DEF TypeInv, Placed, Kinds
\* A call that changes no state and applies nothing.
<1>2. ASSUME stack[th] # <<>>, Top(th).do # "applyDisabled", NEW new \in Seq(Calls), NoApply(new),
             Return(th, new), UNCHANGED <<active, enabled, pmDisabled, posted>>,
             \A s \in States : Evaluates(Top(th), s) => \E c \in ToSet(new) : Evaluates(c, s)
      PROVE  FollowInv'
  <2>1. \A s \in States : Running(s)' <=> Running(s)
    BY <1>2 DEF Running
  <2>2. CASE th = Message
    BY <1>2, <2>1, <2>2, FollowKept
  <2>3. CASE th # Message
    <3>1. stack'[Message] = stack[Message]
      BY <1>0, <1>2, <2>3 DEF Return
    <3>2. QED
      BY <1>2, <2>1, <3>1, FollowElsewhere
  <2>4. QED
    BY <2>2, <2>3
<1>3. CASE HandleLoadActivation(th)
  <2> DEFINE s == Top(th).s
             new == IF Running(s) THEN <<Changed(s)>> ELSE <<>>
  <2>1. stack[th] # <<>> /\ Top(th).do = "load" /\ Return(th, new) /\ UNCHANGED data
    BY <1>3 DEF HandleLoadActivation, Calling
  <2>2. new \in Seq(Calls) /\ NoApply(new)
    BY <1>1, <2>1, CallFields, CallTypes, Lists, Does, NoApplyLists
  <2> HIDE DEF new
  <2>3. QED
    BY <1>2, <2>1, <2>2 DEF data, Evaluates
<1>4. CASE HandleEnabled(th)
  <2> DEFINE s == Top(th).s
             new == Update(s)
  <2>1. stack[th] # <<>> /\ Top(th).do = "update" /\ Return(th, new) /\ UNCHANGED data
    BY <1>4 DEF HandleEnabled, Calling
  <2>2. new \in Seq(Calls) /\ NoApply(new) /\ EvalDisabled(s) \in ToSet(new)
    BY <1>1, <2>1, CallFields, CallTypes, Lists, Does, NoApplyLists, ShortElements DEF Update
  <2> HIDE DEF new
  <2>3. QED
    BY <1>2, <2>1, <2>2, Does DEF data, Evaluates
<1>5. CASE SetValue(th)
  <2> DEFINE s == Top(th).s
             new == IF active[s] = Top(th).v \/ th # Message THEN <<>> ELSE <<Changed(s)>>
  <2>1. /\ stack[th] # <<>> /\ Top(th).do = "set" /\ Return(th, new)
        /\ active' = [active EXCEPT ![s] = Top(th).v]
        /\ UNCHANGED <<enabled, pmDisabled>>
    BY <1>5 DEF SetValue, Calling
  <2>2. s \in States /\ Top(th).v \in BOOLEAN /\ Changed(s) \in Calls
    BY <1>1, <2>1, CallFields, CallTypes
  <2>3. new \in Seq(Calls) /\ NoApply(new)
    BY <2>2, Lists, Does, NoApplyLists
  <2>4. ToSet(Append(posted, Changed(s))) = ToSet(posted) \union {Changed(s)}
    BY <1>0, <2>2, AppendElements
  <2>5. posted' = posted \/ posted' = Append(posted, Changed(s))
    BY <1>5 DEF SetValue, Post
  <2>6. ToSet(posted) \subseteq ToSet(posted')
    BY <2>4, <2>5
  <2>7. active[s] # Top(th).v =>
          IF th = Message THEN Changed(s) \in ToSet(new) ELSE Changed(s) \in ToSet(posted')
    <3>1. ASSUME active[s] # Top(th).v, th # Message PROVE Changed(s) \in ToSet(posted')
      <4>1. posted' = Append(posted, Changed(s))
        BY <1>5, <3>1 DEF SetValue, Post
      <4>2. QED
        BY <2>4, <4>1
    <3>2. QED
      BY <3>1, ShortElements
  <2>8. ASSUME NEW r \in States, ~(Running(r)' <=> Running(r))
        PROVE  Evaluates(Changed(s), r) /\ active[s] # Top(th).v
    <3>1. r = s /\ active[s] # Top(th).v /\ enabled[s]
      BY <1>0, <2>1, <2>2, <2>8 DEF Running
    <3>2. QED
      BY <3>1, Does DEF Evaluates
  <2>9. \A r : ~Evaluates(Top(th), r)
    BY <2>1 DEF Evaluates
  <2> HIDE DEF new
  <2>10. CASE th = Message
    <3>1. \A r \in States : \/ Running(r)' <=> Running(r)
                            \/ \E c \in ToSet(new) \union ToSet(posted') : Evaluates(c, r)
      BY <2>7, <2>8, <2>10
    <3>2. QED
      BY <2>1, <2>3, <2>6, <2>9, <2>10, <3>1, FollowKept
  <2>11. CASE th # Message
    <3>1. stack'[Message] = stack[Message]
      BY <1>0, <2>1, <2>11 DEF Return
    <3>2. \A r \in States : \/ Running(r)' <=> Running(r)
                            \/ \E c \in ToSet(posted') : Evaluates(c, r)
      BY <2>7, <2>8, <2>11
    <3>3. QED
      BY <2>1, <2>6, <3>1, <3>2, FollowElsewhere
  <2>12. QED
    BY <2>10, <2>11
<1>6. CASE HandleActiveChanged(th)
  <2> DEFINE s == Top(th).s
             new == IF ~enabled[s] THEN <<>>
                    ELSE IF active[s] THEN <<EvalDisabled(s), Link(s), Loop(s, Outs(s))>>
                    ELSE Update(s)
  <2>1. /\ stack[th] # <<>> /\ Top(th).do = "changed" /\ Return(th, new)
        /\ UNCHANGED <<active, enabled, pmDisabled, posted>>
    BY <1>6 DEF HandleActiveChanged, Calling
  <2>2. s \in States /\ Outs(s) \in Seq(Transitions)
    BY <1>1, <2>1, CallFields, OutsType
  <2>3. new \in Seq(Calls) /\ NoApply(new) /\ (enabled[s] => EvalDisabled(s) \in ToSet(new))
    <3>1. EvalDisabled(s) \in Calls /\ Link(s) \in Calls /\ Loop(s, Outs(s)) \in Calls
      BY <2>2, CallTypes
    <3>2. /\ <<EvalDisabled(s), Link(s), Loop(s, Outs(s))>> \in Seq(Calls)
          /\ Update(s) \in Seq(Calls) /\ <<>> \in Seq(Calls)
      BY <3>1, Lists DEF Update
    <3>3. /\ NoApply(<<EvalDisabled(s), Link(s), Loop(s, Outs(s))>>)
          /\ NoApply(Update(s)) /\ NoApply(<<>>)
      BY Does, NoApplyLists DEF Update
    <3>4. /\ EvalDisabled(s) \in ToSet(<<EvalDisabled(s), Link(s), Loop(s, Outs(s))>>)
          /\ EvalDisabled(s) \in ToSet(Update(s))
      BY ShortElements DEF Update
    <3>5. QED
      BY <3>2, <3>3, <3>4
  <2> HIDE DEF new
  <2>4. QED
    BY <1>2, <2>1, <2>3, Does DEF Evaluates
<1>7. CASE ComputeDisabled(th)
  <2> DEFINE s == Top(th).s
             v == ~Running(s)
             new == <<ApplyDisabled(s, v)>>
  <2>1. /\ stack[th] # <<>> /\ Top(th).do = "evalDisabled" /\ th = Message
        /\ Return(th, new) /\ UNCHANGED data
    BY <1>1, <1>7 DEF ComputeDisabled, Calling
  <2>2. ApplyDisabled(s, v) \in Calls
    <3>1. s \in States
      BY <1>1, <2>1, CallFields
    <3>2. v \in BOOLEAN
      OBVIOUS
    <3> HIDE DEF v
    <3>3. QED
      BY <3>1, <3>2, CallTypes
  <2>3. new \in Seq(Calls) /\ ToSet(new) = {ApplyDisabled(s, v)} /\ Head(new) = ApplyDisabled(s, v)
    BY <2>2, Lists, ShortElements
  <2>4. /\ stack'[Message] = new \o Tail(stack[Message])
        /\ ToSet(stack[Message]) = {Top(th)} \union ToSet(Tail(stack[Message]))
        /\ ToSet(stack'[Message]) = ToSet(new) \union ToSet(Tail(stack[Message]))
    <3> HIDE DEF new
    <3>1. QED
      BY <1>0, <2>1, <2>3, Returned
  <2>5. /\ stack'[Message] # <<>> /\ Head(stack'[Message]) = ApplyDisabled(s, v)
        /\ Tail(stack'[Message]) = Tail(stack[Message])
    <3>1. stack[Message] \in Seq(Calls) /\ stack[Message] # <<>>
      BY <1>0, <2>1
    <3>2. Tail(stack[Message]) \in Seq(Calls)
      BY <3>1, HeadElements
    <3>3. QED
      BY <2>2, <2>4, <3>2
  <2> HIDE DEF new
  <2>6. NoApply(Tail(stack'[Message]))
    BY <2>1, <2>5 DEF FollowInv
  <2>7. ASSUME NEW r \in States PROVE Effective(r)' = ~Running(r)' \/ \E c \in MessageAhead' : Evaluates(c, r)'
    <3>1. CASE r = s
      <4>1. Effective(r)' = ~Running(r)
        BY <2>5, <3>1, Does DEF Effective, Applying
      <4>2. QED
        BY <2>1, <4>1 DEF data, Running
    <3>2. CASE r # s
      <4>1. Effective(r)' = pmDisabled[r]
        BY <2>1, <2>5, <3>2, Does DEF Effective, Applying, data
      <4>2. Effective(r) = pmDisabled[r]
        BY <2>1 DEF Effective, Applying, Top
      <4>3. \A c \in MessageAhead : Evaluates(c, r) => c \in MessageAhead' /\ Evaluates(c, r)'
        BY <2>1, <2>4, <3>2 DEF MessageAhead, Evaluates, data
      <4>4. Running(r)' <=> Running(r)
        BY <2>1 DEF Running, data
      <4>5. QED
        BY <4>1, <4>2, <4>3, <4>4 DEF FollowInv
    <3>3. QED
      BY <3>1, <3>2
  <2>8. QED
    BY <2>6, <2>7 DEF FollowInv
<1>8. CASE SetForceDisabled(th)
  <2> DEFINE s == Top(th).s
             new == <<>>
  <2>1. /\ stack[th] # <<>> /\ Top(th).do = "applyDisabled" /\ th = Message /\ Return(th, new)
        /\ pmDisabled' = [pmDisabled EXCEPT ![s] = Top(th).v]
        /\ UNCHANGED <<active, enabled, posted>>
    BY <1>1, <1>8 DEF SetForceDisabled, Calling
  <2>2. s \in States /\ Top(th).v \in BOOLEAN
    BY <1>1, <2>1, CallFields
  <2>3. new \in Seq(Calls) /\ ToSet(new) = {}
    BY Lists, ShortElements
  <2>4. /\ stack' \in [Threads -> Seq(Calls)]
        /\ ToSet(stack[Message]) = {Top(th)} \union ToSet(Tail(stack[Message]))
        /\ ToSet(stack'[Message]) = ToSet(new) \union ToSet(Tail(stack[Message]))
    <3> HIDE DEF new
    <3>1. QED
      BY <1>0, <2>1, <2>3, Returned
  <2> HIDE DEF new
  <2>5. NoApply(stack'[Message])
    BY <2>1, <2>3, <2>4 DEF FollowInv, NoApply
  <2>6. stack'[Message] # <<>>
          => Head(stack'[Message]).do # "applyDisabled" /\ NoApply(Tail(stack'[Message]))
    BY <1>0, <2>4, <2>5, NoApplyParts
  <2>7. \A r \in States : Effective(r)' = Effective(r)
    BY <1>0, <2>1, <2>2, <2>6 DEF Effective, Applying, Top
  <2>8. \A r \in States : Running(r)' <=> Running(r)
    BY <2>1 DEF Running
  <2>9. \A r \in States : \A c \in MessageAhead : Evaluates(c, r) => c \in MessageAhead'
    BY <2>1, <2>4 DEF MessageAhead, Evaluates
  <2>10. QED
    BY <2>1, <2>6, <2>7, <2>8, <2>9, FollowWhere
<1>9. CASE StateActivationChanged(th)
  <2> DEFINE s == Top(th).s
             new == IF active[s] THEN <<Unlink(s)>> ELSE <<>>
  <2>1. stack[th] # <<>> /\ Top(th).do = "link" /\ Return(th, new) /\ UNCHANGED data
    BY <1>9 DEF StateActivationChanged, Calling
  <2>2. new \in Seq(Calls) /\ NoApply(new)
    BY <1>1, <2>1, CallFields, CallTypes, Lists, Does, NoApplyLists
  <2> HIDE DEF new
  <2>3. QED
    BY <1>2, <2>1, <2>2 DEF data, Evaluates
<1>10. CASE SetStateActive(th)
  <2> DEFINE s == Top(th).s
             new == Stops(s)
  <2>1. stack[th] # <<>> /\ Top(th).do = "unlink" /\ Return(th, new) /\ UNCHANGED data
    BY <1>10 DEF SetStateActive, Calling, Stops
  <2>2. new \in Seq(Calls) /\ NoApply(new)
    <3> HIDE DEF s
    <3>1. Stops(s) \in Seq(Calls) /\ ToSet(Stops(s)) = {Set(l, FALSE) : l \in Linked(s)}
      BY StopsElements
    <3>2. \A c \in ToSet(Stops(s)) : \E l : c = Set(l, FALSE)
      BY <3>1
    <3>3. \A l : Set(l, FALSE).do = "set"
      BY DEF Set
    <3>4. \A c \in ToSet(Stops(s)) : c.do # "applyDisabled"
      BY <3>2, <3>3
    <3>5. QED
      BY <3>1, <3>4 DEF NoApply
  <2> HIDE DEF new
  <2>3. QED
    BY <1>2, <2>1, <2>2 DEF data, Evaluates
<1>11. CASE VisitTransition(th)
  <2> DEFINE s == Top(th).s
             rest == Top(th).rest
             t == Head(rest)
             new == IF rest = <<>> THEN <<>>
                    ELSE IF t \in OnActivate /\ CanTrigger(t)
                    THEN <<Fire(t), Release(t), Test(s, rest)>> ELSE <<Test(s, rest)>>
  <2>1. /\ stack[th] # <<>> /\ Top(th).do = "loop" /\ Return(th, new)
        /\ UNCHANGED <<active, enabled, pmDisabled, posted>>
    BY <1>11 DEF VisitTransition, Calling
  <2>2. s \in States /\ rest \in Seq(Transitions)
    BY <1>1, <2>1, CallFields
  <2>3. rest # <<>> => Fire(t) \in Calls /\ Release(t) \in Calls /\ Test(s, rest) \in Calls
    BY <2>2, HeadElements, CallTypes
  <2>4. new \in Seq(Calls) /\ NoApply(new)
    BY <2>3, Lists, Does, NoApplyLists
  <2> HIDE DEF new
  <2>5. QED
    BY <1>2, <2>1, <2>4 DEF Evaluates
<1>12. CASE TestTransition(th)
  <2> DEFINE s == Top(th).s
             rest == Top(th).rest
             t == Head(rest)
             new == IF s \in Check /\ valid[t]
                    THEN IF TooDeep(depth) THEN <<>> ELSE <<Fire(t), Leave>>
                    ELSE <<Loop(s, Tail(rest))>>
  <2>1. /\ stack[th] # <<>> /\ Top(th).do = "test" /\ Return(th, new)
        /\ UNCHANGED <<active, enabled, pmDisabled, posted>>
    BY <1>12 DEF TestTransition, Calling, Advance
  <2>2. s \in States /\ rest \in Seq(Transitions) /\ rest # <<>>
    BY <1>1, <2>1, CallFields
  <2>3. Fire(t) \in Calls /\ Leave \in Calls /\ Loop(s, Tail(rest)) \in Calls
    BY <2>2, HeadElements, CallTypes
  <2>4. new \in Seq(Calls) /\ NoApply(new)
    BY <2>3, Lists, Does, NoApplyLists
  <2> HIDE DEF new
  <2>5. QED
    BY <1>2, <2>1, <2>4 DEF Evaluates
<1>13. CASE LeaveTransition(th)
  <2>1. /\ stack[th] # <<>> /\ Top(th).do = "leave" /\ Return(th, <<>>)
        /\ UNCHANGED <<active, enabled, pmDisabled, posted>>
    BY <1>13 DEF LeaveTransition, Calling
  <2>2. QED
    BY <1>2, <2>1, Lists, NoApplyLists DEF Evaluates
<1>14. CASE FireTransition(th)
  <2> DEFINE t == Top(th).t
             new == IF active[Src[t]] THEN Switch(t) ELSE <<>>
  <2>1. stack[th] # <<>> /\ Top(th).do = "fire" /\ Return(th, new) /\ UNCHANGED data
    BY <1>14 DEF FireTransition, Calling
  <2>2. Set(Src[t], FALSE) \in Calls /\ Set(Dst[t], TRUE) \in Calls
    BY <1>1, <2>1, CallFields, CallTypes, ConstantsAssumption
  <2>3. new \in Seq(Calls) /\ NoApply(new)
    BY <2>2, Lists, Does, NoApplyLists DEF Switch
  <2> HIDE DEF new
  <2>4. QED
    BY <1>2, <2>1, <2>3 DEF data, Evaluates
<1>15. CASE ReleaseTrigger(th)
  <2>1. /\ stack[th] # <<>> /\ Top(th).do = "release" /\ Return(th, <<>>)
        /\ UNCHANGED <<active, enabled, pmDisabled, posted>>
    BY <1>15 DEF ReleaseTrigger, Calling
  <2>2. QED
    BY <1>2, <2>1, Lists, NoApplyLists DEF Evaluates
<1>16. QED
  BY <1>3, <1>4, <1>5, <1>6, <1>7, <1>8, <1>9, <1>10, <1>11, <1>12, <1>13, <1>14, <1>15
     DEF Step

LEMMA FollowEnvironment ==
  ASSUME TypeInv, FollowInv, Environment
  PROVE  FollowInv'
<1>0. /\ stack \in [Threads -> Seq(Calls)] /\ posted \in Seq(Calls) /\ Message \in Threads
      /\ active \in [States -> BOOLEAN] /\ enabled \in [States -> BOOLEAN]
  BY ConstantsAssumption DEF TypeInv, TypeOK
<1>1. ASSUME NEW th \in Threads, NEW new \in Seq(Calls), Begin(th, new), NoApply(new),
             UNCHANGED <<active, enabled, pmDisabled, posted>>
      PROVE  FollowInv'
  <2>1. stack[th] = <<>> /\ stack'[th] = new /\ \A u \in Threads \ {th} : stack'[u] = stack[u]
    BY <1>0, <1>1 DEF Begin
  <2>2. CASE th = Message
    BY <1>1, <2>1, <2>2, FollowBegun
  <2>3. CASE th # Message
    <3>1. stack'[Message] = stack[Message]
      BY <1>0, <2>1, <2>3
    <3>2. \A s \in States : Running(s)' <=> Running(s)
      BY <1>1 DEF Running
    <3>3. QED
      BY <1>1, <3>1, <3>2, FollowElsewhere
  <2>4. QED
    BY <2>2, <2>3
<1>2. ASSUME NEW th \in Threads, NEW t \in Transitions, PulseConditions(th, t) PROVE FollowInv'
  <2> DEFINE new == IF ~valid[t] /\ CanTrigger(t) THEN <<Fire(t), Release(t)>> ELSE <<>>
  <2>1. Begin(th, new) /\ UNCHANGED <<active, enabled, pmDisabled, posted>>
    BY <1>2 DEF PulseConditions
  <2>2. new \in Seq(Calls) /\ NoApply(new)
    BY Starts, Does, NoApplyLists
  <2> HIDE DEF new
  <2>3. QED
    BY <1>1, <2>1, <2>2
<1>3. ASSUME NEW th \in Threads, NEW s \in States, Activate(th, s) \/ Deactivate(th, s)
      PROVE FollowInv'
  <2>1. PICK v \in BOOLEAN : Begin(th, <<Set(s, v)>>)
    BY <1>3 DEF Activate, Deactivate
  <2>2. UNCHANGED <<active, enabled, pmDisabled, posted>>
    BY <1>3 DEF Activate, Deactivate, data
  <2>3. <<Set(s, v)>> \in Seq(Calls) /\ NoApply(<<Set(s, v)>>)
    BY Starts, Does, NoApplyLists
  <2>4. QED
    BY <1>1, <2>1, <2>2, <2>3
<1>4. ASSUME NEW th \in Threads, NEW s \in States, EnableState(th, s) PROVE FollowInv'
  <2> DEFINE new == IF th = Message THEN <<Enabled(s)>> ELSE <<>>
  <2>1. /\ Begin(th, new) /\ enabled' = [enabled EXCEPT ![s] = ~@]
        /\ UNCHANGED <<active, pmDisabled>>
        /\ posted' = IF th = Message THEN posted ELSE Append(posted, Enabled(s))
    BY <1>4 DEF EnableState, Post
  <2>2. new \in Seq(Calls) /\ NoApply(new)
    BY Starts, Does, NoApplyLists
  <2>3. ToSet(Append(posted, Enabled(s))) = ToSet(posted) \union {Enabled(s)}
    <3>1. Enabled(s) \in Calls
      BY CallTypes
    <3>2. QED
      BY <1>0, <3>1, AppendElements
  <2>4. ToSet(posted) \subseteq ToSet(posted')
    BY <2>1, <2>3
  <2>5. Enabled(s) \in IF th = Message THEN ToSet(new) ELSE ToSet(posted')
    BY <2>1, <2>3, ShortElements
  <2> HIDE DEF new
  <2>6. /\ stack[th] = <<>> /\ stack'[th] = new
        /\ \A u \in Threads \ {th} : stack'[u] = stack[u]
    BY <1>0, <2>1 DEF Begin
  <2>7. /\ MessageAhead \subseteq MessageAhead' /\ Enabled(s) \in MessageAhead'
        /\ stack'[Message] # <<>> => NoApply(Tail(stack'[Message]))
        /\ \A r \in States : Effective(r)' = Effective(r)
    <3>1. CASE th = Message
      <4>1. stack'[Message] # <<>> => Head(stack'[Message]).do # "applyDisabled"
                                      /\ NoApply(Tail(stack'[Message]))
        BY <2>2, <2>6, <3>1, NoApplyParts
      <4>2. \A r \in States : Effective(r)' = Effective(r)
        BY <2>1, <2>6, <3>1, <4>1 DEF Effective, Applying
      <4>3. MessageAhead \subseteq MessageAhead' /\ Enabled(s) \in MessageAhead'
        BY <2>4, <2>5, <2>6, <3>1, ShortElements DEF MessageAhead
      <4>4. QED
        BY <4>1, <4>2, <4>3
    <3>2. CASE th # Message
      <4>1. stack'[Message] = stack[Message]
        BY <1>0, <2>6, <3>2
      <4>2. \A r \in States : Effective(r)' = Effective(r)
        BY <2>1, <4>1 DEF Effective, Applying
      <4>3. MessageAhead \subseteq MessageAhead' /\ Enabled(s) \in MessageAhead'
        BY <2>4, <2>5, <3>2, <4>1 DEF MessageAhead
      <4>4. QED
        BY <4>1, <4>2, <4>3 DEF FollowInv
    <3>3. QED
      BY <3>1, <3>2
  <2>8. ASSUME NEW r \in States PROVE Effective(r)' = ~Running(r)' \/ \E c \in MessageAhead' : Evaluates(c, r)'
    <3>1. CASE r = s
      <4>1. Evaluates(Enabled(s), r)'
        BY <3>1, Does DEF Evaluates
      <4>2. QED
        BY <2>7, <4>1
    <3>2. CASE r # s
      <4>1. Running(r)' <=> Running(r)
        BY <1>0, <2>1, <3>2 DEF Running
      <4>2. \A c : Evaluates(c, r) => Evaluates(c, r)'
        BY <1>0, <2>1, <3>2 DEF Evaluates
      <4>3. QED
        BY <2>7, <4>1, <4>2 DEF FollowInv
    <3>3. QED
      BY <3>1, <3>2
  <2>9. QED
    BY <2>7, <2>8 DEF FollowInv
<1>5. ASSUME NEW t \in Transitions, ChangeConditions(t) PROVE FollowInv'
  <2> DEFINE new == IF valid'[t] /\ CanTrigger(t) THEN <<Fire(t), Release(t)>> ELSE <<>>
  <2>1. Begin(Message, new) /\ UNCHANGED <<active, enabled, pmDisabled, posted>>
    BY <1>5 DEF ChangeConditions
  <2>2. new \in Seq(Calls) /\ NoApply(new)
    BY Starts, Does, NoApplyLists
  <2> HIDE DEF new
  <2>3. QED
    BY <1>0, <1>1, <2>1, <2>2
<1>6. ASSUME NEW t \in Transitions, EnableTransition(t) PROVE FollowInv'
  <2>1. Begin(Message, <<>>) /\ UNCHANGED <<active, enabled, pmDisabled, posted>>
    BY <1>6 DEF EnableTransition
  <2>2. QED
    BY <1>0, <1>1, <2>1, Starts, NoApplyLists
<1>7. ASSUME NEW t \in Transitions, AddTransition(t) PROVE FollowInv'
  <2>1. Begin(Message, Joined(t)) /\ UNCHANGED <<active, enabled, pmDisabled, posted>>
    BY <1>7 DEF AddTransition
  <2>2. NoApply(Joined(t)) /\ Joined(t) \in Seq(Calls)
    BY Starts, Does, NoApplyLists DEF Joined
  <2>3. QED
    BY <1>0, <1>1, <2>1, <2>2
<1>8. ASSUME NEW t \in Transitions, RemoveTransition(t) PROVE FollowInv'
  <2>1. UNCHANGED <<active, enabled, pmDisabled, stack, posted>>
    BY <1>8 DEF RemoveTransition
  <2>2. \A s \in States : Running(s)' <=> Running(s)
    BY <2>1 DEF Running
  <2>3. QED
    BY <2>1, <2>2, FollowElsewhere
<1>9. QED
  BY <1>2, <1>3, <1>4, <1>5, <1>6, <1>7, <1>8 DEF Environment

LEMMA FollowNext ==
  TypeInv /\ FollowInv /\ [Next]_vars => FollowInv'
<1>1. ASSUME TypeInv, FollowInv, UNCHANGED vars PROVE FollowInv'
  <2>1. UNCHANGED <<active, enabled, pmDisabled, stack, posted>>
    BY <1>1 DEF vars
  <2>2. \A s \in States : Running(s)' <=> Running(s)
    BY <2>1 DEF Running
  <2>3. QED
    BY <1>1, <2>1, <2>2, FollowElsewhere
<1>2. ASSUME TypeInv, FollowInv, HandlePosted PROVE FollowInv'
  <2>1. /\ Head(posted) \in Calls /\ Head(posted).do # "applyDisabled"
        /\ stack[Message] = <<>> /\ stack'[Message] = <<Head(posted)>>
        /\ ToSet(posted) = {Head(posted)} \union ToSet(posted')
    BY <1>2, TypeHandle
  <2>2. <<Head(posted)>> \in Seq(Calls) /\ NoApply(<<Head(posted)>>)
        /\ ToSet(<<Head(posted)>>) = {Head(posted)}
    BY <2>1, Lists, NoApplyLists, ShortElements
  <2>3. UNCHANGED <<active, enabled, pmDisabled>>
    BY <1>2 DEF HandlePosted
  <2>4. QED
    BY <1>2, <2>1, <2>2, <2>3, FollowBegun
<1>3. QED
  BY <1>1, <1>2, FollowStep, FollowEnvironment DEF Next

\* Once every handler is over, the processors of a state are enabled exactly when
\* it is active and enabled, whichever threads set it and in whatever order their
\* handlers ran (State::handleActiveChanged, State.cpp).
THEOREM ProcessorsFollowStates ==
  Spec => []ProcessorsFollow
<1>1. ASSUME TypeInv, FollowInv PROVE ProcessorsFollow
  <2>1. SUFFICES ASSUME AtRest, NEW s \in States PROVE pmDisabled[s] = ~Running(s)
    BY DEF ProcessorsFollow
  <2>2. stack[Message] = <<>> /\ posted = <<>>
    BY <2>1, ConstantsAssumption DEF AtRest
  <2>3. MessageAhead = {}
    BY <2>2, ShortElements DEF MessageAhead
  <2>4. Effective(s) = pmDisabled[s]
    BY <2>2 DEF Effective, Applying
  <2>5. QED
    BY <1>1, <2>3, <2>4 DEF FollowInv
<1>2. Spec => []FollowInv
  BY FollowInit, FollowNext, TypeAlways, PTL DEF Spec
<1>3. QED
  BY <1>1, <1>2, TypeAlways, PTL

-----------------------------------------------------------------------------
\* The call c may be made before a state that is about to be set: what it calls
\* sets no state.  act is which states are active.
Harmless(c, act) ==
  \/ c.do = "set" /\ ~c.v
  \/ c.do \in {"changed", "update", "link", "evalDisabled", "applyDisabled"} /\ ~act[c.s]

\* Nothing but harmless calls is ahead of a call that sets a state.
Ordered(q, act) ==
  \A i \in 1..Len(q) : q[i].do = "set" => \A j \in 1..(i - 1) : Harmless(q[j], act)

NoSet(q) == \A c \in ToSet(q) : c.do # "set"
Turns(c, l, v) == c.do = "set" /\ c.s = l /\ c.v = v

\* l is active and stays so, or is about to be set active.
Holds(q, act, l) ==
  \/ act[l] /\ \A c \in ToSet(q) : ~Turns(c, l, FALSE)
  \/ \E c \in ToSet(q) : Turns(c, l, TRUE)

\* The transitions that the calls of q use exist.
UsesExisting(q, E) ==
  \A c \in ToSet(q) : /\ c.do = "fire" => c.t \in E
                      /\ c.do \in {"loop", "test"} => ToSet(c.rest) \subseteq E

NoUnlink(q) == \A c \in ToSet(q) : c.do # "unlink"
Unlinks(q, act) ==
  q # <<>> => /\ NoUnlink(Tail(q))
              /\ Head(q).do = "unlink" => act[Head(q).s]

\* On one thread: of the states joined to one that has been active, one is active
\* and stays so, or is about to be set active.
LostInv ==
  /\ posted = <<>>
  /\ Ordered(stack[Message], active)
  /\ Unlinks(stack[Message], active)
  /\ UsesExisting(stack[Message], Existing)
  /\ \A s \in ever : \E l \in Joint(Existing, s) : Holds(stack[Message], active, l)

LEMMA OrderedReplaced ==
  ASSUME NEW q \in Seq(Calls), q # <<>>, NEW new \in Seq(Calls), NEW act, NEW post,
         Ordered(q, act), Ordered(new, post),
         \A c \in ToSet(Tail(q)) : Harmless(c, act) => Harmless(c, post),
         NoSet(Tail(q)) \/ \A c \in ToSet(new) : Harmless(c, post)
  PROVE  Ordered(new \o Tail(q), post)
<1> DEFINE r == new \o Tail(q)
<1>1. /\ Tail(q) \in Seq(Calls) /\ Len(q) \in Nat \ {0} /\ Len(new) \in Nat
      /\ Len(Tail(q)) = Len(q) - 1
      /\ \A i \in 1..Len(Tail(q)) : Tail(q)[i] = q[i + 1]
  BY HeadTailProperties, EmptySeq
<1>2. /\ r \in Seq(Calls) /\ Len(r) = Len(new) + Len(q) - 1
      /\ \A i \in 1..Len(new) : r[i] = new[i]
      /\ \A i \in 1..Len(r) : i > Len(new) => /\ i - Len(new) + 1 \in 2..Len(q)
                                             /\ r[i] = q[i - Len(new) + 1]
  BY Replaced
<1>3. \A k \in 2..Len(q) : q[k] \in ToSet(Tail(q))
  <2>1. ASSUME NEW k \in 2..Len(q) PROVE q[k] \in ToSet(Tail(q))
    <3>1. k - 1 \in 1..Len(Tail(q)) /\ Tail(q)[k - 1] = q[k]
      BY <1>1
    <3>2. QED
      BY <1>1, <3>1, Elements
  <2>2. QED
    BY <2>1
<1>4. \A k \in 1..Len(new) : new[k] \in ToSet(new)
  BY Elements
<1> HIDE DEF r
<1>5. SUFFICES ASSUME NEW i \in 1..Len(r), r[i].do = "set", NEW j \in 1..(i - 1)
               PROVE  Harmless(r[j], post)
  BY DEF Ordered, r
<1>6. CASE i <= Len(new)
  <2>1. i \in 1..Len(new) /\ j \in 1..Len(new) /\ r[i] = new[i] /\ r[j] = new[j]
    BY <1>1, <1>2, <1>6
  <2>2. QED
    BY <1>5, <2>1 DEF Ordered
<1>7. CASE i > Len(new)
  <2>1. i - Len(new) + 1 \in 2..Len(q) /\ r[i] = q[i - Len(new) + 1]
    BY <1>2, <1>7
  <2>2. ~NoSet(Tail(q))
    BY <1>3, <1>5, <2>1 DEF NoSet
  <2>3. CASE j <= Len(new)
    <3>1. j \in 1..Len(new) /\ r[j] = new[j]
      BY <1>1, <1>2, <2>3
    <3>2. QED
      BY <1>4, <2>2, <3>1
  <2>4. CASE j > Len(new)
    <3>1. j \in 1..Len(r)
      BY <1>1, <1>2
    <3>2. j - Len(new) + 1 \in 2..Len(q) /\ r[j] = q[j - Len(new) + 1]
      BY <1>2, <2>4, <3>1
    <3>3. j - Len(new) + 1 \in 1..((i - Len(new) + 1) - 1)
      BY <1>1, <1>2, <2>1, <3>1, <3>2
    <3>4. i - Len(new) + 1 \in 1..Len(q) /\ q[i - Len(new) + 1].do = "set"
      BY <1>1, <1>5, <2>1
    <3>5. Harmless(q[j - Len(new) + 1], act)
      BY <3>3, <3>4 DEF Ordered
    <3>6. QED
      BY <1>3, <3>2, <3>5
  <2>5. QED
    BY <1>1, <2>3, <2>4
<1>8. QED
  BY <1>1, <1>2, <1>6, <1>7

LEMMA OrderedHead ==
  ASSUME NEW q \in Seq(Calls), q # <<>>, NEW act, Ordered(q, act)
  PROVE  NoSet(Tail(q)) \/ Harmless(Head(q), act)
<1>1. /\ Tail(q) \in Seq(Calls) /\ Len(q) \in Nat \ {0} /\ Head(q) = q[1]
      /\ Len(Tail(q)) = Len(q) - 1
      /\ \A i \in 1..Len(Tail(q)) : Tail(q)[i] = q[i + 1]
  BY HeadTailProperties, EmptySeq
<1>2. SUFFICES ASSUME ~NoSet(Tail(q)) PROVE Harmless(Head(q), act)
  OBVIOUS
<1>2a. PICK c \in ToSet(Tail(q)) : c.do = "set"
  BY <1>2 DEF NoSet
<1>2b. \A x : x \in ToSet(Tail(q)) <=> \E i \in 1..Len(Tail(q)) : Tail(q)[i] = x
  <2> DEFINE tail == Tail(q)
  <2>1. tail \in Seq(Calls)
    BY <1>1
  <2> HIDE DEF tail
  <2>2. \A x : x \in ToSet(tail) <=> \E i \in 1..Len(tail) : tail[i] = x
    BY <2>1, Elements
  <2>3. QED
    BY <2>2 DEF tail
<1>3. PICK i \in 1..Len(Tail(q)) : Tail(q)[i] = c
  BY <1>2b
<1>4. i + 1 \in 1..Len(q) /\ q[i + 1] = c /\ 1 \in 1..((i + 1) - 1)
  BY <1>1, <1>3
<1>5. Harmless(q[1], act)
  BY <1>2a, <1>4 DEF Ordered
<1>6. QED
  BY <1>1, <1>5

LEMMA OrderedNoSet ==
  ASSUME NEW q \in Seq(Calls), NoSet(q), NEW act
  PROVE  Ordered(q, act)
BY Elements DEF Ordered, NoSet

LEMMA OrderedHarmless ==
  ASSUME NEW q \in Seq(Calls), NEW act, \A c \in ToSet(q) : Harmless(c, act)
  PROVE  Ordered(q, act)
<1>1. Len(q) \in Nat /\ \A i \in 1..Len(q) : q[i] \in ToSet(q)
  BY Elements
<1>2. \A i \in 1..Len(q) : \A j \in 1..(i - 1) : j \in 1..Len(q)
  BY <1>1
<1>3. QED
  BY <1>1, <1>2 DEF Ordered

LEMMA UnlinksReplaced ==
  ASSUME NEW q \in Seq(Calls), q # <<>>, NEW new \in Seq(Calls), NEW act, NEW post,
         Unlinks(q, act),
         NoUnlink(new) \/ \E c \in Calls : new = <<c>> /\ post[c.s]
  PROVE  Unlinks(new \o Tail(q), post)
<1>1. Tail(q) \in Seq(Calls) /\ NoUnlink(Tail(q))
  BY HeadElements DEF Unlinks
<1>2. CASE NoUnlink(new)
  <2>1. /\ new \o Tail(q) \in Seq(Calls)
        /\ ToSet(new \o Tail(q)) = ToSet(new) \union ToSet(Tail(q))
    BY ReplacedElements
  <2>2. NoUnlink(new \o Tail(q))
    BY <1>1, <1>2, <2>1 DEF NoUnlink
  <2>3. ASSUME new \o Tail(q) # <<>>
        PROVE  NoUnlink(Tail(new \o Tail(q))) /\ Head(new \o Tail(q)).do # "unlink"
    <3> DEFINE r == new \o Tail(q)
    <3> HIDE DEF r
    <3>1. r \in Seq(Calls) /\ r # <<>> /\ NoUnlink(r)
      BY <2>1, <2>2, <2>3 DEF r
    <3>2. NoUnlink(Tail(r)) /\ Head(r).do # "unlink"
      BY <3>1, HeadElements DEF NoUnlink
    <3>3. QED
      BY <3>2 DEF r
  <2>4. QED
    BY <2>3 DEF Unlinks
<1>3. ASSUME NEW c \in Calls, new = <<c>>, post[c.s] PROVE Unlinks(new \o Tail(q), post)
  <2>1. Head(<<c>> \o Tail(q)) = c /\ Tail(<<c>> \o Tail(q)) = Tail(q)
    BY <1>1
  <2>2. QED
    BY <1>1, <1>3, <2>1 DEF Unlinks
<1>4. QED
  BY <1>2, <1>3

LEMMA UsesReplaced ==
  ASSUME NEW q \in Seq(Calls), q # <<>>, NEW new \in Seq(Calls), NEW E,
         UsesExisting(q, E), UsesExisting(new, E)
  PROVE  UsesExisting(new \o Tail(q), E)
<1>1. ToSet(new \o Tail(q)) = ToSet(new) \union ToSet(Tail(q))
  BY ReplacedElements
<1>2. ToSet(q) = {Head(q)} \union ToSet(Tail(q))
  BY HeadElements
<1>3. QED
  BY <1>1, <1>2 DEF UsesExisting

\* A call that sets no state and leaves none to set.
LEMMA LostKept ==
  ASSUME TypeInv, LostInv, stack[Message] # <<>>, NEW new \in Seq(Calls),
         Return(Message, new), UNCHANGED <<active, trans, posted, ever>>,
         Top(Message).do \notin {"set", "unlink"}, NoSet(new),
         Harmless(Top(Message), active) => \A c \in ToSet(new) : Harmless(c, active),
         NoUnlink(new) \/ \E c \in Calls : new = <<c>> /\ active[c.s],
         UsesExisting(new, Existing)
  PROVE  LostInv'
<1> DEFINE q == stack[Message]
           r == new \o Tail(q)
<1>1. stack \in [Threads -> Seq(Calls)] /\ Message \in Threads /\ q \in Seq(Calls)
  BY ConstantsAssumption DEF TypeInv, TypeOK
<1>2. stack'[Message] = r /\ Existing' = Existing /\ Head(q) = Top(Message)
  BY <1>1 DEF Return, Existing, Top
<1>3. /\ ToSet(q) = {Head(q)} \union ToSet(Tail(q))
      /\ ToSet(r) = ToSet(new) \union ToSet(Tail(q))
  BY <1>1, HeadElements, ReplacedElements
<1>4. Ordered(r, active)
  <2>1. Ordered(q, active) /\ Ordered(new, active)
    BY OrderedNoSet DEF LostInv
  <2>2. NoSet(Tail(q)) \/ \A c \in ToSet(new) : Harmless(c, active)
    BY <1>1, <1>2, <2>1, OrderedHead
  <2> HIDE DEF q
  <2>3. QED
    BY <1>1, <2>1, <2>2, OrderedReplaced DEF q
<1>5. Unlinks(r, active)
  <2>1. Unlinks(q, active)
    BY DEF LostInv
  <2>2. QED
    BY <1>1, <2>1, UnlinksReplaced
<1>6. UsesExisting(r, Existing)
  <2>1. UsesExisting(q, Existing)
    BY DEF LostInv
  <2>2. QED
    BY <1>1, <2>1, UsesReplaced
<1>7. \A l : Holds(q, active, l) => Holds(r, active, l)
  <2>1. \A c : c.do = "set" => (c \in ToSet(q) <=> c \in ToSet(r))
    BY <1>2, <1>3 DEF NoSet
  <2> HIDE DEF q, r
  <2>2. QED
    BY <2>1 DEF Holds, Turns
<1> HIDE DEF r
<1>8. QED
  BY <1>2, <1>4, <1>5, <1>6, <1>7 DEF LostInv

\* Calls that the thread begins with, none of which sets a state inactive.
LEMMA LostBegun ==
  ASSUME TypeInv, LostInv, stack[Message] = <<>>, NEW new \in Seq(Calls), stack'[Message] = new,
         UNCHANGED <<active, posted, ever>>, Existing \subseteq Existing',
         Ordered(new, active), Unlinks(new, active), UsesExisting(new, Existing'),
         \A c \in ToSet(new) : c.do = "set" => c.v
  PROVE  LostInv'
<1>1. \A l : Holds(<<>>, active, l) => Holds(new, active, l)
  BY ShortElements DEF Holds, Turns
<1>2. \A s : Joint(Existing, s) \subseteq Joint(Existing', s)
  BY JointGrows
<1>3. QED
  BY <1>1, <1>2 DEF LostInv

LEMMA LostInit ==
  Init => LostInv
<1> SUFFICES ASSUME Init PROVE LostInv
  OBVIOUS
<1>1. PICK order \in SetToSeqs(States) :
        stack = [th \in Threads |->
                  IF th = Message THEN [i \in 1..Len(order) |-> Load(order[i])] ELSE <<>>]
  BY DEF Init
<1> DEFINE loads == [i \in 1..Len(order) |-> Load(order[i])]
<1>2. stack[Message] = loads
  BY <1>1, ConstantsAssumption
<1>3. \A c \in ToSet(loads) : \E s : c = Load(s)
  BY DEF ToSet
<1>4. \A c \in ToSet(loads) : c.do = "load"
  BY <1>3 DEF Load
<1>5. loads \in Seq(Calls)
  <2>1. stack \in [Threads -> Seq(Calls)] /\ Message \in Threads
    BY TypeInit, ConstantsAssumption DEF TypeInv, TypeOK
  <2>2. QED
    BY <1>2, <2>1
<1> HIDE DEF loads
<1>6. Ordered(loads, active)
  BY <1>4, <1>5, OrderedNoSet DEF NoSet
<1>7. Unlinks(loads, active)
  BY <1>4, <1>5, HeadElements DEF Unlinks, NoUnlink
<1>8. UsesExisting(loads, Existing)
  BY <1>4 DEF UsesExisting
<1>9. \A l \in ever : Holds(loads, active, l) /\ l \in Joint(Existing, l)
  BY <1>4 DEF Init, Holds, Turns, Joint
<1>10. QED
  BY <1>2, <1>6, <1>7, <1>8, <1>9 DEF LostInv, Init
\* Lists of calls that set no state, or set none and make no states inactive.
LEMMA CalmLists ==
  /\ NoSet(<<>>) /\ NoUnlink(<<>>)
  /\ \A x : /\ x.do # "set" => NoSet(<<x>>)
            /\ x.do # "unlink" => NoUnlink(<<x>>)
  /\ \A x, y : /\ x.do # "set" /\ y.do # "set" => NoSet(<<x, y>>)
               /\ x.do # "unlink" /\ y.do # "unlink" => NoUnlink(<<x, y>>)
  /\ \A x, y, z : /\ x.do # "set" /\ y.do # "set" /\ z.do # "set" => NoSet(<<x, y, z>>)
                  /\ x.do # "unlink" /\ y.do # "unlink" /\ z.do # "unlink"
                       => NoUnlink(<<x, y, z>>)
BY ShortElements DEF NoSet, NoUnlink

Uses(c, E) ==
  /\ c.do = "fire" => c.t \in E
  /\ c.do \in {"loop", "test"} => ToSet(c.rest) \subseteq E

LEMMA UsesLists ==
  ASSUME NEW E
  PROVE  /\ UsesExisting(<<>>, E)
         /\ \A x : Uses(x, E) => UsesExisting(<<x>>, E)
         /\ \A x, y : Uses(x, E) /\ Uses(y, E) => UsesExisting(<<x, y>>, E)
         /\ \A x, y, z : Uses(x, E) /\ Uses(y, E) /\ Uses(z, E) => UsesExisting(<<x, y, z>>, E)
BY ShortElements DEF UsesExisting, Uses

\* The invariant after a call that sets a state or leaves some to set.
LEMMA LostTurned ==
  ASSUME TypeInv, LostInv, stack[Message] # <<>>, NEW new \in Seq(Calls),
         Return(Message, new), UNCHANGED <<trans, posted>>,
         Ordered(new \o Tail(stack[Message]), active'), NoUnlink(new),
         UsesExisting(new, Existing),
         \A s \in ever' : \E l \in Joint(Existing, s) :
           Holds(new \o Tail(stack[Message]), active', l)
  PROVE  LostInv'
<1> DEFINE q == stack[Message]
<1>1. stack \in [Threads -> Seq(Calls)] /\ Message \in Threads /\ q \in Seq(Calls)
  BY ConstantsAssumption DEF TypeInv, TypeOK
<1>2. stack'[Message] = new \o Tail(q) /\ Existing' = Existing
  BY <1>1 DEF Return, Existing
<1>3. Unlinks(q, active) /\ UsesExisting(q, Existing) /\ posted = <<>>
  BY DEF LostInv
<1>4. Unlinks(new \o Tail(q), active')
  <2> HIDE DEF q
  <2>1. q # <<>>
    BY DEF q
  <2>2. QED
    BY <1>1, <1>3, <2>1, UnlinksReplaced
<1>5. UsesExisting(new \o Tail(q), Existing)
  BY <1>1, <1>3, UsesReplaced
<1>6. /\ Ordered(stack'[Message], active') /\ Unlinks(stack'[Message], active')
      /\ UsesExisting(stack'[Message], Existing') /\ posted' = <<>>
      /\ \A s \in ever' : \E l \in Joint(Existing', s) : Holds(stack'[Message], active', l)
  BY <1>2, <1>3, <1>4, <1>5
<1>7. QED
  BY <1>6 DEF LostInv

\* On the thread that is making a call: what its first call is and what follows.
LEMMA LostTop ==
  ASSUME TypeInv, LostInv, stack[Message] # <<>>
  PROVE  /\ Top(Message) \in Calls /\ Tail(stack[Message]) \in Seq(Calls)
         /\ stack[Message] \in Seq(Calls)
         /\ ToSet(stack[Message]) = {Top(Message)} \union ToSet(Tail(stack[Message]))
         /\ NoSet(Tail(stack[Message])) \/ Harmless(Top(Message), active)
         /\ Uses(Top(Message), Existing)
         /\ Top(Message).do = "unlink" => active[Top(Message).s]
         /\ Existing \subseteq Transitions
<1>1. stack[Message] \in Seq(Calls)
  BY ConstantsAssumption DEF TypeInv, TypeOK
<1>2. /\ Top(Message) \in Calls /\ Tail(stack[Message]) \in Seq(Calls)
      /\ ToSet(stack[Message]) = {Top(Message)} \union ToSet(Tail(stack[Message]))
  BY <1>1, HeadElements DEF Top
<1>3. NoSet(Tail(stack[Message])) \/ Harmless(Top(Message), active)
  <2>1. Ordered(stack[Message], active)
    BY DEF LostInv
  <2>2. QED
    BY <1>1, <2>1, OrderedHead DEF Top
<1>4. Uses(Top(Message), Existing)
  BY <1>2 DEF LostInv, UsesExisting, Uses
<1>5. Top(Message).do = "unlink" => active[Top(Message).s]
  BY DEF LostInv, Unlinks, Top
<1>6. Existing \subseteq Transitions
  BY OutsType
<1>7. QED
  BY <1>1, <1>2, <1>3, <1>4, <1>5, <1>6

LEMMA LostSet ==
  ASSUME TypeInv, LostInv, SetValue(Message)
  PROVE  LostInv'
<1> DEFINE s == Top(Message).s
           v == Top(Message).v
           new == IF active[s] = v THEN <<>> ELSE <<Changed(s)>>
           tail == Tail(stack[Message])
<1>1. /\ stack[Message] # <<>> /\ Top(Message).do = "set" /\ Return(Message, new)
      /\ active' = [active EXCEPT ![s] = v]
      /\ ever' = IF v THEN ever \union {s} ELSE ever
      /\ UNCHANGED <<trans, posted>>
  BY DEF SetValue, Calling
<1>2. /\ Top(Message) \in Calls /\ stack[Message] \in Seq(Calls) /\ tail \in Seq(Calls)
      /\ ToSet(stack[Message]) = {Top(Message)} \union ToSet(tail)
      /\ NoSet(tail) \/ Harmless(Top(Message), active)
      /\ Existing \subseteq Transitions
  BY <1>1, LostTop
<1>3. s \in States /\ v \in BOOLEAN /\ active \in [States -> BOOLEAN]
  BY <1>1, <1>2, CallFields DEF TypeInv, TypeOK
<1>4. new \in Seq(Calls) /\ NoSet(new) /\ NoUnlink(new) /\ UsesExisting(new, Existing)
  BY <1>3, CallTypes, Lists, Does, CalmLists, UsesLists DEF Uses
<1>5. ~v => \A c \in ToSet(new) : Harmless(c, active')
  BY <1>1, <1>3, Does, ShortElements DEF Harmless
<1> HIDE DEF new
<1>6. ToSet(new \o tail) = ToSet(new) \union ToSet(tail) /\ new \o tail \in Seq(Calls)
  BY <1>1, <1>2, <1>4, ReplacedElements
<1> HIDE DEF tail
<1>7. \A x \in States : active'[x] = IF x = s THEN v ELSE active[x]
  BY <1>1, <1>3
<1>8. ever' \subseteq States /\ ever \subseteq States
  BY <1>1, <1>3 DEF TypeInv, TypeOK
<1>9. \A r \in States : /\ r \in Joint(Existing, r)
                        /\ \A l \in Joint(Existing, r) : l \in States
  BY <1>2, JointFacts
<1>10. \A c \in ToSet(tail) : c \in Calls
  BY <1>2, Elements
<1>11. CASE ~v
  <2>1. ASSUME NEW c \in ToSet(tail), Harmless(c, active) PROVE Harmless(c, active')
    <3>1. CASE c.do = "set"
      BY <2>1, <3>1 DEF Harmless
    <3>2. CASE c.do # "set"
      <4>1. c.do \in {"changed", "update", "link", "evalDisabled", "applyDisabled"} /\ ~active[c.s]
        BY <2>1, <3>2 DEF Harmless
      <4>2. c.s \in States
        BY <1>10, <4>1, CallFields
      <4>3. ~active'[c.s]
        BY <1>7, <1>11, <4>1, <4>2
      <4>4. QED
        BY <4>1, <4>3 DEF Harmless
    <3>3. QED
      BY <3>1, <3>2
  <2>2. Ordered(new \o tail, active')
    <3>1. Ordered(stack[Message], active)
      BY DEF LostInv
    <3>2. Ordered(new, active')
      BY <1>4, OrderedNoSet
    <3>3. QED
      BY <1>1, <1>2, <1>4, <1>5, <1>11, <2>1, <3>1, <3>2, OrderedReplaced DEF tail
  <2>3. ASSUME NEW r \in ever' PROVE \E l \in Joint(Existing, r) : Holds(new \o tail, active', l)
    <3>1. PICK l \in Joint(Existing, r) : Holds(stack[Message], active, l)
      BY <1>1, <1>11, <2>3 DEF LostInv
    <3>2. l \in States
      BY <1>8, <1>9
    <3>3. CASE active[l] /\ \A c \in ToSet(stack[Message]) : ~Turns(c, l, FALSE)
      <4>1. l # s
        BY <1>1, <1>2, <1>11, <3>3 DEF Turns
      <4>2. active'[l]
        BY <1>7, <3>2, <3>3, <4>1
      <4>3. \A c \in ToSet(new \o tail) : ~Turns(c, l, FALSE)
        BY <1>2, <1>4, <1>6, <3>3 DEF NoSet, Turns
      <4>4. QED
        BY <4>2, <4>3 DEF Holds
    <3>4. CASE \E c \in ToSet(stack[Message]) : Turns(c, l, TRUE)
      <4>1. PICK c \in ToSet(stack[Message]) : Turns(c, l, TRUE)
        BY <3>4
      <4>2. c \in ToSet(tail)
        BY <1>2, <1>11, <4>1 DEF Turns
      <4>3. QED
        BY <1>6, <4>1, <4>2 DEF Holds
    <3>5. QED
      BY <3>1, <3>3, <3>4 DEF Holds
  <2>4. QED
    BY <1>1, <1>4, <2>2, <2>3, LostTurned DEF tail
<1>12. CASE v
  <2>1. NoSet(tail)
    BY <1>1, <1>2, <1>12 DEF Harmless
  <2>2. NoSet(new \o tail)
    BY <1>4, <1>6, <2>1 DEF NoSet
  <2>3. Ordered(new \o tail, active')
    BY <1>6, <2>2, OrderedNoSet
  <2>4. ASSUME NEW r \in ever' PROVE \E l \in Joint(Existing, r) : Holds(new \o tail, active', l)
    <3>1. \A l \in States : active'[l] => Holds(new \o tail, active', l)
      BY <2>2 DEF Holds, NoSet, Turns
    <3>2. CASE r = s
      BY <1>3, <1>7, <1>9, <1>12, <3>1, <3>2
    <3>3. CASE r # s
      <4>1. PICK l \in Joint(Existing, r) : Holds(stack[Message], active, l)
        BY <1>1, <2>4, <3>3 DEF LostInv
      <4>2. l \in States
        BY <1>8, <1>9
      <4>3. active[l] \/ l = s
        BY <1>2, <2>1, <4>1 DEF Holds, Turns, NoSet
      <4>4. QED
        BY <1>7, <1>12, <3>1, <4>1, <4>2, <4>3
    <3>4. QED
      BY <3>2, <3>3
  <2>5. QED
    BY <1>1, <1>4, <2>3, <2>4, LostTurned DEF tail
<1>13. QED
  BY <1>3, <1>11, <1>12

\* The linked states that are set inactive leave the one that is not.
LEMMA LostUnlink ==
  ASSUME TypeInv, LostInv, SetStateActive(Message)
  PROVE  LostInv'
<1> DEFINE s == Top(Message).s
           new == Stops(s)
           tail == Tail(stack[Message])
<1>1. /\ stack[Message] # <<>> /\ Top(Message).do = "unlink" /\ Return(Message, new)
      /\ UNCHANGED <<active, ever, trans, posted>>
  BY DEF SetStateActive, Calling, Stops, data, history
<1>2. /\ Top(Message) \in Calls /\ stack[Message] \in Seq(Calls) /\ tail \in Seq(Calls)
      /\ ToSet(stack[Message]) = {Top(Message)} \union ToSet(tail)
      /\ NoSet(tail) \/ Harmless(Top(Message), active)
      /\ active[s] /\ Existing \subseteq Transitions
  BY <1>1, LostTop
<1>3. s \in States /\ NoSet(tail)
  BY <1>1, <1>2, CallFields DEF Harmless
<1>4. new \in Seq(Calls) /\ ToSet(new) = {Set(l, FALSE) : l \in Linked(s)}
  BY StopsElements
<1> HIDE DEF s, new
<1>5. \A c \in ToSet(new) : \E l \in Linked(s) : c = Set(l, FALSE)
  BY <1>4
<1>6. \A c \in ToSet(new) : c.do = "set" /\ c.v = FALSE /\ c.s \in Linked(s)
  <2>1. \A l : Set(l, FALSE).do = "set" /\ Set(l, FALSE).v = FALSE /\ Set(l, FALSE).s = l
    BY DEF Set
  <2>2. QED
    BY <1>5, <2>1
<1>7. NoUnlink(new) /\ UsesExisting(new, Existing) /\ \A c \in ToSet(new) : Harmless(c, active)
  BY <1>6 DEF NoUnlink, UsesExisting, Harmless
<1>8. ToSet(new \o tail) = ToSet(new) \union ToSet(tail)
  BY <1>1, <1>2, <1>4, ReplacedElements
<1> HIDE DEF tail
<1>9. Ordered(new \o tail, active)
  <2>1. Ordered(new, active) /\ Ordered(stack[Message], active)
    BY <1>4, <1>7, OrderedHarmless DEF LostInv
  <2>2. QED
    BY <1>1, <1>2, <1>3, <1>4, <1>7, <2>1, OrderedReplaced DEF tail
<1>10. \A l : active[l] /\ l \notin Linked(s) => Holds(new \o tail, active, l)
  BY <1>3, <1>6, <1>8 DEF Holds, NoSet, Turns
<1>11. ASSUME NEW r \in ever PROVE \E l \in Joint(Existing, r) : Holds(new \o tail, active, l)
  <2>1. PICK l \in Joint(Existing, r) : Holds(stack[Message], active, l)
    BY <1>11 DEF LostInv
  <2>2. active[l]
    BY <1>1, <1>2, <1>3, <2>1 DEF Holds, Turns, NoSet
  <2>3. CASE l \notin Linked(s)
    BY <1>10, <2>1, <2>2, <2>3
  <2>4. CASE l \in Linked(s)
    <3>1. r \in States
      BY <1>11 DEF TypeInv, TypeOK
    <3>2. l \in Joint(Existing, s) /\ s \notin Linked(s)
      BY <2>4, LinkedJoint
    <3>3. s \in Joint(Existing, l)
      BY <1>2, <1>3, <3>2, JointFacts
    <3>4. Joint(Existing, l) \subseteq Joint(Existing, r)
      BY <1>2, <2>1, <3>1, JointFacts
    <3>5. active[s]
      BY <1>2 DEF s
    <3>6. QED
      BY <1>10, <3>2, <3>3, <3>4, <3>5
  <2>5. QED
    BY <2>3, <2>4
<1>12. QED
  BY <1>1, <1>4, <1>7, <1>9, <1>11, LostTurned DEF tail

\* A transition that switches leaves its destination to be set active.
LEMMA LostFire ==
  ASSUME TypeInv, LostInv, FireTransition(Message), active[Src[Top(Message).t]]
  PROVE  LostInv'
<1> DEFINE t == Top(Message).t
           new == Switch(t)
           tail == Tail(stack[Message])
<1>1. /\ stack[Message] # <<>> /\ Top(Message).do = "fire" /\ Return(Message, new)
      /\ UNCHANGED <<active, ever, trans, posted>>
  BY DEF FireTransition, Calling, data, history
<1>2. /\ Top(Message) \in Calls /\ stack[Message] \in Seq(Calls) /\ tail \in Seq(Calls)
      /\ ToSet(stack[Message]) = {Top(Message)} \union ToSet(tail)
      /\ NoSet(tail) \/ Harmless(Top(Message), active)
      /\ t \in Existing /\ Existing \subseteq Transitions
  BY <1>1, LostTop DEF Uses
<1>3. t \in Transitions /\ Src[t] \in States /\ Dst[t] \in States /\ NoSet(tail)
  BY <1>1, <1>2, ConstantsAssumption DEF Harmless
<1> HIDE DEF t
<1>4. /\ Set(Src[t], FALSE) \in Calls /\ Set(Dst[t], TRUE) \in Calls
      /\ Set(Src[t], FALSE).do = "set" /\ Set(Src[t], FALSE).s = Src[t]
      /\ Set(Src[t], FALSE).v = FALSE
      /\ Set(Dst[t], TRUE).do = "set" /\ Set(Dst[t], TRUE).s = Dst[t]
      /\ Set(Dst[t], TRUE).v = TRUE
  <2>1. Set(Src[t], FALSE) \in Calls /\ Set(Dst[t], TRUE) \in Calls
    BY <1>3, CallTypes
  <2>2. QED
    BY <2>1 DEF Set
<1>5. /\ new \in Seq(Calls) /\ ToSet(new) = {Set(Src[t], FALSE), Set(Dst[t], TRUE)}
      /\ NoUnlink(new) /\ UsesExisting(new, Existing)
  BY <1>4, Lists, ShortElements, CalmLists, UsesLists DEF Switch, Uses
<1>6. Ordered(new, active)
  <2>1. Len(new) = 2 /\ new[1] = Set(Src[t], FALSE)
    BY DEF Switch
  <2>2. Harmless(new[1], active)
    BY <1>4, <2>1 DEF Harmless
  <2> HIDE DEF new
  <2>3. \A i \in 1..Len(new) : \A j \in 1..(i - 1) : j = 1
    BY <2>1
  <2>4. QED
    BY <2>2, <2>3 DEF Ordered
<1> HIDE DEF new
<1>7. ToSet(new \o tail) = ToSet(new) \union ToSet(tail)
  BY <1>1, <1>2, <1>5, ReplacedElements
<1> HIDE DEF tail
<1>8. Ordered(new \o tail, active)
  <2>1. Ordered(stack[Message], active)
    BY DEF LostInv
  <2>2. QED
    BY <1>1, <1>2, <1>3, <1>5, <1>6, <2>1, OrderedReplaced DEF tail
<1>9. \A l : active[l] /\ l # Src[t] => Holds(new \o tail, active, l)
  BY <1>3, <1>4, <1>5, <1>7 DEF Holds, NoSet, Turns
<1>10. Holds(new \o tail, active, Dst[t])
  BY <1>4, <1>5, <1>7 DEF Holds, Turns
<1>11. ASSUME NEW r \in ever PROVE \E l \in Joint(Existing, r) : Holds(new \o tail, active, l)
  <2>1. PICK l \in Joint(Existing, r) : Holds(stack[Message], active, l)
    BY <1>11 DEF LostInv
  <2>2. active[l]
    BY <1>1, <1>2, <1>3, <2>1 DEF Holds, Turns, NoSet
  <2>3. CASE l # Src[t]
    BY <1>9, <2>1, <2>2, <2>3
  <2>4. CASE l = Src[t]
    <3>1. r \in States
      BY <1>11 DEF TypeInv, TypeOK
    <3>2. Closed(Joint(Existing, r), Existing)
      BY <1>2, <3>1, JointFacts
    <3>3. Dst[t] \in Joint(Existing, r)
      BY <1>2, <2>1, <2>4, <3>2 DEF Closed, t
    <3>4. QED
      BY <1>10, <3>3
  <2>5. QED
    BY <2>3, <2>4
<1>12. QED
  BY <1>1, <1>5, <1>8, <1>11, LostTurned DEF tail
LEMMA LostStep ==
  ASSUME TypeInv, LostInv, Step(Message)
  PROVE  LostInv'
<1> DEFINE c == Top(Message)
           s == Top(Message).s
<1>0. stack[Message] # <<>>
  BY DEF Step, HandleLoadActivation, HandleEnabled, SetValue, HandleActiveChanged,
         ComputeDisabled, SetForceDisabled, StateActivationChanged, SetStateActive,
         VisitTransition, TestTransition, LeaveTransition, FireTransition, ReleaseTrigger,
         Calling
<1>1. /\ c \in Calls /\ Existing \subseteq Transitions /\ Uses(c, Existing)
      /\ active \in [States -> BOOLEAN]
  BY <1>0, LostTop DEF TypeInv, TypeOK
<1>2. ASSUME NEW new \in Seq(Calls), Return(Message, new),
             UNCHANGED <<active, trans, posted, ever>>,
             c.do \notin {"set", "unlink"}, NoSet(new),
             Harmless(c, active) => \A d \in ToSet(new) : Harmless(d, active),
             NoUnlink(new) \/ \E d \in Calls : new = <<d>> /\ active[d.s],
             UsesExisting(new, Existing)
      PROVE  LostInv'
  BY <1>0, <1>2, LostKept
<1>3. /\ <<>> \in Seq(Calls) /\ NoSet(<<>>) /\ NoUnlink(<<>>) /\ UsesExisting(<<>>, Existing)
      /\ \A d \in ToSet(<<>>) : Harmless(d, active)
  BY ShortElements, Lists, CalmLists, UsesLists
<1>4. ASSUME NEW r \in States
      PROVE  /\ Update(r) \in Seq(Calls) /\ NoSet(Update(r)) /\ NoUnlink(Update(r))
             /\ UsesExisting(Update(r), Existing)
             /\ ~active[r] => \A d \in ToSet(Update(r)) : Harmless(d, active)
  <2>1. Link(r) \in Calls /\ EvalDisabled(r) \in Calls
    BY CallTypes
  <2>2. Uses(Link(r), Existing) /\ Uses(EvalDisabled(r), Existing)
    BY Does DEF Uses
  <2>3. ~active[r] => Harmless(Link(r), active) /\ Harmless(EvalDisabled(r), active)
    BY Does DEF Harmless
  <2>4. ToSet(Update(r)) = {Link(r), EvalDisabled(r)}
    BY ShortElements DEF Update
  <2>5. Update(r) \in Seq(Calls) /\ UsesExisting(Update(r), Existing)
    BY <2>1, <2>2, Lists, UsesLists DEF Update
  <2>6. NoSet(Update(r)) /\ NoUnlink(Update(r))
    BY <2>4, Does DEF NoSet, NoUnlink
  <2>7. QED
    BY <2>3, <2>4, <2>5, <2>6
<1>5. CASE HandleLoadActivation(Message)
  <2> DEFINE new == IF Running(s) THEN <<Changed(s)>> ELSE <<>>
  <2>1. /\ c.do = "load" /\ Return(Message, new) /\ UNCHANGED <<active, trans, posted, ever>>
    BY <1>5 DEF HandleLoadActivation, Calling, data, history
  <2>2. ~Harmless(c, active) /\ s \in States
    BY <1>1, <2>1, CallFields DEF Harmless
  <2>3. new \in Seq(Calls) /\ NoSet(new) /\ NoUnlink(new) /\ UsesExisting(new, Existing)
    BY <1>3, <2>2, CallTypes, Lists, Does, CalmLists, UsesLists DEF Uses
  <2> HIDE DEF new
  <2>4. QED
    BY <1>2, <2>1, <2>2, <2>3
<1>6. CASE HandleEnabled(Message)
  <2>1. /\ c.do = "update" /\ Return(Message, Update(s))
        /\ UNCHANGED <<active, trans, posted, ever>>
    BY <1>6 DEF HandleEnabled, Calling, data, history
  <2>2. s \in States /\ (Harmless(c, active) => ~active[s])
    BY <1>1, <2>1, CallFields DEF Harmless
  <2>3. QED
    BY <1>2, <1>4, <2>1, <2>2
<1>7. CASE SetValue(Message)
  BY <1>7, LostSet
<1>8. CASE HandleActiveChanged(Message)
  <2>1. c.do = "changed" /\ UNCHANGED <<active, trans, posted, ever>>
    BY <1>8 DEF HandleActiveChanged, Calling, history
  <2>2. s \in States /\ (Harmless(c, active) => ~active[s])
    BY <1>1, <2>1, CallFields DEF Harmless
  <2>3. CASE ~enabled[s]
    <3>1. Return(Message, <<>>)
      BY <1>8, <2>3 DEF HandleActiveChanged
    <3>2. QED
      BY <1>2, <1>3, <2>1, <3>1
  <2>4. CASE enabled[s] /\ active[s]
    <3> DEFINE new == <<EvalDisabled(s), Link(s), Loop(s, Outs(s))>>
    <3>1. Return(Message, new)
      BY <1>8, <2>4 DEF HandleActiveChanged
    <3>2. Outs(s) \in Seq(Transitions) /\ ToSet(Outs(s)) \subseteq Existing
      BY OutsType
    <3>3. /\ EvalDisabled(s) \in Calls /\ Link(s) \in Calls /\ Loop(s, Outs(s)) \in Calls
          /\ EvalDisabled(s).do = "evalDisabled" /\ Link(s).do = "link"
          /\ Loop(s, Outs(s)).do = "loop" /\ Loop(s, Outs(s)).rest = Outs(s)
      BY <2>2, <3>2, CallTypes, Does
    <3>4. new \in Seq(Calls) /\ NoSet(new) /\ NoUnlink(new)
      BY <3>3, Lists, CalmLists
    <3>5. UsesExisting(new, Existing)
      BY <3>2, <3>3, UsesLists DEF Uses
    <3> HIDE DEF new
    <3>6. QED
      BY <1>2, <2>1, <2>2, <2>4, <3>1, <3>4, <3>5
  <2>5. CASE enabled[s] /\ ~active[s]
    <3>1. Return(Message, Update(s))
      BY <1>8, <2>5 DEF HandleActiveChanged
    <3>2. QED
      BY <1>2, <1>4, <2>1, <2>2, <2>5, <3>1
  <2>6. QED
    BY <2>3, <2>4, <2>5
<1>9. CASE ComputeDisabled(Message)
  <2> DEFINE new == <<ApplyDisabled(s, ~Running(s))>>
  <2>1. /\ c.do = "evalDisabled" /\ Return(Message, new)
        /\ UNCHANGED <<active, trans, posted, ever>>
    BY <1>9 DEF ComputeDisabled, Calling, data, history
  <2>2. s \in States /\ (Harmless(c, active) => ~active[s])
    BY <1>1, <2>1, CallFields DEF Harmless
  <2>3. PICK v \in BOOLEAN : new = <<ApplyDisabled(s, v)>>
    <3>1. (~Running(s)) \in BOOLEAN
      BY <2>2, RunType
    <3>2. QED
      BY <3>1
  <2>4. ApplyDisabled(s, v) \in Calls
    BY <2>2, CallTypes
  <2>5. ApplyDisabled(s, v).do = "applyDisabled" /\ ApplyDisabled(s, v).s = s
    BY DEF ApplyDisabled
  <2>6. new \in Seq(Calls) /\ NoSet(new) /\ NoUnlink(new) /\ UsesExisting(new, Existing)
    BY <2>3, <2>4, <2>5, Lists, CalmLists, UsesLists DEF Uses
  <2>7. ~active[s] => \A d \in ToSet(new) : Harmless(d, active)
    BY <2>3, <2>5, ShortElements DEF Harmless
  <2> HIDE DEF new
  <2>8. QED
    BY <1>2, <2>1, <2>2, <2>6, <2>7
<1>10. CASE SetForceDisabled(Message)
  <2>1. c.do = "applyDisabled" /\ Return(Message, <<>>) /\ UNCHANGED <<active, trans, posted, ever>>
    BY <1>10 DEF SetForceDisabled, Calling, history
  <2>2. QED
    BY <1>2, <1>3, <2>1
<1>11. CASE StateActivationChanged(Message)
  <2>1. c.do = "link" /\ UNCHANGED <<active, trans, posted, ever>>
    BY <1>11 DEF StateActivationChanged, Calling, data, history
  <2>2. s \in States /\ (Harmless(c, active) => ~active[s])
    BY <1>1, <2>1, CallFields DEF Harmless
  <2>3. CASE active[s]
    <3>1. Return(Message, <<Unlink(s)>>)
      BY <1>11, <2>3 DEF StateActivationChanged
    <3>2. /\ Unlink(s) \in Calls /\ Unlink(s).do = "unlink" /\ Unlink(s).s = s
          /\ <<Unlink(s)>> \in Seq(Calls)
      BY <2>2, CallTypes, Does, Lists
    <3>3. NoSet(<<Unlink(s)>>) /\ UsesExisting(<<Unlink(s)>>, Existing)
      BY <3>2, CalmLists, UsesLists DEF Uses
    <3>4. \E d \in Calls : <<Unlink(s)>> = <<d>> /\ active[d.s]
      BY <2>3, <3>2
    <3>5. QED
      BY <1>2, <2>1, <2>2, <2>3, <3>1, <3>2, <3>3, <3>4
  <2>4. CASE ~active[s]
    <3>1. Return(Message, <<>>)
      BY <1>11, <2>4 DEF StateActivationChanged
    <3>2. QED
      BY <1>2, <1>3, <2>1, <3>1
  <2>5. QED
    BY <2>3, <2>4
<1>12. CASE SetStateActive(Message)
  BY <1>12, LostUnlink
<1>13. CASE VisitTransition(Message)
  <2> DEFINE rest == c.rest
             t == Head(rest)
             new == IF rest = <<>> THEN <<>>
                    ELSE IF t \in OnActivate /\ CanTrigger(t)
                    THEN <<Fire(t), Release(t), Test(s, rest)>> ELSE <<Test(s, rest)>>
  <2>1. /\ c.do = "loop" /\ Return(Message, new) /\ UNCHANGED <<active, trans, posted, ever>>
    BY <1>13 DEF VisitTransition, Calling, history
  <2>2. /\ s \in States /\ rest \in Seq(Transitions) /\ ToSet(rest) \subseteq Existing
        /\ ~Harmless(c, active)
    BY <1>1, <2>1, CallFields DEF Harmless, Uses
  <2>3. rest # <<>> => /\ t \in Existing /\ t \in Transitions
                       /\ Fire(t) \in Calls /\ Release(t) \in Calls /\ Test(s, rest) \in Calls
    BY <2>2, HeadElements, CallTypes
  <2>4. new \in Seq(Calls) /\ NoSet(new) /\ NoUnlink(new)
    BY <1>3, <2>3, Lists, Does, CalmLists
  <2>5. UsesExisting(new, Existing)
    <3>1. Test(s, rest).do = "test" /\ Test(s, rest).rest = rest
      BY Does
    <3>2. Uses(Test(s, rest), Existing)
      BY <2>2, <3>1 DEF Uses
    <3>3. rest # <<>> => Uses(Fire(t), Existing) /\ Uses(Release(t), Existing)
      BY <2>3, Does DEF Uses
    <3> HIDE DEF rest, t, c, s
    <3>4. QED
      BY <1>3, <3>2, <3>3, UsesLists
  <2> HIDE DEF new
  <2>6. QED
    BY <1>2, <2>1, <2>2, <2>4, <2>5
<1>14. CASE TestTransition(Message)
  <2> DEFINE rest == c.rest
             t == Head(rest)
             new == IF s \in Check /\ valid[t]
                    THEN IF TooDeep(depth) THEN <<>> ELSE <<Fire(t), Leave>>
                    ELSE <<Loop(s, Tail(rest))>>
  <2>1. /\ c.do = "test" /\ Return(Message, new) /\ UNCHANGED <<active, trans, posted, ever>>
    BY <1>14 DEF TestTransition, Calling, Advance, history
  <2>2. /\ s \in States /\ rest \in Seq(Transitions) /\ rest # <<>> /\ ToSet(rest) \subseteq Existing
        /\ ~Harmless(c, active)
    BY <1>1, <2>1, CallFields DEF Harmless, Uses
  <2>3. /\ t \in Existing /\ t \in Transitions
        /\ Tail(rest) \in Seq(Transitions) /\ ToSet(Tail(rest)) \subseteq Existing
    BY <2>2, HeadElements
  <2>4. Fire(t) \in Calls /\ Leave \in Calls /\ Loop(s, Tail(rest)) \in Calls
    BY <2>2, <2>3, CallTypes
  <2>5. new \in Seq(Calls) /\ NoSet(new) /\ NoUnlink(new)
    BY <1>3, <2>4, Lists, Does, CalmLists
  <2>6. UsesExisting(new, Existing)
    <3>1. Loop(s, Tail(rest)).do = "loop" /\ Loop(s, Tail(rest)).rest = Tail(rest)
      BY Does
    <3>2. Uses(Loop(s, Tail(rest)), Existing)
      BY <2>3, <3>1 DEF Uses
    <3>3. Uses(Fire(t), Existing) /\ Uses(Leave, Existing)
      BY <2>3, Does DEF Uses
    <3> HIDE DEF rest, t, c, s
    <3>4. QED
      BY <1>3, <3>2, <3>3, UsesLists
  <2> HIDE DEF new
  <2>7. QED
    BY <1>2, <2>1, <2>2, <2>5, <2>6
<1>15. CASE LeaveTransition(Message)
  <2>1. c.do = "leave" /\ Return(Message, <<>>) /\ UNCHANGED <<active, trans, posted, ever>>
    BY <1>15 DEF LeaveTransition, Calling, history
  <2>2. QED
    BY <1>2, <1>3, <2>1
<1>16. CASE FireTransition(Message)
  <2>1. CASE active[Src[c.t]]
    BY <1>16, <2>1, LostFire
  <2>2. CASE ~active[Src[c.t]]
    <3>1. c.do = "fire" /\ Return(Message, <<>>) /\ UNCHANGED <<active, trans, posted, ever>>
      BY <1>16, <2>2 DEF FireTransition, Calling, data, history
    <3>2. QED
      BY <1>2, <1>3, <3>1
  <2>3. QED
    BY <2>1, <2>2
<1>17. CASE ReleaseTrigger(Message)
  <2>1. c.do = "release" /\ Return(Message, <<>>) /\ UNCHANGED <<active, trans, posted, ever>>
    BY <1>17 DEF ReleaseTrigger, Calling, history
  <2>2. QED
    BY <1>2, <1>3, <2>1
<1>18. QED
  BY <1>5, <1>6, <1>7, <1>8, <1>9, <1>10, <1>11, <1>12, <1>13, <1>14, <1>15, <1>16, <1>17
     DEF Step

\* The hypotheses of ActivityKept: one thread, and edits that deactivate no state
\* and remove no transition.
Undisturbed == Threads = {Message} /\ Edits \subseteq {"enable", "link", "toggle"}

LEMMA LostEnvironment ==
  ASSUME TypeInv, LostInv, Undisturbed, Environment
  PROVE  LostInv'
<1>0. /\ stack \in [Threads -> Seq(Calls)] /\ Threads = {Message} /\ posted = <<>>
      /\ Edits \subseteq {"enable", "link", "toggle"}
  BY DEF TypeInv, TypeOK, Undisturbed, LostInv
<1>1. ASSUME NEW new \in Seq(Calls), Begin(Message, new), UNCHANGED <<active, posted, ever>>,
             Existing \subseteq Existing', NoSet(new) \/ \E r \in States : new = <<Set(r, TRUE)>>,
             UsesExisting(new, Existing'),
             NoUnlink(new) \/ \E r \in States : new = <<Unlink(r)>> /\ active[r]
      PROVE  LostInv'
  <2>1. stack[Message] = <<>> /\ stack'[Message] = new
    BY <1>0, <1>1 DEF Begin
  <2>2. Ordered(new, active)
    <3>1. CASE NoSet(new)
      BY <3>1, OrderedNoSet
    <3>2. ASSUME NEW r \in States, new = <<Set(r, TRUE)>> PROVE Ordered(new, active)
      <4>1. Len(new) = 1
        BY <3>2
      <4> QED
        BY <4>1 DEF Ordered
    <3>3. QED
      BY <1>1, <3>1, <3>2
  <2>3. Unlinks(new, active)
    <3>1. CASE NoUnlink(new)
      BY <3>1, HeadElements DEF Unlinks, NoUnlink
    <3>2. ASSUME NEW r \in States, new = <<Unlink(r)>>, active[r] PROVE Unlinks(new, active)
      <4>1. Head(<<Unlink(r)>>) = Unlink(r) /\ Tail(<<Unlink(r)>>) = <<>> /\ Unlink(r).s = r
        BY Does
      <4>2. QED
        BY <3>2, <4>1, CalmLists DEF Unlinks
    <3>3. QED
      BY <1>1, <3>1, <3>2
  <2>4. \A c \in ToSet(new) : c.do = "set" => c.v
    <3>1. ASSUME NEW r \in States, new = <<Set(r, TRUE)>> PROVE \A c \in ToSet(new) : c.v
      <4>1. ToSet(new) = {Set(r, TRUE)} /\ Set(r, TRUE).v = TRUE
        BY <3>1, ShortElements DEF Set
      <4>2. QED
        BY <4>1
    <3>2. QED
      BY <1>1, <3>1 DEF NoSet
  <2>5. QED
    BY <1>1, <2>1, <2>2, <2>3, <2>4, LostBegun
<1>2. /\ <<>> \in Seq(Calls) /\ NoSet(<<>>) /\ NoUnlink(<<>>) /\ \A E : UsesExisting(<<>>, E)
  BY ShortElements, Lists, CalmLists DEF UsesExisting
<1>3. ASSUME NEW t \in Existing, t \in Transitions
      PROVE  /\ <<Fire(t), Release(t)>> \in Seq(Calls)
             /\ NoSet(<<Fire(t), Release(t)>>) /\ NoUnlink(<<Fire(t), Release(t)>>)
             /\ UsesExisting(<<Fire(t), Release(t)>>, Existing)
  <2>1. <<Fire(t), Release(t)>> \in Seq(Calls)
    BY <1>3, Starts
  <2>2. Fire(t).do = "fire" /\ Fire(t).t = t /\ Release(t).do = "release"
    BY Does
  <2>3. Uses(Fire(t), Existing) /\ Uses(Release(t), Existing)
    BY <1>3, <2>2 DEF Uses
  <2>4. QED
    BY <2>1, <2>2, <2>3, CalmLists, UsesLists
<1>4. ASSUME NEW t \in Transitions, PulseConditions(Message, t) PROVE LostInv'
  <2> DEFINE new == IF ~valid[t] /\ CanTrigger(t) THEN <<Fire(t), Release(t)>> ELSE <<>>
  <2>1. Begin(Message, new) /\ UNCHANGED <<active, trans, posted, ever>> /\ t \in Existing
    BY <1>4 DEF PulseConditions, history
  <2>2. new \in Seq(Calls) /\ NoSet(new) /\ NoUnlink(new) /\ UsesExisting(new, Existing)
    BY <1>2, <1>3, <2>1
  <2> HIDE DEF new
  <2>3. Existing' = Existing
    BY <2>1 DEF Existing
  <2>4. QED
    BY <1>1, <2>1, <2>2, <2>3
<1>5. ASSUME NEW s \in States, Activate(Message, s) PROVE LostInv'
  <2>1. Begin(Message, <<Set(s, TRUE)>>) /\ UNCHANGED <<active, trans, posted, ever>>
    BY <1>5 DEF Activate, data, history
  <2>2. /\ <<Set(s, TRUE)>> \in Seq(Calls) /\ NoUnlink(<<Set(s, TRUE)>>)
        /\ UsesExisting(<<Set(s, TRUE)>>, Existing)
    <3>1. Set(s, TRUE).do = "set"
      BY DEF Set
    <3>2. QED
      BY <3>1, Starts, CalmLists, UsesLists DEF Uses
  <2>3. Existing' = Existing
    BY <2>1 DEF Existing
  <2>4. QED
    BY <1>1, <2>1, <2>2, <2>3
<1>6. ASSUME NEW s \in States PROVE ~Deactivate(Message, s)
  BY <1>0 DEF Deactivate
<1>7. ASSUME NEW s \in States, EnableState(Message, s) PROVE LostInv'
  <2>1. Begin(Message, <<Enabled(s)>>) /\ UNCHANGED <<active, trans, posted, ever>>
    BY <1>7 DEF EnableState, history
  <2>2. /\ <<Enabled(s)>> \in Seq(Calls) /\ NoSet(<<Enabled(s)>>) /\ NoUnlink(<<Enabled(s)>>)
        /\ UsesExisting(<<Enabled(s)>>, Existing)
    BY Starts, Does, CalmLists, UsesLists DEF Uses
  <2>3. Existing' = Existing
    BY <2>1 DEF Existing
  <2>4. QED
    BY <1>1, <2>1, <2>2, <2>3
<1>8. ASSUME NEW t \in Transitions, ChangeConditions(t) PROVE LostInv'
  <2> DEFINE new == IF valid'[t] /\ CanTrigger(t) THEN <<Fire(t), Release(t)>> ELSE <<>>
  <2>1. Begin(Message, new) /\ UNCHANGED <<active, trans, posted, ever>> /\ t \in Existing
    BY <1>8 DEF ChangeConditions, history
  <2>2. new \in Seq(Calls) /\ NoSet(new) /\ NoUnlink(new) /\ UsesExisting(new, Existing)
    BY <1>2, <1>3, <2>1
  <2> HIDE DEF new
  <2>3. Existing' = Existing
    BY <2>1 DEF Existing
  <2>4. QED
    BY <1>1, <2>1, <2>2, <2>3
<1>9. ASSUME NEW t \in Transitions, EnableTransition(t) PROVE LostInv'
  <2>1. Begin(Message, <<>>) /\ UNCHANGED <<active, trans, posted, ever>>
    BY <1>9 DEF EnableTransition, history
  <2>2. Existing' = Existing
    BY <2>1 DEF Existing
  <2>3. QED
    BY <1>1, <1>2, <2>1, <2>2
<1>10. ASSUME NEW t \in Transitions, AddTransition(t) PROVE LostInv'
  <2>1. /\ Begin(Message, Joined(t)) /\ UNCHANGED <<active, posted, ever>>
        /\ trans' = Append(trans, t)
    BY <1>10 DEF AddTransition
  <2>2. Existing \subseteq Existing'
    <3>1. trans \in Seq(Transitions)
      BY DEF TypeInv, TypeOK
    <3>2. ToSet(Append(trans, t)) = ToSet(trans) \union {t}
      BY <3>1, AppendElements
    <3>3. QED
      BY <2>1, <3>2 DEF Existing
  <2>3. /\ \A r \in States : /\ NoSet(<<Unlink(r)>>)
                             /\ UsesExisting(<<Unlink(r)>>, Existing')
    BY Does, CalmLists, UsesLists DEF Uses
  <2>4. Src[t] \in States /\ Dst[t] \in States /\ Joined(t) \in Seq(Calls)
    BY Starts, ConstantsAssumption
  <2>5. /\ NoSet(Joined(t)) /\ UsesExisting(Joined(t), Existing')
        /\ NoUnlink(Joined(t)) \/ \E r \in States : Joined(t) = <<Unlink(r)>> /\ active[r]
    BY <1>2, <2>3, <2>4 DEF Joined
  <2>6. QED
    BY <1>1, <2>1, <2>2, <2>4, <2>5
<1>11. ASSUME NEW t \in Transitions PROVE ~RemoveTransition(t)
  BY <1>0 DEF RemoveTransition
<1>12. QED
  BY <1>0, <1>4, <1>5, <1>6, <1>7, <1>8, <1>9, <1>10, <1>11 DEF Environment

LEMMA LostNext ==
  Undisturbed /\ TypeInv /\ LostInv /\ [Next]_vars => LostInv'
<1>1. ASSUME LostInv, UNCHANGED vars PROVE LostInv'
  BY <1>1 DEF LostInv, vars, Existing
<1>2. ASSUME LostInv PROVE ~HandlePosted
  BY <1>2 DEF LostInv, HandlePosted
<1>3. QED
  BY <1>1, <1>2, LostStep, LostEnvironment DEF Next, Undisturbed

\* A transition deactivates its source before it activates its destination
\* (StateTransition::triggerConsequences), and activating a state deactivates every
\* state linked to it (StateManager::setStateActive): nested as they are, they never
\* leave linked states, one of which has been active, with none active.  One
\* thread: two that activate linked states at once deactivate each other's.
THEOREM ActivityKept ==
  ASSUME Undisturbed
  PROVE  Spec => []NeverLost
<1>1. ASSUME TypeInv, LostInv PROVE NeverLost
  <2>1. SUFFICES ASSUME AtRest, NEW s \in ever
                 PROVE  \E l \in {s} \union Linked(s) : active[l]
    BY DEF NeverLost
  <2>2. stack[Message] = <<>>
    BY <2>1, ConstantsAssumption DEF AtRest
  <2>3. PICK l \in Joint(Existing, s) : Holds(<<>>, active, l)
    BY <1>1, <2>2 DEF LostInv
  <2>4. active[l]
    BY <2>3, ShortElements DEF Holds
  <2>5. l \in {s} \union Linked(s)
    BY LinkedJoint
  <2>6. QED
    BY <2>4, <2>5
<1>2. Init => LostInv
  BY LostInit
<1>3. TypeInv /\ LostInv /\ [Next]_vars => LostInv'
  BY LostNext
<1>4. Spec => []LostInv
  BY <1>2, <1>3, TypeAlways, PTL DEF Spec
<1>5. QED
  BY <1>1, <1>4, TypeAlways, PTL
=============================================================================
