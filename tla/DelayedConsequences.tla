------------------------ MODULE DelayedConsequences ------------------------
(***************************************************************************)
(* What a ConsequenceManager with a delay or a stagger promises: each      *)
(* trigger starts a launch, which fires the enabled consequences in order, *)
(* each when its time has come and never before, until none is left or the *)
(* launch is cancelled.  A cancelled launch fires nothing more.            *)
(***************************************************************************)
EXTENDS Integers, Sequences, FiniteSets

CONSTANTS
  Ids,        \* launches
  Managers,
  Disabled,   \* the consequences that are disabled
  Calls,      \* the manager a consequence triggers, or Nobody
  Nobody,
  Kill,       \* managers with "Cancel delays on Trigger"
  Delay,      \* [Managers -> Nat]
  Stagger,    \* [Managers -> Nat]
  Oldest      \* bound: ages are counted up to it

VARIABLES
  alive,      \* managers that exist
  items,      \* the consequences of each manager, in order
  live,       \* launches, see New
  out         \* history: <<launch, consequence>> just fired, or <<>>

vars == <<alive, items, live, out>>

\* next: the index of the next consequence; age: time since the trigger.
New(id, m) == [id |-> id, m |-> m, next |-> 1, age |-> 0]
Unused == Ids \ {l.id : l \in live}
Left(l) == {i \in l.next..Len(items[l.m]) : items[l.m][i] \notin Disabled}
\* The consequence at l.next waits for the delay, and for as many staggers as
\* enabled consequences precede it.
Due(l) ==
  Delay[l.m] + Stagger[l.m] * Cardinality({i \in 1..(l.next - 1) : items[l.m][i] \notin Disabled})

Start(m) ==
  /\ m \in alive
  /\ \E id \in Unused : live' = live \union {New(id, m)}
  /\ out' = <<>>
  /\ UNCHANGED <<alive, items>>

Cancel(m) ==
  /\ live' = {l \in live : l.m # m}
  /\ out' = <<>>
  /\ UNCHANGED <<alive, items>>

\* A fired consequence may trigger a manager, which cancels first if it must.
Fire(l) ==
  /\ Left(l) # {} /\ l.age >= Due(l)
  /\ LET i == CHOOSE j \in Left(l) : \A k \in Left(l) : j <= k
         m == Calls[items[l.m][i]]
         gone == {k \in live : m \in Kill \intersect alive /\ k.m = m}
         on == [l EXCEPT !.next = i + 1]
         started == IF m \in alive /\ items[m] # <<>> THEN {{New(id, m)} : id \in Unused} ELSE {{}}
     IN  /\ out' = <<l.id, items[l.m][i]>>
         /\ \E more \in started :
              live' = (live \ ({l} \union gone)) \union more
                        \union IF l \in gone THEN {} ELSE {on}
  /\ UNCHANGED <<alive, items>>

\* Those that are left are all disabled.
PassOver(l) ==
  /\ Left(l) = {}
  /\ live' = (live \ {l}) \union {[l EXCEPT !.next = Len(items[l.m]) + 1]}
  /\ out' = <<>>
  /\ UNCHANGED <<alive, items>>

Finish(l) ==
  /\ Left(l) = {}
  /\ live' = live \ {l}
  /\ out' = <<>>
  /\ UNCHANGED <<alive, items>>

Edit(m) ==
  /\ \E i \in 1..Len(items[m]) :
       items' = [items EXCEPT ![m] = SubSeq(@, 1, i - 1) \o SubSeq(@, i + 1, Len(@))]
  /\ out' = <<>>
  /\ UNCHANGED <<alive, live>>

Destroy(m) ==
  /\ alive' = alive \ {m}
  /\ live' = {l \in live : l.m # m}
  /\ out' = <<>>
  /\ UNCHANGED items

Elapse ==
  /\ live' = {[l EXCEPT !.age = IF @ < Oldest THEN @ + 1 ELSE @] : l \in live}
  /\ out' = <<>>
  /\ UNCHANGED <<alive, items>>

Rest == out' = <<>> /\ UNCHANGED <<alive, items, live>>

Next ==
  \/ \E m \in Managers : Start(m) \/ Cancel(m) \/ Edit(m) \/ Destroy(m)
  \/ \E l \in live : Fire(l) \/ PassOver(l) \/ Finish(l)
  \/ Elapse \/ Rest

Init == alive = Managers /\ live = {} /\ out = <<>> /\ items \in [Managers -> Seq(DOMAIN Calls)]

Spec == Init /\ [][Next]_vars
=============================================================================
