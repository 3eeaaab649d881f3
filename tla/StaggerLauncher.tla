-------------------------- MODULE StaggerLauncher --------------------------
(***************************************************************************)
(* Delayed consequences (Source/Common/Processor/Action/Consequence): a    *)
(* ConsequenceManager with a delay or a stagger leaves its consequences to *)
(* the thread of ConsequenceStaggerLauncher, which sleeps while it has     *)
(* nothing to launch.  Any thread may trigger a manager, the launcher's own*)
(* among them, from inside the consequence it fires.                       *)
(*                                                                         *)
(* The lock of launches is held for a whole pass over them; the steps of   *)
(* the pass are apart since what they read is not all under that lock.     *)
(***************************************************************************)
EXTENDS Integers, Sequences, FiniteSets, SequencesExt, Selection

CONSTANTS
  Threads,      \* threads that trigger managers, the launcher's not among them
  Managers,
  Items,        \* consequences, and groups of consequences
  Contents,     \* [Managers -> Seq(Items)]: items as loaded
  Disabled,     \* the items that are disabled
  Calls,        \* [Items -> Managers or Nobody]: the manager an item triggers
  Nobody,
  Kill,         \* the managers with killDelaysOnTrigger
  Delay,        \* [Managers -> Nat], in ticks of the clock
  Stagger,      \* [Managers -> Nat]
  Wrap,         \* values of the millisecond counter, 2^32 in the code
  Oldest,       \* bound: ages of launches are counted up to it
  MaxLag,       \* bound: ticks from one pass to the next
  MaxLaunches,  \* bound: threads trigger nothing while there are more launches
  Removable,    \* the items that the user may remove
  Meanwhile     \* whether that may come between the launcher's two looks at the items

ASSUME ConstantsAssumption ==
  /\ Contents \in [Managers -> Seq(Items)]
  /\ Nobody \notin Managers /\ Calls \in [Items -> Managers \union {Nobody}]
  /\ Delay \in [Managers -> Nat] /\ Stagger \in [Managers -> Nat]
  /\ Kill \subseteq Managers
  /\ Wrap \in Nat \ {0} /\ Oldest \in Nat /\ MaxLag \in Nat /\ MaxLaunches \in Nat
  \* Delays below 49.7 days: a launch is due before the counter wraps.
  /\ \A m \in Managers : Delay[m] + Stagger[m] * (Len(Contents[m]) - 1) + MaxLag < Wrap
  /\ Removable \subseteq Items /\ Meanwhile \in BOOLEAN

VARIABLES
  now,         \* Time::getMillisecondCounter
  alive,       \* the managers not destroyed
  items,       \* [Managers -> Seq(Items)]
  launches,    \* Seq(Launches)
  toAdd,       \* Seq(Launches)
  toRemove,    \* ids of launches
  calls,       \* [Threads -> the rest of triggerAll, <<what, manager>> or <<>>]
  pc,          \* where the launcher's thread is
  pos,         \* the launch it processes
  idle,        \* it has nothing to launch
  notified,    \* the event its wait ends on
  lag,         \* bound: ticks since the last pass began
  crashed,     \* an item was read out of the list
  out          \* history: <<launch, item>> just fired, or <<>>

vars == <<now, alive, items, launches, toAdd, toRemove, calls, pc, pos, idle,
          notified, lag, crashed, out>>
thread == <<pc, pos, idle>>

\* The pointers to launches: one is free for each trigger, and for each item that
\* a pending launch may still trigger.
Ids == 1..(2 * MaxLaunches)
Launches == [id : Ids, m : Managers, start : 0..(Wrap - 1), next : Nat \ {0}, age : 0..Oldest]
Locked == pc \in {"pass", "fire", "finish"}
Used == {l.id : l \in ToSet(launches) \union ToSet(toAdd)}
New(m) == [id |-> CHOOSE i \in Ids \ Used : TRUE, m |-> m, start |-> now, next |-> 1, age |-> 0]

-----------------------------------------------------------------------------
\* removeLaunchesFor: started launches are marked, the others dropped.
Started(m) == {l.id : l \in {k \in ToSet(launches) : k.m = m}}
\* Fault: launches not started yet are forgotten.
Dropped_None(m) == toAdd
Dropped(m) == Selected(toAdd, {l \in ToSet(toAdd) : l.m # m})

Quiet == out' = <<>>

\* triggerAll: the launches of m are cancelled first, if it says so; then its items are
\* looked at.
TriggerAll(th, m) ==
  /\ calls[th] = <<>> /\ m \in alive
  /\ Cardinality(Used) + Cardinality({t \in Threads : calls[t] # <<>>}) < MaxLaunches
  /\ IF m \in Kill
     THEN ~Locked /\ toAdd' = Dropped(m) /\ toRemove' = toRemove \union Started(m)
     ELSE UNCHANGED <<toAdd, toRemove>>
  /\ calls' = [calls EXCEPT ![th] = <<"check", m>>]
  /\ Quiet /\ UNCHANGED <<now, alive, items, launches, thread, notified, lag, crashed>>

CheckItems(th) ==
  /\ calls[th] # <<>> /\ Head(calls[th]) = "check"
  /\ calls' = [calls EXCEPT ![th] = IF items[@[2]] = <<>> THEN <<>> ELSE <<"add", @[2]>>]
  /\ Quiet
  /\ UNCHANGED <<now, alive, items, launches, toAdd, toRemove, thread, notified, lag, crashed>>

AddLaunch(th) ==
  /\ calls[th] # <<>> /\ Head(calls[th]) = "add" /\ ~Locked
  /\ Ids \ Used # {}  \* bound: a pointer is free
  /\ toAdd' = Append(toAdd, New(calls[th][2]))
  /\ calls' = [calls EXCEPT ![th] = <<"notify", @[2]>>]
  /\ Quiet
  /\ UNCHANGED <<now, alive, items, launches, toRemove, thread, notified, lag, crashed>>

Notify(th) ==
  /\ calls[th] # <<>> /\ Head(calls[th]) = "notify"
  /\ notified' = TRUE
  /\ calls' = [calls EXCEPT ![th] = <<>>]
  /\ Quiet
  /\ UNCHANGED <<now, alive, items, launches, toAdd, toRemove, thread, lag, crashed>>

-----------------------------------------------------------------------------
\* The launcher's thread.

Kept == Selected(launches, {l \in ToSet(launches) : l.id \notin toRemove})

BeginPass ==
  /\ pc = "start"
  /\ launches' = Kept \o toAdd
  /\ toAdd' = <<>> /\ toRemove' = {}
  /\ pc' = "pass" /\ pos' = 1 /\ lag' = 0
  /\ Quiet /\ UNCHANGED <<now, alive, items, calls, idle, notified, crashed>>

Current == launches[pos]
List == items[Current.m]

\* Has the item at l.next been waited for?  Unsigned arithmetic, on the width of
\* the counter.  Fault: the time it is due is compared with the counter.
Rank(l) == Cardinality({i \in 1..(l.next - 1) : items[l.m][i] \notin Disabled})
Elapsed_Absolute(l) == now >= (l.start + Delay[l.m] + Stagger[l.m] * Rank(l)) % Wrap
Elapsed(l) == (now - l.start) % Wrap >= (Delay[l.m] + Stagger[l.m] * Rank(l)) % Wrap

\* processLaunch as far as it goes without the lock of the items.
CheckLaunch ==
  /\ pc = "pass" /\ pos <= Len(launches)
  /\ pc' = IF Current.next <= Len(List) /\ Elapsed(Current) THEN "fire" ELSE "finish"
  /\ Quiet
  /\ UNCHANGED <<now, alive, items, launches, toAdd, toRemove, calls, pos, idle, notified, lag,
                 crashed>>

\* Under the lock of the items: the first enabled item is fired, and what it
\* triggers is cancelled and added by this same thread.
FireEnabled ==
  LET on == {i \in Current.next..Len(List) : List[i] \notin Disabled}
      at == IF on = {} THEN Len(List) ELSE CHOOSE i \in on : \A j \in on : i <= j
      m == IF on = {} THEN Nobody ELSE Calls[List[at]]
      kills == m \in Kill \intersect alive
      left == IF kills THEN Dropped(m) ELSE toAdd
  IN  /\ launches' = [launches EXCEPT ![pos].next = at + 1]
      /\ toRemove' = toRemove \union IF kills THEN Started(m) ELSE {}
      /\ IF m \in alive /\ items[m] # <<>>
         THEN Ids \ Used # {} /\ toAdd' = Append(left, New(m)) /\ notified' = TRUE
         ELSE toAdd' = left /\ UNCHANGED notified
      /\ out' = IF on = {} THEN <<>> ELSE <<Current.id, List[at]>>

\* The item may have gone since it was checked: operator[] gives a null pointer.
FireLaunch ==
  /\ pc = "fire"
  /\ crashed' = (Current.next > Len(List))
  /\ IF crashed' THEN Quiet /\ UNCHANGED <<launches, toAdd, toRemove, notified>> ELSE FireEnabled
  /\ pc' = "finish"
  /\ UNCHANGED <<now, alive, items, calls, pos, idle, lag>>

\* A launch that is finished will be removed; the next is processed.
FinishLaunch ==
  /\ pc = "finish"
  /\ toRemove' = IF Current.next > Len(List) THEN toRemove \union {Current.id} ELSE toRemove
  /\ pc' = "pass" /\ pos' = pos + 1
  /\ Quiet
  /\ UNCHANGED <<now, alive, items, launches, toAdd, calls, idle, notified, lag, crashed>>

\* Fault: toRemove is not cleared.
EndPass_KeepsMarks ==
  /\ pc = "pass" /\ pos > Len(launches)
  /\ launches' = Kept
  /\ idle' = (launches' = <<>> /\ toAdd = <<>>)
  /\ pc' = "wait"
  /\ Quiet /\ UNCHANGED <<now, alive, items, toAdd, toRemove, calls, pos, notified, lag, crashed>>

EndPass ==
  /\ pc = "pass" /\ pos > Len(launches)
  /\ launches' = Kept /\ toRemove' = {}
  /\ idle' = (launches' = <<>> /\ toAdd = <<>>)
  /\ pc' = "wait"
  /\ Quiet /\ UNCHANGED <<now, alive, items, toAdd, calls, pos, notified, lag, crashed>>

\* wait(idle ? -1 : 10) ends on the event, which it resets, or after 10 ms.
\* Fault: the wait has no end but the event.
Timeout_Never == FALSE
Timeout == ~idle

Wake ==
  /\ pc = "wait" /\ (notified \/ Timeout)
  /\ notified' = FALSE
  /\ pc' = "start"
  /\ Quiet
  /\ UNCHANGED <<now, alive, items, launches, toAdd, toRemove, calls, pos, idle, lag, crashed>>

Launcher == BeginPass \/ CheckLaunch \/ FireLaunch \/ FinishLaunch \/ EndPass \/ Wake

-----------------------------------------------------------------------------
\* The clock, and the user.

Older(l) == [l EXCEPT !.age = IF @ < Oldest THEN @ + 1 ELSE @]
Aged(q) == [i \in DOMAIN q |-> Older(q[i])]

\* A pass is never as late as the counter takes to wrap.
Tick ==
  /\ \/ lag < MaxLag /\ lag' = lag + 1
     \/ pc = "wait" /\ idle /\ ~notified /\ UNCHANGED lag
  /\ now' = (now + 1) % Wrap
  /\ launches' = Aged(launches) /\ toAdd' = Aged(toAdd)
  /\ Quiet
  /\ UNCHANGED <<alive, items, toRemove, calls, thread, notified, crashed>>

RemoveItem(m, i) ==
  /\ items[m][i] \in Removable /\ (pc = "fire" => Meanwhile)
  /\ items' = [items EXCEPT ![m] = RemoveAt(@, i)]
  /\ Quiet
  /\ UNCHANGED <<now, alive, launches, toAdd, toRemove, calls, thread, notified, lag, crashed>>

\* ~ConsequenceManager, of a manager that no thread and no item triggers.
DestroyManager(m) ==
  /\ m \in alive /\ ~Locked
  /\ \A th \in Threads : calls[th] # <<>> => calls[th][2] # m
  /\ \A k \in alive \ {m} : \A i \in DOMAIN items[k] : Calls[items[k][i]] # m
  /\ alive' = alive \ {m}
  /\ toAdd' = Dropped(m) /\ toRemove' = toRemove \union Started(m)
  /\ Quiet
  /\ UNCHANGED <<now, items, launches, calls, thread, notified, lag, crashed>>

Init ==
  /\ now = Wrap - 1
  /\ alive = Managers /\ items = Contents
  /\ launches = <<>> /\ toAdd = <<>> /\ toRemove = {}
  /\ calls = [th \in Threads |-> <<>>]
  /\ pc = "start" /\ pos = 1 /\ idle = FALSE /\ notified = FALSE
  /\ lag = 0 /\ crashed = FALSE /\ out = <<>>

Next ==
  /\ ~crashed
  /\ \/ Launcher \/ Tick
     \/ \E th \in Threads :
          \/ CheckItems(th) \/ AddLaunch(th) \/ Notify(th)
          \/ \E m \in Managers : TriggerAll(th, m)
     \/ \E m \in Managers : DestroyManager(m) \/ \E i \in 1..Len(items[m]) : RemoveItem(m, i)

Spec == Init /\ [][Next]_vars

\* The launcher's thread runs, time passes, and a thread in triggerAll goes on.
FairSpec ==
  /\ Spec
  /\ WF_vars(Launcher) /\ WF_vars(Tick)
  /\ \A th \in Threads : WF_vars(CheckItems(th) \/ AddLaunch(th) \/ Notify(th))

-----------------------------------------------------------------------------
\* The launches that are neither finished nor cancelled.
Pending == {l \in ToSet(launches) : l.id \notin toRemove} \union ToSet(toAdd)

Delayed == INSTANCE DelayedConsequences WITH
  live <- {[id |-> l.id, m |-> l.m, next |-> l.next, age |-> l.age] : l \in Pending}

\* The thread, its lists and its 32-bit clock keep the promise of a delayed
\* manager: in order, never early even when the counter wraps, once each, nothing
\* after a cancellation, nothing forgotten.
Promise == Delayed!Spec

\* The lists own their launches: no launch is in two places, and none is marked
\* for removal that has been deleted ("deleted what had been added meanwhile
\* without clearing it", ConsequenceManager.h).
Owned ==
  /\ toRemove \subseteq {l.id : l \in ToSet(launches)}
  /\ IsInjective([i \in 1..Len(launches \o toAdd) |-> (launches \o toAdd)[i].id])

\* "nothing of this manager may be left, including launches not started yet"
\* (ConsequenceManager.cpp): the launcher never processes a launch of a manager
\* that is destroyed.
NoDangling == Locked /\ pos <= Len(launches) => Current.m \in alive

\* Every launch ends, fired to its last item or cancelled: the thread never
\* sleeps over one ("a notify that came before this wait still ends it at once").
Completes == \A i \in Ids : (i \in {l.id : l \in Pending}) ~> (i \notin {l.id : l \in Pending})

\* "check if last item": the item a launch fires is one of the list.
InList == ~crashed
=============================================================================
