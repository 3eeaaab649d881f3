----------------------- MODULE StaggerLauncher_proofs -----------------------
(***************************************************************************)
(* Proofs about the launcher of delayed consequences, for any managers,    *)
(* items, delays and threads: the lists own their launches, none is of a   *)
(* destroyed manager, and the promise of DelayedConsequences is kept.      *)
(***************************************************************************)
EXTENDS StaggerLauncher, SequenceFacts_proofs

-----------------------------------------------------------------------------
\* Lists of launches, and the pointers in them.
IdsOf(q) == {l.id : l \in ToSet(q)}
Distinct(q) == \A i, j \in 1..Len(q) : q[i].id = q[j].id => i = j

LEMMA IdsElements ==
  ASSUME NEW S, NEW q \in Seq(S)
  PROVE  /\ \A i \in 1..Len(q) : q[i].id \in IdsOf(q)
         /\ \A x \in IdsOf(q) : \E i \in 1..Len(q) : q[i].id = x
BY Elements DEF IdsOf

\* Two launches of a list whose pointers are distinct are one if they have one.
LEMMA DistinctElements ==
  ASSUME NEW S, NEW q \in Seq(S), Distinct(q),
         NEW k \in ToSet(q), NEW l \in ToSet(q), k.id = l.id
  PROVE  k = l
<1>1. PICK i \in 1..Len(q) : q[i] = k
  BY Elements
<1>2. PICK j \in 1..Len(q) : q[j] = l
  BY Elements
<1>3. i = j
  BY <1>1, <1>2 DEF Distinct
<1>4. QED
  BY <1>1, <1>2, <1>3

LEMMA DistinctConcat ==
  ASSUME NEW S, NEW s \in Seq(S), NEW t \in Seq(S),
         Distinct(s), Distinct(t), IdsOf(s) \cap IdsOf(t) = {}
  PROVE  Distinct(s \o t)
<1>1. /\ Len(s \o t) = Len(s) + Len(t) /\ Len(s) \in Nat /\ Len(t) \in Nat
      /\ \A i \in 1..(Len(s) + Len(t)) :
           (s \o t)[i] = IF i <= Len(s) THEN s[i] ELSE t[i - Len(s)]
  BY ConcatProperties, LenProperties
<1>2. \A i \in 1..Len(s) : s[i].id \in IdsOf(s)
  BY IdsElements
<1>3. \A i \in 1..Len(t) : t[i].id \in IdsOf(t)
  BY IdsElements
<1>4. SUFFICES ASSUME NEW i \in 1..Len(s \o t), NEW j \in 1..Len(s \o t),
                      (s \o t)[i].id = (s \o t)[j].id
               PROVE  i = j
  BY DEF Distinct
<1>5. CASE i <= Len(s) /\ j <= Len(s)
  <2>1. i \in 1..Len(s) /\ j \in 1..Len(s) /\ (s \o t)[i] = s[i] /\ (s \o t)[j] = s[j]
    BY <1>1, <1>5
  <2>2. QED
    BY <1>4, <2>1 DEF Distinct
<1>6. CASE i <= Len(s) /\ j > Len(s)
  <2>1. i \in 1..Len(s) /\ j - Len(s) \in 1..Len(t)
        /\ (s \o t)[i] = s[i] /\ (s \o t)[j] = t[j - Len(s)]
    BY <1>1, <1>6
  <2>2. QED
    BY <1>2, <1>3, <1>4, <2>1
<1>7. CASE i > Len(s) /\ j <= Len(s)
  <2>1. j \in 1..Len(s) /\ i - Len(s) \in 1..Len(t)
        /\ (s \o t)[j] = s[j] /\ (s \o t)[i] = t[i - Len(s)]
    BY <1>1, <1>7
  <2>2. QED
    BY <1>2, <1>3, <1>4, <2>1
<1>8. CASE i > Len(s) /\ j > Len(s)
  <2>1. i - Len(s) \in 1..Len(t) /\ j - Len(s) \in 1..Len(t)
        /\ (s \o t)[i] = t[i - Len(s)] /\ (s \o t)[j] = t[j - Len(s)]
    BY <1>1, <1>8
  <2>2. i - Len(s) = j - Len(s)
    BY <1>4, <2>1 DEF Distinct
  <2>3. QED
    BY <1>1, <2>2
<1>9. QED
  BY <1>1, <1>5, <1>6, <1>7, <1>8

LEMMA DistinctSelected ==
  ASSUME NEW S, NEW s \in Seq(S), NEW A, Distinct(s)
  PROVE  /\ Selected(s, A) \in Seq(S) /\ Distinct(Selected(s, A))
         /\ ToSet(Selected(s, A)) = ToSet(s) \cap A
         /\ IdsOf(Selected(s, A)) \subseteq IdsOf(s)
<1> DEFINE r == Selected(s, A)
<1>1. PICK g : Picks(r, g, s, A, Len(s))
  BY SelectedPicks
<1>2. r \in Seq(S) /\ Len(r) \in Nat /\ Len(s) \in Nat
  BY SelectedPicks, LenProperties
<1>3. ToSet(r) = ToSet(s) \cap A
  BY SelectedElements
<1> HIDE DEF r
<1>4. Distinct(r)
  <2>1. SUFFICES ASSUME NEW i \in 1..Len(r), NEW j \in 1..Len(r), r[i].id = r[j].id
                 PROVE  i = j
    BY DEF Distinct
  <2>2. /\ g[i] \in 1..Len(s) /\ g[j] \in 1..Len(s) /\ r[i] = s[g[i]] /\ r[j] = s[g[j]]
        /\ (i < j => g[i] < g[j]) /\ (j < i => g[j] < g[i])
    BY <1>1 DEF Picks
  <2>3. g[i] = g[j]
    BY <2>1, <2>2 DEF Distinct
  <2>4. QED
    BY <1>2, <2>2, <2>3
<1>5. IdsOf(r) \subseteq IdsOf(s)
  BY <1>3 DEF IdsOf
<1>6. QED
  BY <1>2, <1>3, <1>4, <1>5 DEF r

LEMMA DistinctAppend ==
  ASSUME NEW S, NEW q \in Seq(S), NEW x \in S, Distinct(q), x.id \notin IdsOf(q)
  PROVE  /\ Append(q, x) \in Seq(S) /\ Distinct(Append(q, x))
         /\ ToSet(Append(q, x)) = ToSet(q) \union {x}
         /\ IdsOf(Append(q, x)) = IdsOf(q) \union {x.id}
<1>1. Append(q, x) \in Seq(S) /\ ToSet(Append(q, x)) = ToSet(q) \union {x}
  BY AppendElements
<1>2. /\ Len(Append(q, x)) = Len(q) + 1 /\ Len(q) \in Nat
      /\ \A i \in 1..Len(q) : Append(q, x)[i] = q[i]
      /\ Append(q, x)[Len(q) + 1] = x
  BY AppendProperties
<1>3. \A i \in 1..Len(q) : q[i].id # x.id
  BY IdsElements
<1>4. Distinct(Append(q, x))
  BY <1>2, <1>3 DEF Distinct
<1>5. IdsOf(Append(q, x)) = IdsOf(q) \union {x.id}
  BY <1>1 DEF IdsOf
<1>6. QED
  BY <1>1, <1>4, <1>5

-----------------------------------------------------------------------------
TypeInv ==
  /\ now \in 0..(Wrap - 1) /\ alive \in SUBSET Managers
  /\ items \in [Managers -> Seq(Items)]
  /\ \A m \in Managers : Len(items[m]) <= Len(Contents[m])
  /\ launches \in Seq(Launches) /\ toAdd \in Seq(Launches)
  /\ toRemove \in SUBSET Ids
  /\ calls \in [Threads -> {<<>>} \union ({"check", "add", "notify"} \X Managers)]
  /\ pc \in {"start", "pass", "fire", "finish", "wait"} /\ pos \in Nat \ {0}
  /\ pc \in {"fire", "finish"} => pos <= Len(launches)

\* What is marked for removal is a launch, and no pointer is in two places.
OwnInv ==
  /\ Distinct(launches) /\ Distinct(toAdd) /\ IdsOf(launches) \cap IdsOf(toAdd) = {}
  /\ toRemove \subseteq IdsOf(launches)

\* A launch is of a manager that is alive, unless it is marked for removal; while
\* the lock is held, whether it is or not.
AliveInv ==
  /\ \A th \in Threads : calls[th] # <<>> => calls[th][2] \in alive
  /\ \A l \in ToSet(toAdd) : l.m \in alive
  /\ \A l \in ToSet(launches) : l.id \notin toRemove \/ Locked => l.m \in alive

Inv == TypeInv /\ OwnInv /\ AliveInv

LEMMA LaunchFields ==
  ASSUME NEW l \in Launches
  PROVE  /\ l.id \in Ids /\ l.m \in Managers /\ l.start \in 0..(Wrap - 1)
         /\ l.next \in Nat \ {0} /\ l.age \in 0..Oldest
BY DEF Launches

\* A launch whose next item, or age, is another.
LEMMA LaunchUpdates ==
  ASSUME NEW I, NEW M, NEW S, NEW N, NEW A,
         NEW l \in [id : I, m : M, start : S, next : N, age : A], NEW n \in N, NEW a \in A
  PROVE  /\ [l EXCEPT !.next = n] \in [id : I, m : M, start : S, next : N, age : A]
         /\ [l EXCEPT !.next = n] =
              [id |-> l.id, m |-> l.m, start |-> l.start, next |-> n, age |-> l.age]
         /\ [l EXCEPT !.age = a] \in [id : I, m : M, start : S, next : N, age : A]
         /\ [l EXCEPT !.age = a] =
              [id |-> l.id, m |-> l.m, start |-> l.start, next |-> l.next, age |-> a]
OBVIOUS

LEMMA NextUpdated ==
  ASSUME NEW l \in Launches, NEW n \in Nat \ {0}
  PROVE  /\ [l EXCEPT !.next = n] \in Launches
         /\ [l EXCEPT !.next = n] =
              [id |-> l.id, m |-> l.m, start |-> l.start, next |-> n, age |-> l.age]
<1>1. l.age \in 0..Oldest
  BY LaunchFields
<1>2. QED
  BY <1>1, LaunchUpdates DEF Launches

LEMMA RemovedFacts ==
  ASSUME NEW S, NEW q \in Seq(S), NEW i \in 1..Len(q)
  PROVE  RemoveAt(q, i) \in Seq(S) /\ Len(RemoveAt(q, i)) = Len(q) - 1
<1>1. Len(q) \in Nat
  OBVIOUS
<1>2. /\ SubSeq(q, 1, i - 1) \in Seq(S) /\ Len(SubSeq(q, 1, i - 1)) = i - 1
      /\ SubSeq(q, i + 1, Len(q)) \in Seq(S) /\ Len(SubSeq(q, i + 1, Len(q))) = Len(q) - i
  <2>1. \A k \in 1..Len(q) : q[k] \in S
    BY ElementOfSeq
  <2>2. SubSeq(q, 1, i - 1) \in Seq(S) /\ Len(SubSeq(q, 1, i - 1)) = i - 1
    <3>1. \A k \in 1..(i - 1) : q[k] \in S
      BY <1>1, <2>1
    <3>2. QED
      BY <1>1, <3>1, SubSeqProperties
  <2>3. SubSeq(q, i + 1, Len(q)) \in Seq(S) /\ Len(SubSeq(q, i + 1, Len(q))) = Len(q) - i
    <3>1. \A k \in (i + 1)..Len(q) : q[k] \in S
      BY <1>1, <2>1
    <3>2. QED
      BY <1>1, <3>1, SubSeqProperties
  <2>4. QED
    BY <2>2, <2>3
<1> DEFINE a == SubSeq(q, 1, i - 1)
           b == SubSeq(q, i + 1, Len(q))
<1> HIDE DEF a, b
<1>3. a \in Seq(S) /\ b \in Seq(S) /\ Len(a) = i - 1 /\ Len(b) = Len(q) - i
  BY <1>2 DEF a, b
<1>4. a \o b \in Seq(S) /\ Len(a \o b) = Len(a) + Len(b)
  BY <1>3, ConcatProperties
<1>5. RemoveAt(q, i) = a \o b
  BY DEF RemoveAt, a, b
<1>6. (i - 1) + (Len(q) - i) = Len(q) - 1
  BY <1>1
<1>7. Len(a) + Len(b) = Len(q) - 1
  BY <1>3, <1>6
<1>8. QED
  BY <1>4, <1>5, <1>7

LEMMA DroppedFacts ==
  ASSUME Inv, NEW m
  PROVE  /\ Dropped(m) \in Seq(Launches) /\ Distinct(Dropped(m))
         /\ ToSet(Dropped(m)) = {l \in ToSet(toAdd) : l.m # m}
         /\ IdsOf(Dropped(m)) \subseteq IdsOf(toAdd)
<1> DEFINE A == {l \in ToSet(toAdd) : l.m # m}
<1>1. toAdd \in Seq(Launches) /\ Distinct(toAdd) /\ Dropped(m) = Selected(toAdd, A)
  BY DEF Inv, TypeInv, OwnInv, Dropped
<1>2. A \subseteq ToSet(toAdd)
  OBVIOUS
<1> HIDE DEF A
<1>3. QED
  BY <1>1, <1>2, DistinctSelected DEF A

LEMMA KeptFacts ==
  ASSUME Inv
  PROVE  /\ Kept \in Seq(Launches) /\ Distinct(Kept)
         /\ ToSet(Kept) = {l \in ToSet(launches) : l.id \notin toRemove}
         /\ IdsOf(Kept) \subseteq IdsOf(launches)
<1> DEFINE A == {l \in ToSet(launches) : l.id \notin toRemove}
<1>1. launches \in Seq(Launches) /\ Distinct(launches) /\ Kept = Selected(launches, A)
  BY DEF Inv, TypeInv, OwnInv, Kept
<1>2. A \subseteq ToSet(launches)
  OBVIOUS
<1> HIDE DEF A
<1>3. QED
  BY <1>1, <1>2, DistinctSelected DEF A

\* The pointer of a new launch is in neither list.
LEMMA FreshFacts ==
  ASSUME Inv, Ids \ Used # {}, NEW m \in Managers
  PROVE  /\ New(m) \in Launches /\ New(m).m = m /\ New(m).next = 1 /\ New(m).age = 0
         /\ New(m).start = now /\ New(m).id \in Ids \ Used
         /\ Used = IdsOf(launches) \union IdsOf(toAdd)
         /\ New(m) = [id |-> New(m).id, m |-> m, start |-> now, next |-> 1, age |-> 0]
<1>1. (CHOOSE i \in Ids \ Used : TRUE) \in Ids \ Used
  OBVIOUS
<1>2. now \in 0..(Wrap - 1) /\ Oldest \in Nat
  BY ConstantsAssumption DEF Inv, TypeInv
<1>3. Used = IdsOf(launches) \union IdsOf(toAdd)
  BY DEF Used, IdsOf
<1>4. QED
  BY <1>1, <1>2, <1>3 DEF New, Launches

\* The launch at p fires, and waits for the item at n.
Fired(q, p, n) == [q EXCEPT ![p].next = n]

LEMMA FiredFacts ==
  ASSUME NEW q \in Seq(Launches), NEW p \in 1..Len(q), NEW n \in Nat \ {0}, Distinct(q)
  PROVE  /\ Fired(q, p, n) \in Seq(Launches) /\ Len(Fired(q, p, n)) = Len(q)
         /\ Distinct(Fired(q, p, n))
         /\ ToSet(Fired(q, p, n)) = (ToSet(q) \ {q[p]}) \union {[q[p] EXCEPT !.next = n]}
         /\ IdsOf(Fired(q, p, n)) = IdsOf(q)
         /\ \A i \in 1..Len(q) : Fired(q, p, n)[i].id = q[i].id
<1> DEFINE x == [q[p] EXCEPT !.next = n]
           r == Fired(q, p, n)
<1>0. r = [q EXCEPT ![p] = x]
  BY DEF Fired
<1> HIDE DEF r
<1>1. /\ q[p] \in Launches /\ x \in Launches /\ x.id = q[p].id /\ x.m = q[p].m
      /\ x.age = q[p].age /\ x.start = q[p].start /\ x.next = n
  <2>1. q[p] \in Launches
    BY ElementOfSeq
  <2>2. x \in Launches /\ x = [id |-> q[p].id, m |-> q[p].m, start |-> q[p].start,
                               next |-> n, age |-> q[p].age]
    BY <2>1, NextUpdated
  <2> HIDE DEF x
  <2>3. QED
    BY <2>1, <2>2
<1> HIDE DEF x
<1>2. r \in Seq(Launches) /\ Len(r) = Len(q) /\ \A i \in 1..Len(q) : r[i] = IF i = p THEN x ELSE q[i]
  BY <1>0, <1>1, ExceptSeq
<1>3. \A i \in 1..Len(q) : r[i].id = q[i].id
  BY <1>1, <1>2
<1>4. Distinct(r)
  BY <1>2, <1>3 DEF Distinct
<1>5. IdsOf(r) = IdsOf(q)
  <2>1. \A y : y \in IdsOf(r) <=> \E i \in 1..Len(r) : r[i].id = y
    BY <1>2, IdsElements
  <2>2. \A y : y \in IdsOf(q) <=> \E i \in 1..Len(q) : q[i].id = y
    BY IdsElements
  <2>3. QED
    BY <1>2, <1>3, <2>1, <2>2
<1>6. ToSet(r) = (ToSet(q) \ {q[p]}) \union {x}
  <2>1. \A y : y \in ToSet(r) <=> \E i \in 1..Len(r) : r[i] = y
    BY <1>2, Elements
  <2>2. \A y : y \in ToSet(q) <=> \E i \in 1..Len(q) : q[i] = y
    BY Elements
  <2>3. \A i \in 1..Len(q) : q[i] = q[p] => i = p
    BY DEF Distinct
  <2>4. ASSUME NEW y \in ToSet(r) PROVE y \in (ToSet(q) \ {q[p]}) \union {x}
    <3>1. PICK i \in 1..Len(q) : r[i] = y
      BY <1>2, <2>1
    <3>2. QED
      BY <1>2, <2>2, <2>3, <3>1
  <2>5. ASSUME NEW y \in (ToSet(q) \ {q[p]}) \union {x} PROVE y \in ToSet(r)
    <3>1. CASE y = x
      BY <1>2, <2>1, <3>1
    <3>2. CASE y # x
      <4>1. PICK i \in 1..Len(q) : q[i] = y
        BY <2>2, <2>5, <3>2
      <4>2. i # p
        BY <2>5, <3>2, <4>1
      <4>3. QED
        BY <1>2, <2>1, <4>1, <4>2
    <3>3. QED
      BY <3>1, <3>2
  <2>6. QED
    BY <2>4, <2>5
<1>7. QED
  BY <1>2, <1>3, <1>4, <1>5, <1>6 DEF r, x

LEMMA OlderFields ==
  ASSUME NEW l \in Launches
  PROVE  /\ Older(l) \in Launches
         /\ Older(l).id = l.id /\ Older(l).m = l.m /\ Older(l).start = l.start
         /\ Older(l).next = l.next
         /\ Older(l).age = IF l.age < Oldest THEN l.age + 1 ELSE l.age
<1> DEFINE a == IF l.age < Oldest THEN l.age + 1 ELSE l.age
<1>1. a \in 0..Oldest /\ l.next \in Nat \ {0}
  <2>1. l.age \in 0..Oldest /\ Oldest \in Nat
    BY LaunchFields, ConstantsAssumption
  <2>2. QED
    BY <2>1, LaunchFields
<1> HIDE DEF a
<1>2. /\ [l EXCEPT !.age = a] \in Launches
      /\ [l EXCEPT !.age = a] = [id |-> l.id, m |-> l.m, start |-> l.start,
                                 next |-> l.next, age |-> a]
  BY <1>1, LaunchUpdates DEF Launches
<1>3. Older(l) = [l EXCEPT !.age = a]
  BY DEF Older, a
<1>4. QED
  BY <1>2, <1>3 DEF a

LEMMA AgedFacts ==
  ASSUME NEW q \in Seq(Launches), Distinct(q)
  PROVE  /\ Aged(q) \in Seq(Launches) /\ Len(Aged(q)) = Len(q) /\ Distinct(Aged(q))
         /\ ToSet(Aged(q)) = {Older(l) : l \in ToSet(q)}
         /\ IdsOf(Aged(q)) = IdsOf(q)
         /\ \A i \in 1..Len(q) : Aged(q)[i] = Older(q[i])
<1>1. DOMAIN q = 1..Len(q) /\ Len(q) \in Nat /\ \A i \in 1..Len(q) : q[i] \in Launches
  BY LenProperties, ElementOfSeq
<1>2. Aged(q) = [i \in 1..Len(q) |-> Older(q[i])]
  BY <1>1 DEF Aged
<1>3. \A i \in 1..Len(q) : Older(q[i]) \in Launches /\ Older(q[i]).id = q[i].id
  BY <1>1, OlderFields
<1>4. Aged(q) \in Seq(Launches) /\ Len(Aged(q)) = Len(q) /\ DOMAIN Aged(q) = 1..Len(q)
  BY <1>1, <1>2, <1>3
<1>5. \A i \in 1..Len(q) : Aged(q)[i] = Older(q[i])
  BY <1>2
<1> HIDE DEF Aged
<1>6. Distinct(Aged(q))
  BY <1>3, <1>4, <1>5 DEF Distinct
<1>7. ToSet(Aged(q)) = {Older(l) : l \in ToSet(q)}
  BY <1>1, <1>4, <1>5 DEF ToSet
<1>8. IdsOf(Aged(q)) = IdsOf(q)
  <2>1. \A y : y \in IdsOf(Aged(q)) <=> \E i \in 1..Len(Aged(q)) : Aged(q)[i].id = y
    BY <1>4, IdsElements
  <2>2. \A y : y \in IdsOf(q) <=> \E i \in 1..Len(q) : q[i].id = y
    BY IdsElements
  <2>3. \A i \in 1..Len(q) : Aged(q)[i].id = q[i].id
    BY <1>3, <1>5
  <2>4. QED
    BY <1>4, <2>1, <2>2, <2>3
<1>9. QED
  BY <1>4, <1>5, <1>6, <1>7, <1>8

-----------------------------------------------------------------------------
\* Every action keeps the invariant.
LEMMA InvInit ==
  Init => Inv
<1> SUFFICES ASSUME Init PROVE Inv
  OBVIOUS
<1>1. TypeInv
  <2>1. Wrap - 1 \in 0..(Wrap - 1) /\ items \in [Managers -> Seq(Items)]
    BY ConstantsAssumption DEF Init
  <2>2. \A m \in Managers : Len(items[m]) <= Len(Contents[m])
    BY <2>1 DEF Init
  <2>3. QED
    BY <2>1, <2>2 DEF Init, TypeInv
<1>2. ToSet(<<>>) = {} /\ IdsOf(<<>>) = {} /\ Distinct(<<>>)
  BY ShortElements DEF IdsOf, Distinct
<1>3. OwnInv /\ AliveInv
  BY <1>2 DEF Init, OwnInv, AliveInv
<1>4. QED
  BY <1>1, <1>3 DEF Inv

LEMMA StartedFacts ==
  ASSUME Inv, NEW m
  PROVE  /\ Started(m) \subseteq IdsOf(launches) /\ Started(m) \subseteq Ids
         /\ \A l \in ToSet(launches) : l.id \in Started(m) <=> l.m = m
<1>1. launches \in Seq(Launches) /\ Distinct(launches)
  BY DEF Inv, TypeInv, OwnInv
<1>2. \A l \in ToSet(launches) : l.id \in Ids
  BY <1>1, Elements, LaunchFields
<1>3. \A l \in ToSet(launches) : l.id \in Started(m) <=> l.m = m
  BY <1>1, DistinctElements DEF Started
<1>4. QED
  BY <1>2, <1>3 DEF Started, IdsOf

LEMMA InvTrigger ==
  ASSUME Inv, NEW th \in Threads, NEW m \in Managers, TriggerAll(th, m)
  PROVE  Inv'
<1>1. /\ UNCHANGED <<now, alive, items, launches, pc, pos>> /\ m \in alive
      /\ calls' = [calls EXCEPT ![th] = <<"check", m>>]
      /\ toAdd' = toAdd \/ toAdd' = Dropped(m)
      /\ \/ toRemove' = toRemove
         \/ toRemove' = toRemove \union Started(m) /\ ~Locked
  BY DEF TriggerAll, thread
<1>2. /\ toAdd' \in Seq(Launches) /\ Distinct(toAdd')
      /\ ToSet(toAdd') \subseteq ToSet(toAdd) /\ IdsOf(toAdd') \subseteq IdsOf(toAdd)
  BY <1>1, DroppedFacts DEF Inv, TypeInv, OwnInv
<1>3. toRemove \subseteq toRemove' /\ toRemove' \in SUBSET Ids /\ toRemove' \subseteq IdsOf(launches)
  BY <1>1, StartedFacts DEF Inv, TypeInv, OwnInv
<1>4. /\ calls' \in [Threads -> {<<>>} \union ({"check", "add", "notify"} \X Managers)]
      /\ \A u \in Threads : calls'[u] # <<>> => calls'[u][2] \in alive
  BY <1>1 DEF Inv, TypeInv, AliveInv
<1>5. TypeInv'
  BY <1>1, <1>2, <1>3, <1>4 DEF Inv, TypeInv
<1>6. OwnInv'
  BY <1>1, <1>2, <1>3 DEF Inv, OwnInv
<1>7. AliveInv'
  BY <1>1, <1>2, <1>3, <1>4 DEF Inv, AliveInv, Locked
<1>8. QED
  BY <1>5, <1>6, <1>7 DEF Inv

LEMMA InvCheckItems ==
  ASSUME Inv, NEW th \in Threads, CheckItems(th)
  PROVE  Inv'
<1> DEFINE m == calls[th][2]
<1>1. /\ UNCHANGED <<now, alive, items, launches, toAdd, toRemove, pc, pos>>
      /\ calls[th] # <<>>
      /\ calls' = [calls EXCEPT ![th] = IF items[m] = <<>> THEN <<>> ELSE <<"add", m>>]
  BY DEF CheckItems, thread
<1>2. m \in alive /\ m \in Managers
  BY <1>1 DEF Inv, TypeInv, AliveInv
<1> HIDE DEF m
<1>3. /\ calls' \in [Threads -> {<<>>} \union ({"check", "add", "notify"} \X Managers)]
      /\ \A u \in Threads : calls'[u] # <<>> => calls'[u][2] \in alive
  <2>1. calls' = [calls EXCEPT ![th] = <<>>] \/ calls' = [calls EXCEPT ![th] = <<"add", m>>]
    BY <1>1
  <2>2. CASE calls' = [calls EXCEPT ![th] = <<>>]
    BY <2>2 DEF Inv, TypeInv, AliveInv
  <2>3. CASE calls' = [calls EXCEPT ![th] = <<"add", m>>]
    BY <1>2, <2>3 DEF Inv, TypeInv, AliveInv
  <2>4. QED
    BY <2>1, <2>2, <2>3
<1>4. TypeInv' /\ OwnInv'
  BY <1>1, <1>3 DEF Inv, TypeInv, OwnInv
<1>5. AliveInv'
  BY <1>1, <1>3 DEF Inv, AliveInv, Locked
<1>6. QED
  BY <1>4, <1>5 DEF Inv

LEMMA InvAdd ==
  ASSUME Inv, NEW th \in Threads, AddLaunch(th)
  PROVE  Inv'
<1> DEFINE m == calls[th][2]
<1>1. /\ UNCHANGED <<now, alive, items, launches, toRemove, pc, pos>>
      /\ calls[th] # <<>> /\ calls' = [calls EXCEPT ![th] = <<"notify", m>>]
      /\ toAdd' = Append(toAdd, New(m)) /\ Ids \ Used # {}
  BY DEF AddLaunch, thread
<1>2. m \in alive /\ m \in Managers
  BY <1>1 DEF Inv, TypeInv, AliveInv
<1> HIDE DEF m
<1>3. /\ New(m) \in Launches /\ New(m).m = m
      /\ New(m).id \notin IdsOf(toAdd) /\ New(m).id \notin IdsOf(launches)
  BY <1>1, <1>2, FreshFacts
<1>4. /\ toAdd' \in Seq(Launches) /\ Distinct(toAdd')
      /\ ToSet(toAdd') = ToSet(toAdd) \union {New(m)}
      /\ IdsOf(toAdd') = IdsOf(toAdd) \union {New(m).id}
  BY <1>1, <1>3, DistinctAppend DEF Inv, TypeInv, OwnInv
<1>5. /\ calls' \in [Threads -> {<<>>} \union ({"check", "add", "notify"} \X Managers)]
      /\ \A u \in Threads : calls'[u] # <<>> => calls'[u][2] \in alive
  BY <1>1, <1>2 DEF Inv, TypeInv, AliveInv
<1>6. TypeInv'
  BY <1>1, <1>4, <1>5 DEF Inv, TypeInv
<1>7. OwnInv'
  BY <1>1, <1>3, <1>4 DEF Inv, OwnInv
<1>8. AliveInv'
  BY <1>1, <1>2, <1>3, <1>4, <1>5 DEF Inv, AliveInv, Locked
<1>9. QED
  BY <1>6, <1>7, <1>8 DEF Inv

LEMMA InvNotify ==
  ASSUME Inv, NEW th \in Threads, Notify(th)
  PROVE  Inv'
<1>1. /\ UNCHANGED <<now, alive, items, launches, toAdd, toRemove, pc, pos>>
      /\ calls' = [calls EXCEPT ![th] = <<>>]
  BY DEF Notify, thread
<1>2. /\ calls' \in [Threads -> {<<>>} \union ({"check", "add", "notify"} \X Managers)]
      /\ \A u \in Threads : calls'[u] # <<>> => calls'[u][2] \in alive
  BY <1>1 DEF Inv, TypeInv, AliveInv
<1>3. TypeInv' /\ OwnInv'
  BY <1>1, <1>2 DEF Inv, TypeInv, OwnInv
<1>4. AliveInv'
  BY <1>1, <1>2 DEF Inv, AliveInv, Locked
<1>5. QED
  BY <1>3, <1>4 DEF Inv

LEMMA InvBeginPass ==
  ASSUME Inv, BeginPass
  PROVE  Inv' /\ ToSet(launches') = Pending
<1>1. /\ UNCHANGED <<now, alive, items, calls>> /\ pc = "start" /\ pc' = "pass" /\ pos' = 1
      /\ launches' = Kept \o toAdd /\ toAdd' = <<>> /\ toRemove' = {}
  BY DEF BeginPass
<1>2. /\ Kept \in Seq(Launches) /\ Distinct(Kept) /\ toAdd \in Seq(Launches) /\ Distinct(toAdd)
      /\ ToSet(Kept) = {l \in ToSet(launches) : l.id \notin toRemove}
      /\ IdsOf(Kept) \subseteq IdsOf(launches)
  BY KeptFacts DEF Inv, TypeInv, OwnInv
<1>3. launches' \in Seq(Launches) /\ ToSet(launches') = ToSet(Kept) \union ToSet(toAdd)
  BY <1>1, <1>2, ConcatElements
<1>4. Distinct(launches')
  <2>1. IdsOf(Kept) \cap IdsOf(toAdd) = {}
    BY <1>2 DEF Inv, OwnInv
  <2>2. QED
    BY <1>1, <1>2, <2>1, DistinctConcat
<1>5. ToSet(<<>>) = {} /\ IdsOf(<<>>) = {} /\ Distinct(<<>>)
  BY ShortElements DEF IdsOf, Distinct
<1>6. TypeInv'
  BY <1>1, <1>3 DEF Inv, TypeInv
<1>7. OwnInv'
  BY <1>1, <1>4, <1>5 DEF OwnInv
<1>8. \A l \in ToSet(launches') : l.m \in alive
  BY <1>2, <1>3 DEF Inv, AliveInv
<1>9. AliveInv'
  BY <1>1, <1>5, <1>8 DEF Inv, AliveInv
<1>10. QED
  BY <1>2, <1>3, <1>6, <1>7, <1>9 DEF Inv, Pending

\* Of the launch that is processed.
LEMMA CurrentFacts ==
  ASSUME Inv, pos <= Len(launches)
  PROVE  /\ pos \in 1..Len(launches) /\ Current = launches[pos] /\ Current \in Launches
         /\ Current \in ToSet(launches) /\ Current.id \in IdsOf(launches) /\ Current.id \in Ids
         /\ Current.m \in Managers /\ List \in Seq(Items) /\ Current.next \in Nat \ {0}
<1>1. launches \in Seq(Launches) /\ pos \in Nat \ {0} /\ Len(launches) \in Nat
  BY DEF Inv, TypeInv
<1>2. pos \in 1..Len(launches)
  BY <1>1
<1>3. Current \in Launches /\ Current \in ToSet(launches) /\ Current.id \in IdsOf(launches)
  BY <1>1, <1>2, Elements, ElementOfSeq, IdsElements DEF Current
<1>4. QED
  BY <1>2, <1>3, LaunchFields DEF Current, List, Inv, TypeInv

LEMMA InvCheck ==
  ASSUME Inv, CheckLaunch
  PROVE  Inv'
<1>1. /\ UNCHANGED <<now, alive, items, launches, toAdd, toRemove, calls, pos>>
      /\ pos <= Len(launches) /\ pc = "pass" /\ pc' \in {"fire", "finish"}
  BY DEF CheckLaunch
<1>2. TypeInv' /\ OwnInv'
  BY <1>1 DEF Inv, TypeInv, OwnInv
<1>3. AliveInv'
  BY <1>1 DEF Inv, AliveInv, Locked
<1>4. QED
  BY <1>2, <1>3 DEF Inv

LEMMA InvFinish ==
  ASSUME Inv, FinishLaunch
  PROVE  Inv'
<1>1. /\ UNCHANGED <<now, alive, items, launches, toAdd, calls>>
      /\ pc = "finish" /\ pc' = "pass" /\ pos' = pos + 1
      /\ toRemove' = toRemove \/ toRemove' = toRemove \union {Current.id}
  BY DEF FinishLaunch
<1>2. Current.id \in IdsOf(launches) /\ Current.id \in Ids /\ pos \in Nat \ {0}
  BY <1>1, CurrentFacts DEF Inv, TypeInv
<1>3. TypeInv'
  BY <1>1, <1>2 DEF Inv, TypeInv
<1>4. OwnInv'
  BY <1>1, <1>2 DEF Inv, OwnInv
<1>5. AliveInv'
  BY <1>1 DEF Inv, AliveInv, Locked
<1>6. QED
  BY <1>3, <1>4, <1>5 DEF Inv

LEMMA InvEndPass ==
  ASSUME Inv, EndPass
  PROVE  Inv' /\ Pending' = Pending
<1>1. /\ UNCHANGED <<now, alive, items, toAdd, calls, pos>> /\ pc = "pass" /\ pc' = "wait"
      /\ launches' = Kept /\ toRemove' = {}
  BY DEF EndPass
<1>2. /\ Kept \in Seq(Launches) /\ Distinct(Kept)
      /\ ToSet(Kept) = {l \in ToSet(launches) : l.id \notin toRemove}
      /\ IdsOf(Kept) \subseteq IdsOf(launches)
  BY KeptFacts
<1>3. TypeInv'
  BY <1>1, <1>2 DEF Inv, TypeInv
<1>4. OwnInv'
  BY <1>1, <1>2 DEF Inv, OwnInv
<1>5. AliveInv'
  BY <1>1, <1>2 DEF Inv, AliveInv, Locked
<1>6. QED
  BY <1>1, <1>2, <1>3, <1>4, <1>5 DEF Inv, Pending

LEMMA InvWake ==
  ASSUME Inv, Wake
  PROVE  Inv'
<1>1. UNCHANGED <<now, alive, items, launches, toAdd, toRemove, calls, pos>>
      /\ pc = "wait" /\ pc' = "start"
  BY DEF Wake
<1>2. TypeInv' /\ OwnInv'
  BY <1>1 DEF Inv, TypeInv, OwnInv
<1>3. AliveInv'
  BY <1>1 DEF Inv, AliveInv, Locked
<1>4. QED
  BY <1>2, <1>3 DEF Inv

LEMMA InvTick ==
  ASSUME Inv, Tick
  PROVE  Inv'
<1>1. /\ UNCHANGED <<alive, items, toRemove, calls, pc, pos>> /\ now' = (now + 1) % Wrap
      /\ launches' = Aged(launches) /\ toAdd' = Aged(toAdd)
  BY DEF Tick, thread
<1>2. /\ launches \in Seq(Launches) /\ Distinct(launches)
      /\ toAdd \in Seq(Launches) /\ Distinct(toAdd)
  BY DEF Inv, TypeInv, OwnInv
<1>3. now' \in 0..(Wrap - 1)
  BY <1>1, ConstantsAssumption DEF Inv, TypeInv
<1>4. /\ launches' \in Seq(Launches) /\ Len(launches') = Len(launches) /\ Distinct(launches')
      /\ ToSet(launches') = {Older(l) : l \in ToSet(launches)}
      /\ IdsOf(launches') = IdsOf(launches)
  BY <1>1, <1>2, AgedFacts
<1>5. /\ toAdd' \in Seq(Launches) /\ Distinct(toAdd')
      /\ ToSet(toAdd') = {Older(l) : l \in ToSet(toAdd)} /\ IdsOf(toAdd') = IdsOf(toAdd)
  BY <1>1, <1>2, AgedFacts
<1>6. \A l \in ToSet(launches) \union ToSet(toAdd) : Older(l).id = l.id /\ Older(l).m = l.m
  <2>1. \A l \in ToSet(launches) \union ToSet(toAdd) : l \in Launches
    BY <1>2, Elements
  <2>2. QED
    BY <2>1, OlderFields
<1>7. TypeInv'
  BY <1>1, <1>3, <1>4, <1>5 DEF Inv, TypeInv
<1>8. OwnInv'
  BY <1>1, <1>4, <1>5 DEF Inv, OwnInv
<1>9. AliveInv'
  BY <1>1, <1>4, <1>5, <1>6 DEF Inv, AliveInv, Locked
<1>10. QED
  BY <1>7, <1>8, <1>9 DEF Inv

LEMMA InvRemoveItem ==
  ASSUME Inv, NEW m \in Managers, NEW i \in 1..Len(items[m]), RemoveItem(m, i)
  PROVE  Inv'
<1>1. /\ UNCHANGED <<now, alive, launches, toAdd, toRemove, calls, pc, pos>>
      /\ items' = [items EXCEPT ![m] = RemoveAt(@, i)]
  BY DEF RemoveItem, thread
<1>2. items \in [Managers -> Seq(Items)] /\ \A k \in Managers : Len(items[k]) <= Len(Contents[k])
  BY DEF Inv, TypeInv
<1>3. RemoveAt(items[m], i) \in Seq(Items) /\ Len(RemoveAt(items[m], i)) = Len(items[m]) - 1
  BY <1>2, RemovedFacts
<1>4. TypeInv'
  <2>1. \A k \in Managers : Len(items'[k]) <= Len(Contents[k])
    <3>1. Len(items[m]) \in Nat /\ Len(Contents[m]) \in Nat
      BY <1>2, ConstantsAssumption
    <3>2. QED
      BY <1>1, <1>2, <1>3, <3>1
  <2>2. QED
    BY <1>1, <1>2, <1>3, <2>1 DEF Inv, TypeInv
<1>5. OwnInv' /\ AliveInv'
  BY <1>1 DEF Inv, OwnInv, AliveInv, Locked
<1>6. QED
  BY <1>4, <1>5 DEF Inv

LEMMA InvDestroy ==
  ASSUME Inv, NEW m \in Managers, DestroyManager(m)
  PROVE  Inv'
<1>1. /\ UNCHANGED <<now, items, launches, calls, pc, pos>> /\ ~Locked
      /\ alive' = alive \ {m} /\ \A th \in Threads : calls[th] # <<>> => calls[th][2] # m
      /\ toAdd' = Dropped(m) /\ toRemove' = toRemove \union Started(m)
  BY DEF DestroyManager, thread
<1>2. /\ toAdd' \in Seq(Launches) /\ Distinct(toAdd')
      /\ ToSet(toAdd') = {l \in ToSet(toAdd) : l.m # m} /\ IdsOf(toAdd') \subseteq IdsOf(toAdd)
  BY <1>1, DroppedFacts
<1>3. /\ Started(m) \subseteq IdsOf(launches) /\ Started(m) \subseteq Ids
      /\ \A l \in ToSet(launches) : l.id \in Started(m) <=> l.m = m
  BY StartedFacts
<1>4. TypeInv'
  BY <1>1, <1>2, <1>3 DEF Inv, TypeInv
<1>5. OwnInv'
  BY <1>1, <1>2, <1>3 DEF Inv, OwnInv
<1>6. AliveInv'
  BY <1>1, <1>2, <1>3 DEF Inv, AliveInv, Locked
<1>7. QED
  BY <1>4, <1>5, <1>6 DEF Inv

\* What an item that is fired does, in parts: see FireEnabled.
On == {i \in Current.next..Len(List) : List[i] \notin Disabled}
At == IF On = {} THEN Len(List) ELSE CHOOSE i \in On : \A j \in On : i <= j
Callee == IF On = {} THEN Nobody ELSE Calls[List[At]]
Kills == Callee \in Kill \intersect alive
Spared == IF Kills THEN Dropped(Callee) ELSE toAdd
Cancelled == IF Kills THEN Started(Callee) ELSE {}
Starts == Callee \in alive /\ items[Callee] # <<>>

LEMMA FireParts ==
  ASSUME FireEnabled
  PROVE  /\ launches' = [launches EXCEPT ![pos].next = At + 1]
         /\ toRemove' = toRemove \union Cancelled
         /\ Starts => Ids \ Used # {} /\ toAdd' = Append(Spared, New(Callee))
         /\ ~Starts => toAdd' = Spared
         /\ out' = IF On = {} THEN <<>> ELSE <<Current.id, List[At]>>
BY DEF FireEnabled, On, At, Callee, Kills, Spared, Cancelled, Starts

\* The item fired is the first enabled one, or none is left.
LEMMA AtFacts ==
  ASSUME Inv, pos <= Len(launches), Current.next <= Len(List)
  PROVE  /\ At \in Current.next..Len(List) /\ At + 1 \in Nat \ {0}
         /\ On # {} => At \in On /\ \A j \in On : At <= j
         /\ On # {} => List[At] \in Items
<1>1. List \in Seq(Items) /\ Current.next \in Nat \ {0} /\ Len(List) \in Nat
  BY CurrentFacts
<1>2. On # {} => At \in On /\ \A j \in On : At <= j
  <2>1. On \in SUBSET Nat
    BY <1>1 DEF On
  <2>2. On # {} => \E i \in On : \A j \in On : i <= j
    BY <2>1, LeastNumber
  <2>3. QED
    BY <2>2 DEF At
<1>3. At \in Current.next..Len(List)
  BY <1>1, <1>2 DEF At, On
<1>4. QED
  BY <1>1, <1>2, <1>3, ElementOfSeq

LEMMA SparedFacts ==
  ASSUME Inv
  PROVE  /\ Spared \in Seq(Launches) /\ Distinct(Spared)
         /\ ToSet(Spared) = {l \in ToSet(toAdd) : ~(Kills /\ l.m = Callee)}
         /\ IdsOf(Spared) \subseteq IdsOf(toAdd)
         /\ Cancelled \subseteq IdsOf(launches) /\ Cancelled \subseteq Ids
         /\ \A l \in ToSet(launches) : l.id \in Cancelled <=> Kills /\ l.m = Callee
<1>1. CASE Kills
  <2>1. Spared = Dropped(Callee) /\ Cancelled = Started(Callee)
    BY <1>1 DEF Spared, Cancelled
  <2>2. QED
    BY <1>1, <2>1, DroppedFacts, StartedFacts
<1>2. CASE ~Kills
  <2>1. Spared = toAdd /\ Cancelled = {}
    BY <1>2 DEF Spared, Cancelled
  <2>2. QED
    BY <1>2, <2>1 DEF Inv, TypeInv, OwnInv
<1>3. QED
  BY <1>1, <1>2

\* The lists after an item has been fired, in terms of the lists before.
LEMMA FiredLists ==
  ASSUME Inv, pc = "fire", FireLaunch, Current.next <= Len(List)
  PROVE  /\ launches' \in Seq(Launches) /\ Len(launches') = Len(launches) /\ Distinct(launches')
         /\ ToSet(launches') = (ToSet(launches) \ {Current}) \union {[Current EXCEPT !.next = At + 1]}
         /\ IdsOf(launches') = IdsOf(launches)
         /\ \A i \in 1..Len(launches) : launches'[i].id = launches[i].id
         /\ toRemove' = toRemove \union Cancelled
         /\ toAdd' \in Seq(Launches) /\ Distinct(toAdd')
         /\ Starts => /\ Callee \in Managers /\ New(Callee).id \in Ids \ Used
                      /\ New(Callee) = [id |-> New(Callee).id, m |-> Callee, start |-> now,
                                        next |-> 1, age |-> 0]
                      /\ New(Callee) \in Launches
         /\ ToSet(toAdd') = ToSet(Spared) \union IF Starts THEN {New(Callee)} ELSE {}
         /\ IdsOf(toAdd') = IdsOf(Spared) \union IF Starts THEN {New(Callee).id} ELSE {}
<1>1. FireEnabled /\ pos <= Len(launches)
  <2>1. pos <= Len(launches)
    BY DEF Inv, TypeInv
  <2>2. Current.next \in Nat /\ Len(List) \in Nat
    BY <2>1, CurrentFacts
  <2>3. ~(Current.next > Len(List))
    BY <2>2
  <2>4. QED
    BY <2>1, <2>3 DEF FireLaunch
<1>2. launches \in Seq(Launches) /\ Distinct(launches) /\ pos \in 1..Len(launches)
      /\ At + 1 \in Nat \ {0} /\ Current = launches[pos]
  BY <1>1, AtFacts, CurrentFacts DEF Inv, TypeInv, OwnInv
<1>3. /\ launches' \in Seq(Launches) /\ Len(launches') = Len(launches) /\ Distinct(launches')
      /\ ToSet(launches') = (ToSet(launches) \ {Current}) \union {[Current EXCEPT !.next = At + 1]}
      /\ IdsOf(launches') = IdsOf(launches)
      /\ \A i \in 1..Len(launches) : launches'[i].id = launches[i].id
  <2>1. launches' = Fired(launches, pos, At + 1)
    BY <1>1, FireParts DEF Fired
  <2>2. /\ launches' \in Seq(Launches) /\ Len(launches') = Len(launches) /\ Distinct(launches')
        /\ ToSet(launches') = (ToSet(launches) \ {launches[pos]})
                                \union {[launches[pos] EXCEPT !.next = At + 1]}
        /\ IdsOf(launches') = IdsOf(launches)
        /\ \A i \in 1..Len(launches) : launches'[i].id = launches[i].id
    BY <1>2, <2>1, FiredFacts
  <2>3. QED
    BY <1>2, <2>2
<1>4. toRemove' = toRemove \union Cancelled
  BY <1>1, FireParts
<1>5. Spared \in Seq(Launches) /\ Distinct(Spared) /\ IdsOf(Spared) \subseteq IdsOf(toAdd)
  BY SparedFacts
<1>6. CASE Starts
  <2>1. Ids \ Used # {} /\ toAdd' = Append(Spared, New(Callee))
    BY <1>1, <1>6, FireParts
  <2>2. Callee \in Managers
    BY <1>6 DEF Starts, Inv, TypeInv
  <2>3. /\ New(Callee) \in Launches /\ New(Callee).id \in Ids \ Used
        /\ New(Callee).id \notin IdsOf(Spared)
        /\ New(Callee) = [id |-> New(Callee).id, m |-> Callee, start |-> now, next |-> 1, age |-> 0]
    BY <1>5, <2>1, <2>2, FreshFacts
  <2>4. /\ toAdd' \in Seq(Launches) /\ Distinct(toAdd')
        /\ ToSet(toAdd') = ToSet(Spared) \union {New(Callee)}
        /\ IdsOf(toAdd') = IdsOf(Spared) \union {New(Callee).id}
    BY <1>5, <2>1, <2>3, DistinctAppend
  <2>5. QED
    BY <1>3, <1>4, <1>6, <2>2, <2>3, <2>4
<1>7. CASE ~Starts
  <2>1. toAdd' = Spared
    BY <1>1, <1>7, FireParts
  <2>2. QED
    BY <1>3, <1>4, <1>5, <1>7, <2>1
<1>8. QED
  BY <1>6, <1>7

LEMMA InvFire ==
  ASSUME Inv, FireLaunch
  PROVE  Inv'
<1>1. /\ UNCHANGED <<now, alive, items, calls>> /\ pc = "fire" /\ pc' = "finish" /\ UNCHANGED pos
      /\ pos <= Len(launches)
  BY DEF FireLaunch, Inv, TypeInv
<1>2. CASE Current.next > Len(List)
  <2>1. UNCHANGED <<launches, toAdd, toRemove>>
    BY <1>2 DEF FireLaunch
  <2>2. TypeInv' /\ OwnInv'
    BY <1>1, <2>1 DEF Inv, TypeInv, OwnInv
  <2>3. AliveInv'
    BY <1>1, <2>1 DEF Inv, AliveInv, Locked
  <2>4. QED
    BY <2>2, <2>3 DEF Inv
<1>3. CASE Current.next <= Len(List)
  <2>0. /\ Current \in ToSet(launches) /\ Current \in Launches
        /\ Current.id \in IdsOf(launches) /\ Current.id \in Ids
    BY <1>1, CurrentFacts
  <2>1. /\ launches' \in Seq(Launches) /\ Len(launches') = Len(launches) /\ Distinct(launches')
        /\ ToSet(launches') = (ToSet(launches) \ {Current}) \union {[Current EXCEPT !.next = At + 1]}
        /\ IdsOf(launches') = IdsOf(launches)
        /\ toRemove' = toRemove \union Cancelled
        /\ toAdd' \in Seq(Launches) /\ Distinct(toAdd')
        /\ Starts => Callee \in alive /\ New(Callee).id \in Ids \ Used /\ New(Callee).m = Callee
        /\ ToSet(toAdd') = ToSet(Spared) \union IF Starts THEN {New(Callee)} ELSE {}
        /\ IdsOf(toAdd') = IdsOf(Spared) \union IF Starts THEN {New(Callee).id} ELSE {}
    <3>1. Starts => New(Callee).m = Callee /\ Callee \in alive
      BY DEF Starts, New
    <3>2. QED
      BY <1>1, <1>3, <3>1, FiredLists
  <2>2. /\ ToSet(Spared) \subseteq ToSet(toAdd) /\ IdsOf(Spared) \subseteq IdsOf(toAdd)
        /\ Cancelled \subseteq IdsOf(launches) /\ Cancelled \subseteq Ids
    BY SparedFacts
  <2>4. [Current EXCEPT !.next = At + 1].m = Current.m
    <3>1. At + 1 \in Nat \ {0}
      BY <1>1, <1>3, AtFacts
    <3>2. QED
      BY <2>0, <3>1, NextUpdated
  <2>5. TypeInv'
    BY <1>1, <2>1, <2>2 DEF Inv, TypeInv
  <2>6. Used = IdsOf(launches) \union IdsOf(toAdd)
    BY DEF Used, IdsOf
  <2>7. OwnInv'
    BY <2>1, <2>2, <2>6 DEF Inv, OwnInv
  <2>8. \A l \in ToSet(launches') : l.m \in alive
    BY <1>1, <2>0, <2>1, <2>4 DEF Inv, AliveInv, Locked
  <2>9. \A l \in ToSet(toAdd') : l.m \in alive
    BY <2>1, <2>2 DEF Inv, AliveInv
  <2>10. AliveInv'
    BY <1>1, <2>8, <2>9 DEF Inv, AliveInv
  <2>11. QED
    BY <2>5, <2>7, <2>10 DEF Inv
<1>4. Current.next > Len(List) \/ Current.next <= Len(List)
  BY <1>1, CurrentFacts
<1>5. QED
  BY <1>2, <1>3, <1>4

LEMMA InvNext ==
  Inv /\ [Next]_vars => Inv'
<1>1. ASSUME Inv, UNCHANGED vars PROVE Inv'
  BY <1>1 DEF Inv, TypeInv, OwnInv, AliveInv, Locked, vars
<1>2. QED
  BY <1>1, InvTrigger, InvCheckItems, InvAdd, InvNotify, InvBeginPass, InvCheck, InvFire,
     InvFinish, InvEndPass, InvWake, InvTick, InvRemoveItem, InvDestroy DEF Next, Launcher

LEMMA InvAlways ==
  Spec => []Inv
BY InvInit, InvNext, PTL DEF Spec

\* The launches are owned by exactly one list and what is marked for removal has
\* not been deleted, whatever is added, cancelled or destroyed before, during and
\* after a pass (ConsequenceStaggerLauncher::run, removeLaunchesFor).
THEOREM ListsOwnLaunches ==
  Spec => []Owned
<1>1. ASSUME Inv PROVE Owned
  <2> DEFINE q == launches \o toAdd
  <2>1. launches \in Seq(Launches) /\ toAdd \in Seq(Launches)
    BY <1>1 DEF Inv, TypeInv
  <2>2. q \in Seq(Launches) /\ Distinct(q)
    <3>1. q \in Seq(Launches)
      BY <2>1, ConcatElements
    <3>2. Distinct(q)
      BY <1>1, <2>1, DistinctConcat DEF Inv, OwnInv
    <3>3. QED
      BY <3>1, <3>2
  <2> HIDE DEF q
  <2>3. IsInjective([i \in 1..Len(q) |-> q[i].id])
    BY <2>2 DEF Distinct, IsInjective
  <2>4. toRemove \subseteq {l.id : l \in ToSet(launches)}
    BY <1>1 DEF Inv, OwnInv, IdsOf
  <2>5. QED
    BY <2>3, <2>4 DEF Owned, q
<1>2. QED
  BY <1>1, InvAlways, PTL

\* A launch that is processed is of a manager that is not destroyed, for any
\* managers that trigger each other and are destroyed while launches of theirs are
\* started or still to be added (~ConsequenceManager, removeLaunchesFor).
THEOREM NoneIsDangling ==
  Spec => []NoDangling
<1>1. ASSUME Inv PROVE NoDangling
  <2>1. SUFFICES ASSUME Locked, pos <= Len(launches) PROVE Current.m \in alive
    BY DEF NoDangling
  <2>2. Current \in ToSet(launches)
    BY <1>1, <2>1, CurrentFacts
  <2>3. QED
    BY <1>1, <2>1, <2>2 DEF Inv, AliveInv
<1>2. QED
  BY <1>1, InvAlways, PTL

-----------------------------------------------------------------------------
\* The promise is kept for managers whose delays are counted to the end, and whose
\* items do not cancel a manager while the launcher processes its launches: a pass
\* does not look at what is marked while it lasts, and fires it.
Promised ==
  /\ \A m \in Managers : Delay[m] + Stagger[m] * (Len(Contents[m]) - 1) <= Oldest
  /\ \A i \in Items : Calls[i] \notin Kill
  /\ ~Meanwhile

Due(l) == Delay[l.m] + Stagger[l.m] * Rank(l)

\* The unsigned difference is never more than the age; what the pass has still to
\* process is not marked; the item that is to be fired is there, and is due.
TimeInv ==
  /\ \A l \in ToSet(launches) \union ToSet(toAdd) :
       l.age = Oldest \/ (now - l.start) % Wrap <= l.age
  /\ Locked => \A i \in pos..Len(launches) : launches[i].id \notin toRemove
  /\ pc = "fire" => Current.next <= Len(List) /\ Current.age >= Due(Current)
  /\ ~crashed

LEMMA Remainders ==
  ASSUME NEW w \in Nat \ {0}
  PROVE  /\ \A x \in 0..(w - 1) : x % w = x
         /\ \A x \in (-w)..(-1) : x % w = x + w
         /\ w % w = 0
OBVIOUS

LEMMA OneLater ==
  ASSUME NEW w \in Nat \ {0}, NEW n \in 0..(w - 1), NEW s \in 0..(w - 1)
  PROVE  (((n + 1) % w) - s) % w <= ((n - s) % w) + 1
<1>1. (n - s) % w = IF n >= s THEN n - s ELSE n - s + w
  <2>1. CASE n >= s
    <3>1. n - s \in 0..(w - 1)
      BY <2>1
    <3>2. QED
      BY <2>1, <3>1, Remainders
  <2>2. CASE n < s
    <3>1. n - s \in (-w)..(-1) /\ ~(n >= s)
      BY <2>2
    <3>2. QED
      BY <3>1, Remainders
  <2>3. QED
    BY <2>1, <2>2
<1>2. CASE n + 1 < w
  <2>1. (n + 1) % w = n + 1
    <3>1. n + 1 \in 0..(w - 1)
      BY <1>2
    <3>2. QED
      BY <3>1, Remainders
  <2>2. CASE n + 1 >= s
    <3>1. n + 1 - s \in 0..(w - 1) \/ n + 1 - s = w
      BY <1>2, <2>2
    <3>2. (n + 1 - s) % w <= n + 1 - s
      BY <1>2, <2>2, <3>1, Remainders
    <3>3. n >= s \/ n + 1 = s
      BY <2>2
    <3>4. CASE n >= s
      BY <1>1, <2>1, <3>2, <3>4
    <3>5. CASE n + 1 = s
      <4>1. n + 1 - s = 0 /\ 0 \in 0..(w - 1)
        BY <3>5
      <4>2. (n + 1 - s) % w = 0
        BY <4>1, Remainders
      <4>3. (n - s) % w >= 0
        BY <1>1
      <4>4. QED
        BY <1>1, <2>1, <4>2, <4>3
    <3>6. QED
      BY <3>3, <3>4, <3>5
  <2>3. CASE n + 1 < s
    <3>1. n + 1 - s \in (-w)..(-1) /\ ~(n >= s)
      BY <2>3
    <3>2. (n + 1 - s) % w = n + 1 - s + w
      BY <3>1, Remainders
    <3>3. QED
      BY <1>1, <2>1, <3>1, <3>2
  <2>4. QED
    BY <2>2, <2>3
<1>3. CASE n + 1 = w
  <2>1. (n + 1) % w = 0
    BY <1>3, Remainders
  <2>2. CASE s = 0
    <3>1. (0 - s) % w = 0
      <4>1. 0 - s = 0 /\ 0 \in 0..(w - 1)
        BY <2>2
      <4>2. QED
        BY <4>1, Remainders
    <3>2. (n - s) % w >= 0
      BY <1>1
    <3>3. QED
      BY <1>1, <2>1, <3>1, <3>2
  <2>3. CASE s > 0
    <3>1. 0 - s \in (-w)..(-1) /\ n >= s
      BY <1>3, <2>3
    <3>2. (0 - s) % w = 0 - s + w
      BY <3>1, Remainders
    <3>3. QED
      BY <1>1, <1>3, <2>1, <3>1, <3>2
  <2>4. QED
    BY <2>2, <2>3
<1>4. QED
  BY <1>2, <1>3

\* The staggers of an item are those of the enabled items before it.
LEMMA RankFacts ==
  ASSUME NEW l \in Launches
  PROVE  Rank(l) \in Nat /\ Rank(l) <= l.next - 1
<1> DEFINE R == {i \in 1..(l.next - 1) : items[l.m][i] \notin Disabled}
<1>1. l.next - 1 \in Nat
  BY LaunchFields
<1>2. IsFiniteSet(1..(l.next - 1)) /\ Cardinality(1..(l.next - 1)) = l.next - 1
  BY <1>1, FS_Interval
<1>3. R \subseteq 1..(l.next - 1)
  OBVIOUS
<1>4. Rank(l) = Cardinality(R)
  BY DEF Rank
<1> HIDE DEF R
<1>5. IsFiniteSet(R) /\ Cardinality(R) <= Cardinality(1..(l.next - 1))
  BY <1>2, <1>3, FS_Subset
<1>6. QED
  BY <1>2, <1>4, <1>5, FS_CardinalityType

LEMMA Monotonic ==
  ASSUME NEW a \in Nat, NEW b \in Nat, NEW c \in Int, b <= c
  PROVE  a * b \in Nat /\ a * b <= a * c /\ a * c \in Nat
OBVIOUS

\* An item of a list is due before ages are not counted any more, and before the
\* counter wraps.
LEMMA DueFacts ==
  ASSUME Inv, Promised, NEW l \in Launches, l.next <= Len(items[l.m])
  PROVE  Due(l) \in Nat /\ Due(l) <= Oldest /\ Due(l) < Wrap
<1> DEFINE d == Delay[l.m]
           s == Stagger[l.m]
           n == Len(Contents[l.m]) - 1
<1>1. l.m \in Managers /\ d \in Nat /\ s \in Nat /\ MaxLag \in Nat /\ Wrap \in Nat
      /\ Oldest \in Nat
  BY LaunchFields, ConstantsAssumption
<1>2. Rank(l) \in Nat /\ Rank(l) <= n /\ n \in Int
  <2>1. Rank(l) \in Nat /\ Rank(l) <= l.next - 1 /\ l.next \in Nat
    BY RankFacts, LaunchFields
  <2>2. /\ Len(items[l.m]) <= Len(Contents[l.m]) /\ Len(items[l.m]) \in Nat
        /\ Len(Contents[l.m]) \in Nat
    BY <1>1, ConstantsAssumption DEF Inv, TypeInv
  <2>3. QED
    BY <2>1, <2>2
<1>3. d + s * n <= Oldest /\ d + s * n + MaxLag < Wrap
  BY <1>1, ConstantsAssumption DEF Promised
<1>4. Due(l) = d + s * Rank(l)
  BY DEF Due
<1> HIDE DEF d, s, n
<1>5. s * Rank(l) \in Nat /\ s * Rank(l) <= s * n /\ s * n \in Nat
  BY <1>1, <1>2, Monotonic
<1>6. QED
  BY <1>1, <1>3, <1>4, <1>5

-----------------------------------------------------------------------------
LEMMA TimeInit ==
  Init => TimeInv
<1> SUFFICES ASSUME Init PROVE TimeInv
  OBVIOUS
<1>1. ToSet(<<>>) = {}
  BY ShortElements
<1>2. QED
  BY <1>1 DEF Init, TimeInv, Locked

LEMMA NewIsYoung ==
  ASSUME Inv
  PROVE  (now - now) % Wrap = 0
<1>1. now - now = 0 /\ Wrap \in Nat \ {0} /\ 0 \in 0..(Wrap - 1)
  BY ConstantsAssumption DEF Inv, TypeInv
<1>2. QED
  BY <1>1, Remainders

LEMMA TimeTrigger ==
  ASSUME Inv, TimeInv, NEW th \in Threads, NEW m \in Managers, TriggerAll(th, m)
  PROVE  TimeInv'
<1>1. /\ UNCHANGED <<now, alive, items, launches, pc, pos, crashed>>
      /\ toAdd' = toAdd \/ toAdd' = Dropped(m)
      /\ UNCHANGED toRemove \/ ~Locked
  BY DEF TriggerAll, thread
<1>2. ToSet(toAdd') \subseteq ToSet(toAdd)
  BY <1>1, DroppedFacts
<1>3. QED
  BY <1>1, <1>2 DEF TimeInv, Locked, Current, List, Due, Rank

LEMMA TimeAdd ==
  ASSUME Inv, TimeInv, NEW th \in Threads, AddLaunch(th)
  PROVE  TimeInv'
<1> DEFINE m == calls[th][2]
<1>1. /\ UNCHANGED <<now, alive, items, launches, toRemove, pc, pos, crashed>>
      /\ calls[th] # <<>> /\ toAdd' = Append(toAdd, New(m)) /\ Ids \ Used # {}
  BY DEF AddLaunch, thread
<1>2. m \in Managers
  BY <1>1 DEF Inv, TypeInv, AliveInv
<1> HIDE DEF m
<1>3. New(m) \in Launches /\ New(m).start = now /\ New(m).age = 0
  BY <1>1, <1>2, FreshFacts
<1>4. toAdd \in Seq(Launches)
  BY DEF Inv, TypeInv
<1>5. ToSet(toAdd') = ToSet(toAdd) \union {New(m)}
  BY <1>1, <1>3, <1>4, AppendElements
<1>6. (now - New(m).start) % Wrap <= New(m).age
  BY <1>3, NewIsYoung
<1>7. QED
  BY <1>1, <1>5, <1>6 DEF TimeInv, Locked, Current, List, Due, Rank

LEMMA TimeBeginPass ==
  ASSUME Inv, TimeInv, BeginPass
  PROVE  TimeInv'
<1>1. /\ UNCHANGED <<now, crashed>> /\ pc' = "pass" /\ toAdd' = <<>> /\ toRemove' = {}
  BY DEF BeginPass
<1>2. ToSet(launches') \subseteq ToSet(launches) \union ToSet(toAdd)
  BY InvBeginPass DEF Pending
<1>3. ToSet(<<>>) = {}
  BY ShortElements
<1>4. QED
  BY <1>1, <1>2, <1>3 DEF TimeInv, Locked

LEMMA TimeCheck ==
  ASSUME Inv, TimeInv, Promised, CheckLaunch
  PROVE  TimeInv'
<1>1. /\ UNCHANGED <<now, items, launches, toAdd, toRemove, pos, crashed>>
      /\ pc = "pass" /\ pos <= Len(launches) /\ pc' \in {"fire", "finish"}
      /\ pc' = "fire" => Current.next <= Len(List) /\ Elapsed(Current)
  BY DEF CheckLaunch
<1>2. pos \in 1..Len(launches) /\ Current = launches[pos] /\ Len(launches) \in Nat
      /\ Current \in ToSet(launches) /\ Current \in Launches
  BY <1>1, CurrentFacts DEF Inv, TypeInv
<1>3. \A i \in pos..Len(launches) : launches[i].id \notin toRemove
  BY <1>1 DEF TimeInv, Locked
<1>4. CASE pc' = "fire"
  <2>1. Current.next <= Len(List) /\ Elapsed(Current)
    BY <1>1, <1>4
  <2>3. Due(Current) \in Nat /\ Due(Current) <= Oldest /\ Due(Current) < Wrap
    BY <1>2, <2>1, DueFacts DEF List
  <2>4. Due(Current) % Wrap = Due(Current)
    <3>1. Wrap \in Nat \ {0} /\ Due(Current) \in 0..(Wrap - 1)
      BY <2>3, ConstantsAssumption
    <3>2. QED
      BY <3>1, Remainders
  <2>5. (now - Current.start) % Wrap >= Due(Current)
    BY <2>1, <2>4 DEF Elapsed, Due
  <2>6. Current.age = Oldest \/ (now - Current.start) % Wrap <= Current.age
    BY <1>2 DEF TimeInv
  <2>7. Current.age >= Due(Current)
    <3>1. Current.age \in Nat /\ (now - Current.start) % Wrap \in Int
      <4>1. now \in Int /\ Current.start \in Int /\ Wrap \in Nat \ {0} /\ Current.age \in Nat
        BY <1>2, LaunchFields, ConstantsAssumption DEF Inv, TypeInv
      <4>2. QED
        BY <4>1
    <3>2. QED
      BY <2>3, <2>5, <2>6, <3>1
  <2>8. Current' = Current /\ List' = List /\ Due(Current)' = Due(Current)
    BY <1>1 DEF Current, List, Due, Rank
  <2>9. QED
    BY <1>1, <1>3, <1>4, <2>1, <2>7, <2>8 DEF TimeInv
<1>5. CASE pc' # "fire"
  BY <1>1, <1>3, <1>5 DEF TimeInv
<1>6. QED
  BY <1>4, <1>5

LEMMA TimeFinish ==
  ASSUME Inv, TimeInv, FinishLaunch
  PROVE  TimeInv'
<1>1. /\ UNCHANGED <<now, items, launches, toAdd, crashed>>
      /\ pc = "finish" /\ pc' = "pass" /\ pos' = pos + 1
      /\ toRemove' = toRemove \/ toRemove' = toRemove \union {Current.id}
  BY DEF FinishLaunch
<1>2. pos \in 1..Len(launches) /\ Current = launches[pos] /\ Len(launches) \in Nat
  BY <1>1, CurrentFacts DEF Inv, TypeInv
<1>3. \A i \in pos'..Len(launches) : launches[i].id \notin toRemove'
  <2>1. SUFFICES ASSUME NEW i \in pos'..Len(launches) PROVE launches[i].id \notin toRemove'
    OBVIOUS
  <2>2. i \in pos..Len(launches) /\ i \in 1..Len(launches) /\ i # pos
    BY <1>1, <1>2
  <2>3. launches[i].id # Current.id
    BY <1>2, <2>2 DEF Inv, OwnInv, Distinct
  <2>4. QED
    BY <1>1, <2>2, <2>3 DEF TimeInv, Locked
<1>4. QED
  BY <1>1, <1>3 DEF TimeInv

LEMMA TimeEndPass ==
  ASSUME Inv, TimeInv, EndPass
  PROVE  TimeInv'
<1>1. UNCHANGED <<now, toAdd, crashed>> /\ pc' = "wait" /\ launches' = Kept
  BY DEF EndPass
<1>2. ToSet(launches') \subseteq ToSet(launches)
  BY <1>1, KeptFacts
<1>3. QED
  BY <1>1, <1>2 DEF TimeInv, Locked

LEMMA TimeWake ==
  ASSUME Inv, TimeInv, Wake
  PROVE  TimeInv'
BY DEF Wake, TimeInv, Locked

LEMMA TimeCheckItems ==
  ASSUME Inv, TimeInv, NEW th \in Threads, CheckItems(th)
  PROVE  TimeInv'
BY DEF CheckItems, thread, TimeInv, Locked, Current, List, Due, Rank

LEMMA TimeNotify ==
  ASSUME Inv, TimeInv, NEW th \in Threads, Notify(th)
  PROVE  TimeInv'
BY DEF Notify, thread, TimeInv, Locked, Current, List, Due, Rank

LEMMA TimeTick ==
  ASSUME Inv, TimeInv, Promised, Tick
  PROVE  TimeInv'
<1>1. /\ UNCHANGED <<items, toRemove, pc, pos, crashed>> /\ now' = (now + 1) % Wrap
      /\ launches' = Aged(launches) /\ toAdd' = Aged(toAdd)
  BY DEF Tick, thread
<1>2. /\ launches \in Seq(Launches) /\ Distinct(launches)
      /\ toAdd \in Seq(Launches) /\ Distinct(toAdd)
  BY DEF Inv, TypeInv, OwnInv
<1>3. /\ Len(launches') = Len(launches)
      /\ ToSet(launches') = {Older(l) : l \in ToSet(launches)}
      /\ \A i \in 1..Len(launches) : launches'[i] = Older(launches[i])
  BY <1>1, <1>2, AgedFacts
<1>4. ToSet(toAdd') = {Older(l) : l \in ToSet(toAdd)}
  BY <1>1, <1>2, AgedFacts
<1>5. ASSUME NEW l \in ToSet(launches) \union ToSet(toAdd)
      PROVE  Older(l).age = Oldest \/ (now' - Older(l).start) % Wrap <= Older(l).age
  <2>1. l \in Launches
    BY <1>2, Elements
  <2>2. /\ Older(l).start = l.start /\ l.start \in 0..(Wrap - 1) /\ l.age \in 0..Oldest
        /\ Older(l).age = IF l.age < Oldest THEN l.age + 1 ELSE l.age
        /\ Wrap \in Nat \ {0} /\ Oldest \in Nat /\ now \in 0..(Wrap - 1)
    BY <2>1, OlderFields, LaunchFields, ConstantsAssumption DEF Inv, TypeInv
  <2>3. CASE l.age = Oldest
    BY <2>2, <2>3
  <2>4. CASE l.age # Oldest
    <3>1. Older(l).age = l.age + 1
      BY <2>2, <2>4
    <3>2. (now - l.start) % Wrap <= l.age
      BY <2>4 DEF TimeInv
    <3>3. (now' - l.start) % Wrap <= ((now - l.start) % Wrap) + 1
      BY <1>1, <2>2, OneLater
    <3>4. (now - l.start) % Wrap \in Int /\ (now' - l.start) % Wrap \in Int
      BY <1>1, <2>2
    <3>5. QED
      BY <2>2, <3>1, <3>2, <3>3, <3>4
  <2>5. QED
    BY <2>3, <2>4
<1>6. Locked => \A i \in pos..Len(launches) : launches'[i].id \notin toRemove
  <2>1. SUFFICES ASSUME Locked, NEW i \in pos..Len(launches) PROVE launches'[i].id \notin toRemove
    OBVIOUS
  <2>2. i \in 1..Len(launches) /\ launches[i] \in Launches
    <3>1. pos \in Nat \ {0} /\ Len(launches) \in Nat
      BY <1>2 DEF Inv, TypeInv
    <3>2. i \in 1..Len(launches)
      BY <3>1
    <3>3. QED
      BY <1>2, <3>2, ElementOfSeq
  <2>3. launches'[i].id = launches[i].id
    BY <1>3, <2>2, OlderFields
  <2>4. QED
    BY <2>1, <2>3 DEF TimeInv
<1>7. pc = "fire" => /\ Current'.next = Current.next /\ Current'.m = Current.m
                     /\ Current'.age >= Current.age /\ Current' \in Launches
  <2>1. SUFFICES ASSUME pc = "fire"
                 PROVE  /\ Current'.next = Current.next /\ Current'.m = Current.m
                        /\ Current'.age >= Current.age /\ Current' \in Launches
    OBVIOUS
  <2>2. pos \in 1..Len(launches) /\ Current = launches[pos] /\ Current \in Launches
    BY <2>1, CurrentFacts DEF Inv, TypeInv
  <2>3. Current' = Older(Current)
    BY <1>1, <1>3, <2>2 DEF Current
  <2>4. Current.age \in Int
    BY <2>2, LaunchFields
  <2>5. QED
    BY <2>2, <2>3, <2>4, OlderFields
<1>8. pc = "fire" => Current'.next <= Len(List') /\ Current'.age >= Due(Current)'
  <2>1. SUFFICES ASSUME pc = "fire"
                 PROVE  Current'.next <= Len(List') /\ Current'.age >= Due(Current)'
    OBVIOUS
  <2>2. Current.next <= Len(List) /\ Current.age >= Due(Current)
    BY <2>1 DEF TimeInv
  <2>3. List' = List /\ Due(Current)' = Due(Current)
    BY <1>1, <1>7, <2>1 DEF List, Due, Rank
  <2>4. Current \in Launches /\ Due(Current) \in Nat
    BY <2>1, <2>2, CurrentFacts, DueFacts DEF List, Inv, TypeInv
  <2>5. Current.age \in Int /\ Current'.age \in Int
    BY <1>7, <2>1, <2>4, LaunchFields
  <2>6. QED
    BY <1>7, <2>1, <2>2, <2>3, <2>4, <2>5
<1>9. QED
  BY <1>1, <1>3, <1>4, <1>5, <1>6, <1>8 DEF TimeInv, Locked

LEMMA TimeRemoveItem ==
  ASSUME Inv, TimeInv, Promised, NEW m \in Managers, NEW i \in 1..Len(items[m]), RemoveItem(m, i)
  PROVE  TimeInv'
<1>1. UNCHANGED <<now, launches, toAdd, toRemove, pc, pos, crashed>> /\ pc # "fire"
  BY DEF RemoveItem, Promised, thread
<1>2. QED
  BY <1>1 DEF TimeInv, Locked

LEMMA TimeDestroy ==
  ASSUME Inv, TimeInv, NEW m \in Managers, DestroyManager(m)
  PROVE  TimeInv'
<1>1. UNCHANGED <<now, launches, pc, pos, crashed>> /\ ~Locked /\ toAdd' = Dropped(m)
  BY DEF DestroyManager, thread
<1>2. ToSet(toAdd') \subseteq ToSet(toAdd)
  BY <1>1, DroppedFacts
<1>3. QED
  BY <1>1, <1>2 DEF TimeInv, Locked

\* The item that is fired cancels nothing.
LEMMA NothingKilled ==
  ASSUME Inv, Promised, pc = "fire", Current.next <= Len(List)
  PROVE  ~Kills /\ Spared = toAdd /\ Cancelled = {}
<1>1. Callee \notin Kill
  <2>1. pos <= Len(launches)
    BY DEF Inv, TypeInv
  <2>2. CASE On = {}
    BY <2>2, ConstantsAssumption DEF Callee
  <2>3. CASE On # {}
    BY <2>1, <2>3, AtFacts DEF Promised, Callee
  <2>4. QED
    BY <2>2, <2>3
<1>2. QED
  BY <1>1 DEF Kills, Spared, Cancelled

LEMMA TimeFire ==
  ASSUME Inv, TimeInv, Promised, FireLaunch
  PROVE  TimeInv'
<1>1. /\ UNCHANGED <<now, items>> /\ pc = "fire" /\ pc' = "finish" /\ UNCHANGED pos
      /\ crashed' = (Current.next > Len(List))
  BY DEF FireLaunch
<1>2. Current.next <= Len(List) /\ pos <= Len(launches)
  BY <1>1 DEF TimeInv, Inv, TypeInv
<1>3. /\ Current.next \in Nat /\ Len(List) \in Nat /\ pos \in 1..Len(launches)
      /\ Current = launches[pos] /\ Current \in ToSet(launches) /\ Current \in Launches
      /\ Len(launches) \in Nat
  BY <1>2, CurrentFacts DEF Inv, TypeInv
<1>4. ~crashed'
  <2>1. ~(Current.next > Len(List))
    BY <1>2, <1>3
  <2>2. QED
    BY <1>1, <2>1, Zenon
<1>5. /\ Len(launches') = Len(launches)
      /\ ToSet(launches') = (ToSet(launches) \ {Current}) \union {[Current EXCEPT !.next = At + 1]}
      /\ \A i \in 1..Len(launches) : launches'[i].id = launches[i].id
      /\ toRemove' = toRemove \union Cancelled
      /\ Starts => New(Callee) = [id |-> New(Callee).id, m |-> Callee, start |-> now,
                                  next |-> 1, age |-> 0]
      /\ ToSet(toAdd') = ToSet(Spared) \union IF Starts THEN {New(Callee)} ELSE {}
  BY <1>1, <1>2, FiredLists
<1>6. Spared = toAdd /\ Cancelled = {}
  BY <1>1, <1>2, NothingKilled
<1>7. \A l \in ToSet(launches') \union ToSet(toAdd') :
        l.age = Oldest \/ (now - l.start) % Wrap <= l.age
  <2>1. [Current EXCEPT !.next = At + 1] = [id |-> Current.id, m |-> Current.m,
           start |-> Current.start, next |-> At + 1, age |-> Current.age]
    <3>1. At + 1 \in Nat \ {0}
      BY <1>2, AtFacts
    <3>2. QED
      BY <1>3, <3>1, NextUpdated
  <2>2. Starts => New(Callee).start = now /\ New(Callee).age = 0
    BY <1>5
  <2>3. (now - now) % Wrap <= 0
    BY NewIsYoung
  <2> DEFINE x == [Current EXCEPT !.next = At + 1]
  <2>4. x.start = Current.start /\ x.age = Current.age
    BY <2>1
  <2> HIDE DEF x
  <2>5. ASSUME NEW l \in ToSet(launches') \union ToSet(toAdd')
        PROVE  l.age = Oldest \/ (now - l.start) % Wrap <= l.age
    <3>1. l = x \/ l \in ToSet(launches) \union ToSet(toAdd) \/ (Starts /\ l = New(Callee))
      BY <1>5, <1>6 DEF x
    <3>2. QED
      BY <1>3, <2>2, <2>3, <2>4, <3>1 DEF TimeInv
  <2>6. QED
    BY <2>5
<1>8. \A i \in pos'..Len(launches') : launches'[i].id \notin toRemove'
  <2>1. SUFFICES ASSUME NEW i \in pos'..Len(launches') PROVE launches'[i].id \notin toRemove'
    OBVIOUS
  <2>2. i \in pos..Len(launches) /\ i \in 1..Len(launches)
    BY <1>1, <1>3, <1>5
  <2>3. launches[i].id \notin toRemove
    BY <1>1, <2>2 DEF TimeInv, Locked
  <2>4. QED
    BY <1>5, <1>6, <2>2, <2>3
<1>9. QED
  BY <1>1, <1>4, <1>7, <1>8 DEF TimeInv

LEMMA TimeNext ==
  Promised /\ Inv /\ TimeInv /\ [Next]_vars => TimeInv'
<1>1. ASSUME TimeInv, UNCHANGED vars PROVE TimeInv'
  BY <1>1 DEF TimeInv, Locked, Current, List, Due, Rank, vars
<1>2. QED
  BY <1>1, TimeTrigger, TimeCheckItems, TimeAdd, TimeNotify, TimeBeginPass, TimeCheck, TimeFire,
     TimeFinish, TimeEndPass, TimeWake, TimeTick, TimeRemoveItem, TimeDestroy DEF Next, Launcher

-----------------------------------------------------------------------------
\* What the abstract specification sees of the launches.
View(l) == [id |-> l.id, m |-> l.m, next |-> l.next, age |-> l.age]
Live == {View(l) : l \in Pending}

LEMMA PendingFacts ==
  ASSUME Inv
  PROVE  /\ Pending \subseteq Launches /\ Pending \subseteq ToSet(launches) \union ToSet(toAdd)
         /\ \A k, l \in Pending : k.id = l.id => k = l
         /\ {l.id : l \in Pending} \subseteq Used
<1>1. /\ launches \in Seq(Launches) /\ toAdd \in Seq(Launches)
      /\ Distinct(launches) /\ Distinct(toAdd) /\ IdsOf(launches) \cap IdsOf(toAdd) = {}
  BY DEF Inv, TypeInv, OwnInv
<1>2. Pending \subseteq ToSet(launches) \union ToSet(toAdd)
  BY DEF Pending
<1>3. Pending \subseteq Launches
  BY <1>1, <1>2, Elements
<1>4. \A k, l \in ToSet(launches) : k.id = l.id => k = l
  BY <1>1, DistinctElements
<1>5. \A k, l \in ToSet(toAdd) : k.id = l.id => k = l
  BY <1>1, DistinctElements
<1>6. \A k \in ToSet(launches), l \in ToSet(toAdd) : k.id # l.id
  BY <1>1 DEF IdsOf
<1>7. \A k, l \in Pending : k.id = l.id => k = l
  BY <1>2, <1>4, <1>5, <1>6
<1>8. QED
  BY <1>2, <1>3, <1>7 DEF Used

LEMMA LiveFacts ==
  /\ Delayed!Unused = Ids \ {l.id : l \in Live}
  /\ {l.id : l \in Live} = {l.id : l \in Pending}
<1>1. Delayed!Unused = Ids \ {l.id : l \in Live}
  BY DEF Delayed!Unused, Live, View
<1>2. {l.id : l \in Live} = {l.id : l \in Pending}
  <2>1. \A l : View(l).id = l.id
    BY DEF View
  <2>2. QED
    BY <2>1 DEF Live
<1>3. QED
  BY <1>1, <1>2

LEMMA Unseen ==
  ASSUME UNCHANGED <<alive, items, Pending>>, out' = <<>>
  PROVE  Delayed!Next
BY DEF Delayed!Next, Delayed!Rest

\* The launches of m are gone.
LEMMA Forgotten ==
  ASSUME NEW m, Pending' = {l \in Pending : l.m # m}
  PROVE  Live' = {l \in Live : l.m # m}
BY DEF Live, View

LEMMA CancelledLists ==
  ASSUME Inv, NEW m, UNCHANGED launches,
         toAdd' = Dropped(m), toRemove' = toRemove \union Started(m)
  PROVE  Pending' = {l \in Pending : l.m # m}
<1>1. ToSet(toAdd') = {l \in ToSet(toAdd) : l.m # m}
  BY DroppedFacts
<1>2. \A l \in ToSet(launches) : l.id \in Started(m) <=> l.m = m
  BY StartedFacts
<1>3. QED
  BY <1>1, <1>2 DEF Pending

LEMMA TriggerImplements ==
  ASSUME Inv, NEW th \in Threads, NEW m \in Managers, TriggerAll(th, m)
  PROVE  Delayed!Next
<1>1. UNCHANGED <<alive, items, launches>> /\ out' = <<>>
  BY DEF TriggerAll, Quiet
<1>2. CASE m \in Kill
  <2>1. Pending' = {l \in Pending : l.m # m}
    BY <1>1, <1>2, CancelledLists DEF TriggerAll
  <2>2. Live' = {l \in Live : l.m # m}
    BY <2>1, Forgotten
  <2>3. Delayed!Cancel(m)
    BY <1>1, <2>2 DEF Delayed!Cancel, Live, View
  <2>4. QED
    BY <2>3 DEF Delayed!Next
<1>3. CASE m \notin Kill
  <2>1. UNCHANGED <<toAdd, toRemove>>
    BY <1>3 DEF TriggerAll
  <2>2. UNCHANGED Pending
    BY <1>1, <2>1 DEF Pending
  <2>3. QED
    BY <1>1, <2>2, Unseen
<1>4. QED
  BY <1>2, <1>3

LEMMA AddImplements ==
  ASSUME Inv, NEW th \in Threads, AddLaunch(th)
  PROVE  Delayed!Next
<1>0. PICK m \in Managers : m = calls[th][2]
  BY DEF AddLaunch, Inv, TypeInv
<1>1. /\ UNCHANGED <<alive, items, launches, toRemove>> /\ out' = <<>>
      /\ calls[th] # <<>> /\ toAdd' = Append(toAdd, New(m)) /\ Ids \ Used # {}
  BY <1>0 DEF AddLaunch, Quiet
<1>2. m \in alive /\ m \in Managers
  BY <1>0, <1>1 DEF Inv, AliveInv
<1>3. /\ New(m) \in Launches /\ New(m).id \in Ids \ Used
      /\ New(m) = [id |-> New(m).id, m |-> m, start |-> now, next |-> 1, age |-> 0]
  BY <1>1, <1>2, FreshFacts
<1>4. toAdd \in Seq(Launches)
  BY DEF Inv, TypeInv
<1>5. ToSet(toAdd') = ToSet(toAdd) \union {New(m)}
  BY <1>1, <1>3, <1>4, AppendElements
<1>6. Pending' = Pending \union {New(m)}
  BY <1>1, <1>5 DEF Pending
<1>7. View(New(m)) = Delayed!New(New(m).id, m)
  BY <1>3 DEF View, Delayed!New
<1>8. Live' = Live \union {Delayed!New(New(m).id, m)}
  BY <1>6, <1>7 DEF Live, View
<1>9. New(m).id \in Delayed!Unused
  BY <1>3, LiveFacts, PendingFacts
<1>10. Delayed!Start(m)
  BY <1>1, <1>2, <1>8, <1>9 DEF Delayed!Start, Live, View
<1>11. QED
  BY <1>2, <1>10 DEF Delayed!Next

\* One launch less, and others.
LEMMA Replacement ==
  ASSUME Inv, NEW c \in Pending, NEW N, Pending' = (Pending \ {c}) \union N
  PROVE  View(c) \in Live /\ Live' = (Live \ {View(c)}) \union {View(l) : l \in N}
<1>1. \A k \in Pending : View(k) = View(c) => k = c
  <2>1. \A k : View(k).id = k.id
    BY DEF View
  <2>2. QED
    BY <2>1, PendingFacts
<1>2. Live' = {View(l) : l \in Pending'}
  BY DEF Live, View
<1>3. QED
  BY <1>1, <1>2 DEF Live

\* The launch that is processed is pending: nothing has marked it since the pass
\* began.
LEMMA CurrentIsPending ==
  ASSUME Inv, TimeInv, Locked, pos <= Len(launches)
  PROVE  Current \in Pending
<1>1. pos \in 1..Len(launches) /\ Len(launches) \in Nat
      /\ Current = launches[pos] /\ Current \in ToSet(launches)
  BY CurrentFacts DEF Inv, TypeInv
<1>2. Current.id \notin toRemove
  BY <1>1 DEF TimeInv
<1>3. QED
  BY <1>1, <1>2 DEF Pending

LEMMA LastImplements ==
  ASSUME NEW v \in Live, Delayed!Finish(v) \/ Delayed!PassOver(v)
  PROVE  Delayed!Next
<1>1. \E l \in Live : Delayed!Finish(l) \/ Delayed!PassOver(l)
  OBVIOUS
<1>2. QED
  BY <1>1 DEF Delayed!Next, Live, View

LEMMA FinishImplements ==
  ASSUME Inv, TimeInv, FinishLaunch
  PROVE  Delayed!Next
<1>1. /\ UNCHANGED <<alive, items, launches, toAdd>> /\ out' = <<>>
      /\ pc = "finish" /\ pos <= Len(launches)
      /\ \/ UNCHANGED toRemove
         \/ Current.next > Len(List) /\ toRemove' = toRemove \union {Current.id}
  BY DEF FinishLaunch, Quiet, Inv, TypeInv
<1>2. CASE UNCHANGED toRemove
  <2>1. UNCHANGED Pending
    BY <1>1, <1>2 DEF Pending
  <2>2. QED
    BY <1>1, <2>1, Unseen
<1>3. CASE Current.next > Len(List) /\ toRemove' = toRemove \union {Current.id}
  <2>1. Current \in Pending /\ Current.id \in IdsOf(launches) /\ Current \in ToSet(launches)
        /\ Current.next \in Nat /\ Len(List) \in Nat
    BY <1>1, CurrentIsPending, CurrentFacts DEF Locked
  <2>2. Pending' = (Pending \ {Current}) \union {}
    <3>1. \A l \in ToSet(launches) : l.id = Current.id => l = Current
      BY <2>1, DistinctElements DEF Inv, TypeInv, OwnInv
    <3>2. \A l \in ToSet(toAdd) : l.id # Current.id
      BY <2>1 DEF Inv, OwnInv, IdsOf
    <3>3. QED
      BY <1>1, <1>3, <2>1, <3>1, <3>2 DEF Pending
  <2>3. View(Current) \in Live /\ Live' = Live \ {View(Current)}
    BY <2>1, <2>2, Replacement
  <2>0. PICK v \in Live : v = View(Current)
    BY <2>3
  <2>4. Delayed!Left(v) = {}
    <3>1. v.next = Current.next /\ v.m = Current.m
      BY <2>0 DEF View
    <3>2. Current.next..Len(List) = {}
      BY <1>3, <2>1
    <3>3. QED
      BY <3>1, <3>2 DEF Delayed!Left, List
  <2>5. Delayed!Finish(v)
    BY <1>1, <2>0, <2>3, <2>4 DEF Delayed!Finish, Live, View
  <2>6. QED
    BY <2>5, LastImplements
<1>4. QED
  BY <1>1, <1>2, <1>3

LEMMA QuietImplements ==
  ASSUME Inv, \/ BeginPass \/ CheckLaunch \/ EndPass \/ Wake
              \/ \E th \in Threads : CheckItems(th) \/ Notify(th)
  PROVE  Delayed!Next
<1>1. UNCHANGED <<alive, items>> /\ out' = <<>>
  BY DEF BeginPass, CheckLaunch, EndPass, Wake, CheckItems, Notify, Quiet
<1>2. UNCHANGED Pending
  <2>1. CASE BeginPass
    <3>1. toAdd' = <<>> /\ toRemove' = {} /\ ToSet(<<>>) = {} /\ ToSet(launches') = Pending
      BY <2>1, InvBeginPass, ShortElements DEF BeginPass
    <3>2. Pending' = {l \in ToSet(launches') : l.id \notin toRemove'} \union ToSet(toAdd')
      BY DEF Pending
    <3>3. Pending' = ToSet(launches')
      BY <3>1, <3>2
    <3>4. QED
      BY <3>1, <3>3
  <2>2. CASE EndPass
    <3>1. Pending' = Pending
      BY <2>2, InvEndPass
    <3>2. QED
      BY <3>1
  <2>3. CASE CheckLaunch \/ Wake \/ \E th \in Threads : CheckItems(th) \/ Notify(th)
    BY <2>3 DEF CheckLaunch, Wake, CheckItems, Notify, Pending, thread
  <2>4. QED
    BY <2>1, <2>2, <2>3
<1>3. QED
  BY <1>1, <1>2, Unseen

LEMMA TickImplements ==
  ASSUME Inv, Tick
  PROVE  Delayed!Next
<1>1. /\ UNCHANGED <<alive, items, toRemove>> /\ out' = <<>>
      /\ launches' = Aged(launches) /\ toAdd' = Aged(toAdd)
  BY DEF Tick, Quiet
<1>2. /\ launches \in Seq(Launches) /\ Distinct(launches)
      /\ toAdd \in Seq(Launches) /\ Distinct(toAdd)
  BY DEF Inv, TypeInv, OwnInv
<1>3. ToSet(launches') = {Older(l) : l \in ToSet(launches)}
  BY <1>1, <1>2, AgedFacts
<1>4. ToSet(toAdd') = {Older(l) : l \in ToSet(toAdd)}
  BY <1>1, <1>2, AgedFacts
<1>5. \A l \in ToSet(launches) \union ToSet(toAdd) :
        /\ Older(l).id = l.id
        /\ View(Older(l)) = [View(l) EXCEPT !.age = IF @ < Oldest THEN @ + 1 ELSE @]
  <2>1. \A l \in ToSet(launches) \union ToSet(toAdd) : l \in Launches
    BY <1>2, Elements
  <2>2. ASSUME NEW l \in Launches
        PROVE  View(Older(l)) = [View(l) EXCEPT !.age = IF @ < Oldest THEN @ + 1 ELSE @]
    <3>1. /\ Older(l).id = l.id /\ Older(l).m = l.m /\ Older(l).next = l.next
          /\ Older(l).age = IF l.age < Oldest THEN l.age + 1 ELSE l.age
      BY OlderFields
    <3>2. QED
      BY <3>1 DEF View
  <2>3. QED
    BY <2>1, <2>2, OlderFields
<1>6. Pending' = {Older(l) : l \in Pending}
  BY <1>1, <1>3, <1>4, <1>5 DEF Pending
<1>7. Live' = {[v EXCEPT !.age = IF @ < Oldest THEN @ + 1 ELSE @] : v \in Live}
  <2>1. Live' = {View(l) : l \in Pending'}
    BY DEF Live, View
  <2>2. Pending \subseteq ToSet(launches) \union ToSet(toAdd)
    BY PendingFacts
  <2>3. QED
    BY <1>5, <1>6, <2>1, <2>2 DEF Live
<1>8. Delayed!Elapse
  BY <1>1, <1>7 DEF Delayed!Elapse, Live, View
<1>9. QED
  BY <1>8 DEF Delayed!Next

LEMMA RemoveItemImplements ==
  ASSUME NEW m \in Managers, NEW i \in 1..Len(items[m]), RemoveItem(m, i)
  PROVE  Delayed!Next
<1>1. /\ UNCHANGED <<alive, launches, toAdd, toRemove>> /\ out' = <<>>
      /\ items' = [items EXCEPT ![m] = SubSeq(@, 1, i - 1) \o SubSeq(@, i + 1, Len(@))]
  BY DEF RemoveItem, RemoveAt, Quiet
<1>2. UNCHANGED Pending
  BY <1>1 DEF Pending
<1>3. Delayed!Edit(m)
  BY <1>1, <1>2 DEF Delayed!Edit
<1>4. QED
  BY <1>3 DEF Delayed!Next

LEMMA DestroyImplements ==
  ASSUME Inv, NEW m \in Managers, DestroyManager(m)
  PROVE  Delayed!Next
<1>1. UNCHANGED <<items, launches>> /\ alive' = alive \ {m} /\ out' = <<>>
  BY DEF DestroyManager, Quiet
<1>2. Pending' = {l \in Pending : l.m # m}
  BY <1>1, CancelledLists DEF DestroyManager
<1>3. Live' = {l \in Live : l.m # m}
  BY <1>2, Forgotten
<1>4. Delayed!Destroy(m)
  BY <1>1, <1>3 DEF Delayed!Destroy, Live, View
<1>5. QED
  BY <1>4 DEF Delayed!Next

\* What the item at i of the launch v starts.
More(v, i) ==
  LET m == Calls[items[v.m][i]]
  IN  IF m \in alive /\ items[m] # <<>> THEN {{Delayed!New(id, m)} : id \in Delayed!Unused} ELSE {{}}
Onward(v, i) == {[v EXCEPT !.next = i + 1]}

LEMMA FiresImplements ==
  ASSUME NEW v \in Live, Delayed!Left(v) # {}, v.age >= Delayed!Due(v),
         NEW i, i = (CHOOSE j \in Delayed!Left(v) : \A k \in Delayed!Left(v) : j <= k),
         Calls[items[v.m][i]] \notin Kill, out' = <<v.id, items[v.m][i]>>,
         NEW more \in More(v, i), Live' = (Live \ {v}) \union more \union Onward(v, i),
         UNCHANGED <<alive, items>>
  PROVE  Delayed!Next
<1>1. Delayed!Fire(v)
  <2> DEFINE m == Calls[items[v.m][i]]
             gone == {k \in Live : m \in Kill \intersect alive /\ k.m = m}
  <2>1. gone = {}
    OBVIOUS
  <2>2. Live' = (Live \ ({v} \union gone)) \union more
                  \union IF v \in gone THEN {} ELSE Onward(v, i)
    BY <2>1
  <2>3. QED
    BY <2>2 DEF Delayed!Fire, More, Onward, Live, View
<1>2. \E l \in Live : Delayed!Fire(l)
  BY <1>1
<1>3. QED
  BY <1>2 DEF Delayed!Next, Live, View

\* What is pending after an item has been fired.
LEMMA FiredPending ==
  ASSUME Inv, TimeInv, Promised, FireLaunch
  PROVE  Pending' = (Pending \ {Current})
           \union ({[Current EXCEPT !.next = At + 1]}
                     \union IF Starts THEN {New(Callee)} ELSE {})
<1>1. pc = "fire" /\ Current.next <= Len(List) /\ pos <= Len(launches)
  BY DEF FireLaunch, TimeInv, Inv, TypeInv
<1>2. Current \in Pending /\ Current.id \in IdsOf(launches) /\ Current \in Launches
      /\ Current \in ToSet(launches)
  BY <1>1, CurrentIsPending, CurrentFacts DEF Locked
<1>3. Spared = toAdd /\ Cancelled = {}
  BY <1>1, NothingKilled
<1>4. /\ ToSet(launches') = (ToSet(launches) \ {Current}) \union {[Current EXCEPT !.next = At + 1]}
      /\ toRemove' = toRemove
      /\ ToSet(toAdd') = ToSet(toAdd) \union IF Starts THEN {New(Callee)} ELSE {}
  BY <1>1, <1>3, FiredLists
<1> DEFINE x == [Current EXCEPT !.next = At + 1]
<1>5. x.id = Current.id
  <2>1. At + 1 \in Nat \ {0}
    BY <1>1, AtFacts
  <2>2. x = [id |-> Current.id, m |-> Current.m, start |-> Current.start,
             next |-> At + 1, age |-> Current.age]
    BY <1>2, <2>1, NextUpdated
  <2> HIDE DEF x
  <2>3. QED
    BY <2>2
<1>6. ToSet(launches') = (ToSet(launches) \ {Current}) \union {x}
  BY <1>4
<1> HIDE DEF x
<1>7. Current.id \notin toRemove
  <2>1. Current \notin ToSet(toAdd)
    BY <1>2 DEF Inv, OwnInv, IdsOf
  <2>2. QED
    BY <1>2, <2>1 DEF Pending
<1>8. \A l \in ToSet(launches) : l.id = Current.id => l = Current
  BY <1>2, DistinctElements DEF Inv, TypeInv, OwnInv
<1>9. \A l \in ToSet(toAdd) : l # Current
  BY <1>2 DEF Inv, OwnInv, IdsOf
<1>10. {l \in ToSet(launches') : l.id \notin toRemove'}
         = ({l \in ToSet(launches) : l.id \notin toRemove} \ {Current})
             \union {x}
  BY <1>4, <1>5, <1>6, <1>7, <1>8
<1>11. Pending' = {l \in ToSet(launches') : l.id \notin toRemove'} \union ToSet(toAdd')
  BY DEF Pending
<1>12. QED
  BY <1>4, <1>9, <1>10, <1>11 DEF Pending, x

LEMMA FireImplements ==
  ASSUME Inv, TimeInv, Promised, FireLaunch
  PROVE  Delayed!Next
<1>1. /\ UNCHANGED <<alive, items>> /\ pc = "fire" /\ pos <= Len(launches)
      /\ Current.next <= Len(List) /\ Current.age >= Due(Current)
  BY DEF FireLaunch, TimeInv, Inv, TypeInv
<1>2. FireEnabled
  <2>1. Current.next \in Nat /\ Len(List) \in Nat
    BY <1>1, CurrentFacts
  <2>2. ~(Current.next > Len(List))
    BY <1>1, <2>1
  <2>3. QED
    BY <2>2 DEF FireLaunch
<1>3. Current \in Pending /\ Current \in Launches
  BY <1>1, CurrentIsPending, CurrentFacts DEF Locked
<1> DEFINE x == [Current EXCEPT !.next = At + 1]
           N == {x} \union IF Starts THEN {New(Callee)} ELSE {}
<1>4. Pending' = (Pending \ {Current}) \union N
  BY FiredPending
<1> HIDE DEF N
<1>5. View(Current) \in Live /\ Live' = (Live \ {View(Current)}) \union {View(l) : l \in N}
  BY <1>3, <1>4, Replacement
<1>6. PICK v \in Live : v = View(Current)
  BY <1>5
<1>7. /\ v.id = Current.id /\ v.m = Current.m /\ v.next = Current.next /\ v.age = Current.age
  BY <1>6 DEF View
<1>8. Delayed!Left(v) = On
  BY <1>7 DEF Delayed!Left, On, List
<1>9. Delayed!Due(v) = Due(Current)
  <2>1. \A S : Delayed!Cardinality(S) = Cardinality(S)
    BY DEF Delayed!Cardinality, Cardinality
  <2>2. QED
    BY <1>7, <2>1 DEF Delayed!Due, Due, Rank
<1>10. View(x) = [v EXCEPT !.next = At + 1]
  <2>1. At + 1 \in Nat \ {0}
    BY <1>1, AtFacts
  <2>2. x = [id |-> Current.id, m |-> Current.m, start |-> Current.start,
             next |-> At + 1, age |-> Current.age]
    BY <1>3, <2>1, NextUpdated
  <2> HIDE DEF x
  <2>3. QED
    BY <1>6, <2>2 DEF View
<1> HIDE DEF x
<1>11. CASE On = {}
  <2>1. At = Len(List) /\ ~Starts
    BY <1>11, ConstantsAssumption DEF At, Starts, Callee, Inv, TypeInv
  <2>2. N = {x}
    BY <2>1 DEF N
  <2>3. Live' = (Live \ {v}) \union {[v EXCEPT !.next = Len(items[v.m]) + 1]}
    BY <1>5, <1>6, <1>7, <1>10, <2>1, <2>2 DEF List
  <2>4. out' = <<>>
    BY <1>2, <1>11, FireParts
  <2>5. Delayed!PassOver(v)
    BY <1>1, <1>8, <1>11, <2>3, <2>4 DEF Delayed!PassOver, Live, View
  <2>6. QED
    BY <2>5, LastImplements
<1>12. CASE On # {}
  <2>1. PICK i : i = At
    OBVIOUS
  <2>2. i = CHOOSE j \in Delayed!Left(v) : \A k \in Delayed!Left(v) : j <= k
    BY <1>8, <1>12, <2>1 DEF At
  <2>3. Calls[items[v.m][i]] = Callee /\ items[v.m][i] = List[At]
    BY <1>7, <1>12, <2>1 DEF Callee, List
  <2>4. Callee \notin Kill
    <3>1. List[At] \in Items
      BY <1>1, <1>12, AtFacts
    <3>2. QED
      BY <1>12, <3>1 DEF Callee, Promised
  <2>5. out' = <<v.id, items[v.m][i]>>
    BY <1>2, <1>7, <1>12, <2>3, FireParts
  <2>6. {View(l) : l \in {x}} = Onward(v, i)
    BY <1>10, <2>1 DEF Onward
  <2> DEFINE more == {View(l) : l \in IF Starts THEN {New(Callee)} ELSE {}}
  <2>7. more \in More(v, i)
    <3>1. CASE Starts
      <4>1. /\ New(Callee).id \in Ids \ Used
            /\ New(Callee) = [id |-> New(Callee).id, m |-> Callee, start |-> now,
                              next |-> 1, age |-> 0]
        BY <1>1, <3>1, FiredLists
      <4>2. View(New(Callee)) = Delayed!New(New(Callee).id, Callee)
        BY <4>1 DEF View, Delayed!New
      <4>3. New(Callee).id \in Delayed!Unused
        BY <4>1, LiveFacts, PendingFacts
      <4>4. more = {Delayed!New(New(Callee).id, Callee)}
        BY <3>1, <4>2
      <4> HIDE DEF more
      <4>5. QED
        BY <2>3, <3>1, <4>3, <4>4 DEF More, Starts
    <3>2. CASE ~Starts
      <4>1. more = {}
        BY <3>2
      <4> HIDE DEF more
      <4>2. QED
        BY <2>3, <3>2, <4>1 DEF More, Starts
    <3>3. QED
      BY <3>1, <3>2
  <2>8. Live' = (Live \ {v}) \union more \union Onward(v, i)
    <3>1. {View(l) : l \in N} = more \union {View(l) : l \in {x}}
      BY DEF N
    <3> HIDE DEF more
    <3>2. QED
      BY <1>5, <1>6, <2>6, <3>1
  <2> HIDE DEF more
  <2>9. PICK new \in More(v, i) : new = more
    BY <2>7
  <2>10. QED
    BY <1>1, <1>8, <1>9, <1>7, <1>12, <2>2, <2>3, <2>4, <2>5, <2>8, <2>9, FiresImplements
<1>13. QED
  BY <1>11, <1>12

LEMMA InitImplements ==
  Init => Delayed!Init
<1> SUFFICES ASSUME Init PROVE Delayed!Init
  OBVIOUS
<1>1. Pending = {}
  BY ShortElements DEF Init, Pending
<1>2. items \in [Managers -> Seq(DOMAIN Calls)]
  BY ConstantsAssumption DEF Init
<1>3. QED
  BY <1>1, <1>2 DEF Init, Delayed!Init

LEMMA StepImplements ==
  Promised /\ Inv /\ TimeInv /\ [Next]_vars => [Delayed!Next]_(Delayed!vars)
<1>1. ASSUME UNCHANGED vars PROVE UNCHANGED Delayed!vars
  BY <1>1 DEF vars, Delayed!vars, Pending
<1>2. QED
  BY <1>1, TriggerImplements, AddImplements, QuietImplements, FinishImplements, FireImplements,
     TickImplements, RemoveItemImplements, DestroyImplements DEF Next, Launcher

\* The thread, its two lists, its marks and its 32-bit counter implement the
\* delayed consequences: each item is fired in order, never before it is due though
\* the counter wraps, once, and never after its launch was cancelled, for any
\* managers, delays below the wrap and threads (ConsequenceStaggerLauncher::run,
\* processLaunch).  Two hypotheses are about the code: an item may not go between
\* the two looks the launcher takes at its list (InList), and no item cancels the
\* launches of a manager (a launch marked within a pass still fires in it): without
\* them it is not so.
THEOREM PromiseKept ==
  ASSUME Promised
  PROVE  Spec => Promise
<1>1. Init => Delayed!Init
  BY InitImplements
<1>2. Inv /\ TimeInv /\ [Next]_vars => [Delayed!Next]_(Delayed!vars)
  BY StepImplements
<1>3. Inv /\ TimeInv /\ [Next]_vars => TimeInv'
  BY TimeNext
<1>4. Spec => []TimeInv
  BY <1>3, TimeInit, InvAlways, PTL DEF Spec
<1>5. QED
  BY <1>1, <1>2, <1>4, InvAlways, PTL DEF Spec, Promise, Delayed!Spec
=============================================================================
