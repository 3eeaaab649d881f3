--------------------------- MODULE Mapping_proofs ---------------------------
(***************************************************************************)
(* Proofs about mappings, for any number of threads, filters and edits:    *)
(* the chain is whole while it is processed, its flags come down and no    *)
(* filter is deleted in use.                                               *)
(***************************************************************************)
EXTENDS Mapping, SequenceFacts_proofs

-----------------------------------------------------------------------------
\* What a thread still has to do says which calls it is in.  Some steps are only
\* ever the next one; inside a rebuild and inside a process only some may be left.
HeadOnly == {"lock", "filters", "walk", "send", "rebuild", "enter", "serve"}
WhileBuilding == {"build", "check", "stop", "join"}
WhileProcessing == {"walk", "send", "enter", "parameter", "notify", "notifyAfter",
                    "processAll", "leave", "ask", "askAfter", "pend", "flag"}

\* Step a may come before step b.
Fits(a, b) ==
  /\ b \notin HeadOnly
  /\ b = "built" => a \in WhileBuilding
  /\ b = "unlock" => a \in WhileProcessing
Nested(s) == \A i, j \in 1..Len(s) : i < j => Fits(s[i], s[j])

\* The steps that release a lock.  "leave" and "served" have nothing to release
\* until "enter" and "serve" are done.
Releasing == {"built", "filters", "unlock", "free", "leave"}
ReleasingFilters == {"unlock", "free", "served"}
Entering(s) == IF s # <<>> /\ Head(s) = "enter" THEN 1 ELSE 0
Serving(s) == IF s # <<>> /\ Head(s) = "serve" THEN 1 ELSE 0
Entries(s) == Count(s, Releasing) - Entering(s)
FilterEntries(s) == Count(s, ReleasingFilters) - Serving(s)

-----------------------------------------------------------------------------
\* A call takes its next step off, and puts others in its place.
Onto(s, new) == new \o Tail(s)

LEMMA OntoFacts ==
  ASSUME NEW s \in Seq(Steps), s # <<>>, NEW new \in Seq(Steps), Nested(s), Nested(new),
         \A a \in ToSet(new), b \in ToSet(Tail(s)) : Fits(a, b)
  PROVE  /\ Onto(s, new) \in Seq(Steps) /\ Nested(Onto(s, new))
         /\ ToSet(Onto(s, new)) = ToSet(new) \union ToSet(Tail(s))
         /\ ToSet(s) = {Head(s)} \union ToSet(Tail(s))
         /\ \A b \in ToSet(Tail(s)) : Fits(Head(s), b)
         /\ new # <<>> => Onto(s, new) # <<>> /\ Head(Onto(s, new)) = Head(new)
         /\ new = <<>> /\ Onto(s, new) # <<>> => Head(Onto(s, new)) \notin HeadOnly
<1>1. /\ Len(s) \in Nat \ {0} /\ Head(s) = s[1] /\ Tail(s) \in Seq(Steps)
      /\ Len(Tail(s)) = Len(s) - 1 /\ \A i \in 1..Len(Tail(s)) : Tail(s)[i] = s[i + 1]
      /\ ToSet(s) = {Head(s)} \union ToSet(Tail(s))
  BY HeadElements, HeadTailProperties
<1>2. /\ Onto(s, new) \in Seq(Steps)
      /\ ToSet(Onto(s, new)) = ToSet(new) \union ToSet(Tail(s))
  BY <1>1, ConcatElements DEF Onto
<1>3. /\ Len(Onto(s, new)) = Len(new) + Len(Tail(s)) /\ Len(new) \in Nat /\ Len(Tail(s)) \in Nat
      /\ \A i \in 1..(Len(new) + Len(Tail(s))) :
           Onto(s, new)[i] = IF i <= Len(new) THEN new[i] ELSE Tail(s)[i - Len(new)]
  BY <1>1, ConcatProperties DEF Onto
<1>4. \A b \in ToSet(Tail(s)) : \E k \in 2..Len(s) : s[k] = b
  <2>1. SUFFICES ASSUME NEW b \in ToSet(Tail(s)) PROVE \E k \in 2..Len(s) : s[k] = b
    OBVIOUS
  <2>2. PICK i \in 1..Len(Tail(s)) : Tail(s)[i] = b
    BY <1>1, Elements
  <2>3. i + 1 \in 2..Len(s) /\ s[i + 1] = b
    BY <1>1, <2>2
  <2>4. QED
    BY <2>3
<1>5. \A b \in ToSet(Tail(s)) : Fits(Head(s), b)
  <2>1. SUFFICES ASSUME NEW b \in ToSet(Tail(s)) PROVE Fits(Head(s), b)
    OBVIOUS
  <2>2. PICK k \in 2..Len(s) : s[k] = b
    BY <1>4
  <2>3. 1 \in 1..Len(s) /\ k \in 1..Len(s) /\ 1 < k
    BY <1>1
  <2>4. QED
    BY <1>1, <2>2, <2>3 DEF Nested
<1>6. Nested(Onto(s, new))
  <2>1. SUFFICES ASSUME NEW i \in 1..Len(Onto(s, new)), NEW j \in 1..Len(Onto(s, new)), i < j
                 PROVE  Fits(Onto(s, new)[i], Onto(s, new)[j])
    BY DEF Nested
  <2>2. CASE j <= Len(new)
    <3>1. i \in 1..Len(new) /\ j \in 1..Len(new)
          /\ Onto(s, new)[i] = new[i] /\ Onto(s, new)[j] = new[j]
      BY <1>3, <2>1, <2>2
    <3>2. QED
      BY <2>1, <3>1 DEF Nested
  <2>3. CASE i <= Len(new) /\ j > Len(new)
    <3>1. i \in 1..Len(new) /\ j - Len(new) \in 1..Len(Tail(s))
          /\ Onto(s, new)[i] = new[i] /\ Onto(s, new)[j] = Tail(s)[j - Len(new)]
      BY <1>3, <2>1, <2>3
    <3>2. new[i] \in ToSet(new)
      BY <3>1, Elements
    <3>3. \A k \in 1..Len(Tail(s)) : Tail(s)[k] \in ToSet(Tail(s))
      BY <1>1, Elements
    <3>4. Tail(s)[j - Len(new)] \in ToSet(Tail(s))
      BY <3>1, <3>3
    <3>5. QED
      BY <3>1, <3>2, <3>4
  <2>4. CASE i > Len(new)
    <3>1. i - Len(new) \in 1..Len(Tail(s)) /\ j - Len(new) \in 1..Len(Tail(s))
          /\ Onto(s, new)[i] = Tail(s)[i - Len(new)] /\ Onto(s, new)[j] = Tail(s)[j - Len(new)]
      BY <1>3, <2>1, <2>4
    <3>2. /\ i - Len(new) + 1 \in 1..Len(s) /\ j - Len(new) + 1 \in 1..Len(s)
          /\ i - Len(new) + 1 < j - Len(new) + 1
      BY <1>1, <1>3, <2>1, <3>1
    <3>3. QED
      BY <1>1, <3>1, <3>2 DEF Nested
  <2>5. QED
    BY <1>3, <2>1, <2>2, <2>3, <2>4
<1>7. ASSUME new # <<>> PROVE Onto(s, new) # <<>> /\ Head(Onto(s, new)) = Head(new)
  <2>1. Len(new) \in Nat \ {0} /\ Head(new) = new[1]
    BY <1>7, HeadElements
  <2>2. Onto(s, new) # <<>> /\ Onto(s, new)[1] = new[1]
    BY <1>3, <2>1
  <2>3. QED
    BY <1>2, <2>1, <2>2, HeadElements
<1>8. ASSUME new = <<>>, Onto(s, new) # <<>> PROVE Head(Onto(s, new)) \notin HeadOnly
  <2>1. Head(Onto(s, new)) \in ToSet(Tail(s))
    <3>1. ToSet(<<>>) = {}
      BY ShortElements
    <3>2. Head(Onto(s, new)) \in ToSet(Onto(s, new))
      BY <1>2, <1>8, HeadElements
    <3>3. QED
      BY <1>2, <1>8, <3>1, <3>2
  <2>2. QED
    BY <1>5, <2>1 DEF Fits
<1>9. QED
  BY <1>1, <1>2, <1>5, <1>6, <1>7, <1>8

\* How many times the locks are held, once the step is taken.
LEMMA OntoEntries ==
  ASSUME NEW s \in Seq(Steps), s # <<>>, NEW new \in Seq(Steps), Nested(s), Nested(new),
         \A a \in ToSet(new), b \in ToSet(Tail(s)) : Fits(a, b)
  PROVE  /\ Entries(Onto(s, new))
              = Entries(s) + Entries(new) - One(Head(s), Releasing) + Entering(s)
         /\ FilterEntries(Onto(s, new))
              = FilterEntries(s) + FilterEntries(new) - One(Head(s), ReleasingFilters) + Serving(s)
         /\ Entries(s) \in Int /\ FilterEntries(s) \in Int
         /\ Entries(new) \in Int /\ FilterEntries(new) \in Int
<1> DEFINE r == Onto(s, new)
<1>1. /\ Count(r, Releasing) = Count(new, Releasing) + Count(s, Releasing) - One(Head(s), Releasing)
      /\ Count(r, ReleasingFilters) = Count(new, ReleasingFilters) + Count(s, ReleasingFilters)
                                        - One(Head(s), ReleasingFilters)
  BY CountReplaced DEF Onto
<1>2. Entering(r) = Entering(new) /\ Serving(r) = Serving(new)
  BY OntoFacts DEF Entering, Serving, HeadOnly
<1>3. /\ Count(new, Releasing) \in Nat /\ Count(s, Releasing) \in Nat
      /\ Count(new, ReleasingFilters) \in Nat /\ Count(s, ReleasingFilters) \in Nat
  BY CountType
<1>4. /\ One(Head(s), Releasing) \in Nat /\ One(Head(s), ReleasingFilters) \in Nat
      /\ Entering(s) \in Nat /\ Entering(new) \in Nat /\ Serving(s) \in Nat /\ Serving(new) \in Nat
  BY DEF One, Entering, Serving
<1> HIDE DEF r
<1>5. /\ Entries(r) = Count(r, Releasing) - Entering(r)
      /\ Entries(s) = Count(s, Releasing) - Entering(s)
      /\ Entries(new) = Count(new, Releasing) - Entering(new)
  BY DEF Entries
<1>6. /\ FilterEntries(r) = Count(r, ReleasingFilters) - Serving(r)
      /\ FilterEntries(s) = Count(s, ReleasingFilters) - Serving(s)
      /\ FilterEntries(new) = Count(new, ReleasingFilters) - Serving(new)
  BY DEF FilterEntries
<1> DEFINE one == One(Head(s), Releasing)
           two == One(Head(s), ReleasingFilters)
<1> HIDE DEF one, two
<1>7. one \in Nat /\ two \in Nat
  BY <1>4 DEF one, two
<1>8. /\ Count(r, Releasing) = Count(new, Releasing) + Count(s, Releasing) - one
      /\ Count(r, ReleasingFilters) = Count(new, ReleasingFilters) + Count(s, ReleasingFilters) - two
  BY <1>1 DEF one, two
<1>9. Entries(r) = Entries(s) + Entries(new) - one + Entering(s)
  BY <1>2, <1>3, <1>4, <1>5, <1>7, <1>8, SMTT(30)
<1>10. FilterEntries(r) = FilterEntries(s) + FilterEntries(new) - two + Serving(s)
  BY <1>2, <1>3, <1>4, <1>6, <1>7, <1>8, SMTT(30)
<1>11. /\ Entries(s) \in Int /\ FilterEntries(s) \in Int
       /\ Entries(new) \in Int /\ FilterEntries(new) \in Int
  BY <1>3, <1>4, <1>5, <1>6
<1>12. QED
  BY <1>9, <1>10, <1>11 DEF r, one, two

-----------------------------------------------------------------------------
\* What the next step is to release.
Entered(h) == One(h, Releasing) - IF h = "enter" THEN 1 ELSE 0
Served(h) == One(h, ReleasingFilters) - IF h = "serve" THEN 1 ELSE 0

\* A list of steps, those in it, and how many times it releases the locks.
Listed(new, T, e, f) ==
  /\ new \in Seq(Steps) /\ Nested(new) /\ ToSet(new) = T
  /\ Entries(new) = e /\ FilterEntries(new) = f

LEMMA ListedNone ==
  Listed(<<>>, {}, 0, 0)
<1>1. Count(<<>>, Releasing) = 0 /\ Count(<<>>, ReleasingFilters) = 0
  BY CountOne
<1>2. ToSet(<<>>) = {}
  BY ShortElements
<1>3. <<>> \in Seq(Steps) /\ Nested(<<>>) /\ Entering(<<>>) = 0 /\ Serving(<<>>) = 0
  BY DEF Nested, Entering, Serving
<1>4. QED
  BY <1>1, <1>2, <1>3 DEF Listed, Entries, FilterEntries

LEMMA ListedOne ==
  ASSUME NEW a \in Steps
  PROVE  Listed(<<a>>, {a}, Entered(a), Served(a))
<1>1. /\ Count(<<a>>, Releasing) = One(a, Releasing)
      /\ Count(<<a>>, ReleasingFilters) = One(a, ReleasingFilters)
  BY CountOne
<1>2. ToSet(<<a>>) = {a} /\ <<a>> \in Seq(Steps)
  BY ShortElements, Tuples
<1>3. /\ Entering(<<a>>) = (IF a = "enter" THEN 1 ELSE 0)
      /\ Serving(<<a>>) = (IF a = "serve" THEN 1 ELSE 0)
  BY DEF Entering, Serving
<1>4. Nested(<<a>>)
  BY DEF Nested
<1>5. QED
  BY <1>1, <1>2, <1>3, <1>4 DEF Listed, Entries, FilterEntries, Entered, Served

LEMMA ListedTwo ==
  ASSUME NEW a \in Steps, NEW b \in Steps, Fits(a, b)
  PROVE  Listed(<<a, b>>, {a, b}, Entered(a) + One(b, Releasing),
                                  Served(a) + One(b, ReleasingFilters))
<1>1. /\ Count(<<a, b>>, Releasing) = One(a, Releasing) + One(b, Releasing)
      /\ Count(<<a, b>>, ReleasingFilters) = One(a, ReleasingFilters) + One(b, ReleasingFilters)
  BY CountTwo
<1>2. ToSet(<<a, b>>) = {a, b} /\ <<a, b>> \in Seq(Steps)
  BY ShortElements, Tuples
<1>3. /\ Entering(<<a, b>>) = (IF a = "enter" THEN 1 ELSE 0)
      /\ Serving(<<a, b>>) = (IF a = "serve" THEN 1 ELSE 0)
  BY DEF Entering, Serving
<1>4. Nested(<<a, b>>)
  BY DEF Nested
<1>5. \A x, A : One(x, A) \in Nat
  BY DEF One
<1>6. Entries(<<a, b>>) = Entered(a) + One(b, Releasing)
  BY <1>1, <1>3, <1>5 DEF Entries, Entered
<1>7. FilterEntries(<<a, b>>) = Served(a) + One(b, ReleasingFilters)
  BY <1>1, <1>3, <1>5 DEF FilterEntries, Served
<1>8. QED
  BY <1>2, <1>4, <1>6, <1>7 DEF Listed

LEMMA ListedThree ==
  ASSUME NEW a \in Steps, NEW b \in Steps, NEW c \in Steps, Fits(a, b), Fits(a, c), Fits(b, c)
  PROVE  Listed(<<a, b, c>>, {a, b, c},
                Entered(a) + One(b, Releasing) + One(c, Releasing),
                Served(a) + One(b, ReleasingFilters) + One(c, ReleasingFilters))
<1>1. /\ Count(<<a, b, c>>, Releasing) = One(a, Releasing) + One(b, Releasing) + One(c, Releasing)
      /\ Count(<<a, b, c>>, ReleasingFilters)
           = One(a, ReleasingFilters) + One(b, ReleasingFilters) + One(c, ReleasingFilters)
  BY CountThree
<1>2. ToSet(<<a, b, c>>) = {a, b, c} /\ <<a, b, c>> \in Seq(Steps)
  BY ShortElements, Tuples
<1>3. /\ Entering(<<a, b, c>>) = (IF a = "enter" THEN 1 ELSE 0)
      /\ Serving(<<a, b, c>>) = (IF a = "serve" THEN 1 ELSE 0)
  BY DEF Entering, Serving
<1>4. Nested(<<a, b, c>>)
  BY DEF Nested
<1>5. \A x, A : One(x, A) \in Nat
  BY DEF One
<1>6. Entries(<<a, b, c>>) = Entered(a) + One(b, Releasing) + One(c, Releasing)
  BY <1>1, <1>3, <1>5 DEF Entries, Entered
<1>7. FilterEntries(<<a, b, c>>)
        = Served(a) + One(b, ReleasingFilters) + One(c, ReleasingFilters)
  BY <1>1, <1>3, <1>5 DEF FilterEntries, Served
<1>8. QED
  BY <1>2, <1>4, <1>6, <1>7 DEF Listed

LEMMA SomeSteps ==
  /\ {"enter", "parameter", "notify", "notifyAfter", "processAll", "leave"} \subseteq Steps
  /\ {"serve", "served", "delete"} \subseteq Steps
BY DEF Steps

LEMMA ListedParameterEdit ==
  Listed(ParameterEdit, {"enter", "parameter", "notifyAfter", "processAll", "leave"}, 0, 0)
<1> DEFINE p == <<"enter", "parameter", "notifyAfter", "processAll", "leave">>
<1>1. Count(p, Releasing) = One("enter", Releasing) + One("parameter", Releasing)
        + One("notifyAfter", Releasing) + One("processAll", Releasing) + One("leave", Releasing)
  BY SomeSteps, CountFive
<1>2. Count(p, ReleasingFilters) = One("enter", ReleasingFilters)
        + One("parameter", ReleasingFilters) + One("notifyAfter", ReleasingFilters)
        + One("processAll", ReleasingFilters) + One("leave", ReleasingFilters)
  BY SomeSteps, CountFive
<1>3. Count(p, Releasing) = 1 /\ Count(p, ReleasingFilters) = 0
  BY <1>1, <1>2 DEF One, Releasing, ReleasingFilters
<1>4. p \in Seq(Steps) /\ Entering(p) = 1 /\ Serving(p) = 0
  <2>1. p \in Seq(Steps)
    BY SomeSteps, Tuples
  <2>2. p # <<>> /\ Head(p) = "enter"
    OBVIOUS
  <2>3. QED
    BY <2>1, <2>2 DEF Entering, Serving
<1>5. Len(p) = 5 /\ p[1] = "enter" /\ p[2] = "parameter" /\ p[3] = "notifyAfter"
      /\ p[4] = "processAll" /\ p[5] = "leave"
  OBVIOUS
<1> HIDE DEF p
<1>6. \A i \in 1..Len(p) : i \in {1, 2, 3, 4, 5}
  BY <1>5
<1>7. ToSet(p) = {"enter", "parameter", "notifyAfter", "processAll", "leave"}
  <2>1. \A x : x \in ToSet(p) <=> \E i \in 1..Len(p) : p[i] = x
    BY <1>4, Elements
  <2>2. 1 \in 1..Len(p) /\ 2 \in 1..Len(p) /\ 3 \in 1..Len(p) /\ 4 \in 1..Len(p) /\ 5 \in 1..Len(p)
    BY <1>5
  <2>3. QED
    BY <1>5, <1>6, <2>1, <2>2
<1>8. Nested(p)
  <2>1. SUFFICES ASSUME NEW i \in 1..Len(p), NEW j \in 1..Len(p), i < j PROVE Fits(p[i], p[j])
    BY DEF Nested
  <2>2. j \in {2, 3, 4, 5}
    BY <1>6, <2>1
  <2>3. p[j] \in {"parameter", "notifyAfter", "processAll", "leave"}
    BY <1>5, <2>2
  <2>4. QED
    BY <2>3 DEF Fits, HeadOnly
<1>9. QED
  BY <1>3, <1>4, <1>7, <1>8 DEF Listed, Entries, FilterEntries, ParameterEdit, p

LEMMA ListedRemoval ==
  Listed(FilterEdit \o <<"delete">>, {"serve", "served", "notify", "delete"}, 0, 0)
<1> DEFINE p == <<"serve", "served", "notify", "delete">>
<1>1. Count(p, Releasing) = One("serve", Releasing) + One("served", Releasing)
        + One("notify", Releasing) + One("delete", Releasing)
  BY SomeSteps, CountFour
<1>2. Count(p, ReleasingFilters) = One("serve", ReleasingFilters)
        + One("served", ReleasingFilters) + One("notify", ReleasingFilters)
        + One("delete", ReleasingFilters)
  BY SomeSteps, CountFour
<1>3. Count(p, Releasing) = 0 /\ Count(p, ReleasingFilters) = 1
  BY <1>1, <1>2 DEF One, Releasing, ReleasingFilters
<1>4. p \in Seq(Steps) /\ Entering(p) = 0 /\ Serving(p) = 1
  <2>1. p \in Seq(Steps)
    BY SomeSteps, Tuples
  <2>2. p # <<>> /\ Head(p) = "serve"
    OBVIOUS
  <2>3. QED
    BY <2>1, <2>2 DEF Entering, Serving
<1>5. Len(p) = 4 /\ p[1] = "serve" /\ p[2] = "served" /\ p[3] = "notify" /\ p[4] = "delete"
  OBVIOUS
<1>6. FilterEdit \o <<"delete">> = p
  <2>1. FilterEdit \in Seq(Steps) /\ FilterEdit = <<"serve", "served", "notify">>
    BY SomeSteps, Tuples DEF FilterEdit
  <2>2. FilterEdit \o <<"delete">> = Append(FilterEdit, "delete")
    BY <2>1, SomeSteps
  <2>3. p = Append(<<"serve", "served", "notify">>, "delete")
    OBVIOUS
  <2>4. QED
    BY <2>1, <2>2, <2>3
<1> HIDE DEF p
<1>7. \A i \in 1..Len(p) : i \in {1, 2, 3, 4}
  BY <1>5
<1>8. ToSet(p) = {"serve", "served", "notify", "delete"}
  <2>1. \A x : x \in ToSet(p) <=> \E i \in 1..Len(p) : p[i] = x
    BY <1>4, Elements
  <2>2. 1 \in 1..Len(p) /\ 2 \in 1..Len(p) /\ 3 \in 1..Len(p) /\ 4 \in 1..Len(p)
    BY <1>5
  <2>3. QED
    BY <1>5, <1>7, <2>1, <2>2
<1>9. Nested(p)
  <2>1. SUFFICES ASSUME NEW i \in 1..Len(p), NEW j \in 1..Len(p), i < j PROVE Fits(p[i], p[j])
    BY DEF Nested
  <2>2. j \in {2, 3, 4}
    BY <1>7, <2>1
  <2>3. p[j] \in {"served", "notify", "delete"}
    BY <1>5, <2>2
  <2>4. QED
    BY <2>3 DEF Fits, HeadOnly
<1>10. Listed(p, {"serve", "served", "notify", "delete"}, 0, 0)
  BY <1>3, <1>4, <1>8, <1>9 DEF Listed, Entries, FilterEntries
<1>11. QED
  BY <1>6, <1>10

-----------------------------------------------------------------------------
\* A well formed list of steps of thread t: a call that walks or sends is in a process, and
\* only the message thread adds, removes and deletes filters.
Sending(s) ==
  s # <<>> /\ Head(s) \in {"send", "walk"} => Len(s) >= 2 /\ s[2] = "unlock"
Fine(t, s) ==
  /\ s \in Seq(Steps) /\ Nested(s) /\ Sending(s)
  /\ "serve" \in ToSet(s) \/ "delete" \in ToSet(s) => t = MessageThread

Times(lock, t) == IF lock.by = t THEN lock.n ELSE 0
In(t, step) == step \in ToSet(stack[t])

ShapeInv == \A t \in Threads : Fine(t, stack[t])

\* What a thread is still to release is what it holds.
LockInv == \A t \in Threads : /\ Entries(stack[t]) = Times(mappingLock, t)
                              /\ FilterEntries(stack[t]) = Times(filterLock, t)

\* A process holds both locks to its end, and a rebuild the first.  That the steps left
\* release a lock once more than others take it does not say so: "enter" takes it again.
HoldInv == \A t \in Threads : /\ In(t, "unlock") \/ In(t, "built") => mappingLock.by = t
                              /\ In(t, "unlock") => filterLock.by = t

\* The flags are up exactly while a thread is in there.
FlagInv ==
  /\ \A t \in Threads : /\ In(t, "unlock") => flags.processing
                        /\ In(t, "built") => flags.rebuilding
  /\ flags.processing => \E t \in Threads : In(t, "unlock")
  /\ flags.rebuilding => \E t \in Threads : In(t, "built")

\* Filters are held under the lock of their list: who has waited for it may delete
\* what it had removed.
HeldInv ==
  /\ \A t \in Threads : /\ held[t].filters # {} => In(t, "unlock")
                        /\ held[t].filters \subseteq config.filters \cup removed
  /\ removed # {} => In(MessageThread, "delete")
  /\ ~In(MessageThread, "serve") => \A t \in Threads : held[t].filters \subseteq config.filters

StackInv == ShapeInv /\ LockInv /\ HoldInv /\ FlagInv /\ HeldInv
Inv == TypeOK /\ StackInv

LEMMA WithinIs ==
  ASSUME TypeOK, NEW t \in Threads, NEW step
  PROVE  Within(t, step) <=> In(t, step)
<1>1. stack[t] \in Seq(Steps)
  BY DEF TypeOK
<1>2. DOMAIN stack[t] = 1..Len(stack[t])
  BY <1>1
<1>3. QED
  BY <1>1, <1>2, Elements DEF Within, In

\* The next step of t is replaced by new.
LEMMA PutFine ==
  ASSUME NEW t \in Threads, NEW s, Fine(t, s), s # <<>>,
         NEW new, NEW T, NEW e, NEW f, Listed(new, T, e, f),
         \A a \in T, b \in ToSet(Tail(s)) : Fits(a, b),
         T \cap {"send", "walk"} # {} => Sending(Onto(s, new)),
         "serve" \notin T, "delete" \notin T
  PROVE  /\ Fine(t, Onto(s, new))
         /\ ToSet(Onto(s, new)) = T \union ToSet(Tail(s))
         /\ ToSet(s) = {Head(s)} \union ToSet(Tail(s))
         /\ \A b \in ToSet(Tail(s)) : Fits(Head(s), b)
         /\ Entries(Onto(s, new)) = Entries(s) + e - Entered(Head(s))
         /\ FilterEntries(Onto(s, new)) = FilterEntries(s) + f - Served(Head(s))
         /\ Entries(s) \in Int /\ FilterEntries(s) \in Int
<1>1. /\ s \in Seq(Steps) /\ Nested(s) /\ new \in Seq(Steps) /\ Nested(new) /\ ToSet(new) = T
      /\ Entries(new) = e /\ FilterEntries(new) = f
  BY DEF Fine, Listed
<1>2. /\ Onto(s, new) \in Seq(Steps) /\ Nested(Onto(s, new))
      /\ ToSet(Onto(s, new)) = T \union ToSet(Tail(s))
      /\ ToSet(s) = {Head(s)} \union ToSet(Tail(s))
      /\ \A b \in ToSet(Tail(s)) : Fits(Head(s), b)
      /\ new # <<>> => Onto(s, new) # <<>> /\ Head(Onto(s, new)) = Head(new)
      /\ new = <<>> /\ Onto(s, new) # <<>> => Head(Onto(s, new)) \notin HeadOnly
  BY <1>1, OntoFacts
<1>3. /\ Entries(Onto(s, new))
           = Entries(s) + Entries(new) - One(Head(s), Releasing) + Entering(s)
      /\ FilterEntries(Onto(s, new))
           = FilterEntries(s) + FilterEntries(new) - One(Head(s), ReleasingFilters) + Serving(s)
      /\ Entries(s) \in Int /\ FilterEntries(s) \in Int
      /\ Entries(new) \in Int /\ FilterEntries(new) \in Int
  BY <1>1, OntoEntries
<1>4. /\ Entered(Head(s)) = One(Head(s), Releasing) - Entering(s)
      /\ Served(Head(s)) = One(Head(s), ReleasingFilters) - Serving(s)
      /\ Entering(s) \in Int /\ Serving(s) \in Int
      /\ One(Head(s), Releasing) \in Int /\ One(Head(s), ReleasingFilters) \in Int
  BY DEF Entered, Served, Entering, Serving, One
<1>5. Entries(Onto(s, new)) = Entries(s) + e - Entered(Head(s))
  BY <1>1, <1>3, <1>4
<1>6. FilterEntries(Onto(s, new)) = FilterEntries(s) + f - Served(Head(s))
  BY <1>1, <1>3, <1>4
<1>7. Sending(Onto(s, new))
  <2>1. CASE T \cap {"send", "walk"} # {}
    BY <2>1
  <2>2. CASE T \cap {"send", "walk"} = {}
    <3>1. SUFFICES ASSUME Onto(s, new) # <<>>, Head(Onto(s, new)) \in {"send", "walk"}
                   PROVE  FALSE
      BY DEF Sending
    <3>2. new # <<>> /\ Head(new) \in {"send", "walk"}
      BY <1>2, <3>1 DEF HeadOnly
    <3>3. Head(new) \in T
      BY <1>1, <3>2, HeadElements
    <3>4. QED
      BY <2>2, <3>2, <3>3
  <2>3. QED
    BY <2>1, <2>2
<1>8. "serve" \in ToSet(Onto(s, new)) \/ "delete" \in ToSet(Onto(s, new)) => t = MessageThread
  BY <1>2 DEF Fine
<1>9. Fine(t, Onto(s, new))
  BY <1>2, <1>7, <1>8 DEF Fine
<1>10. QED
  BY <1>2, <1>3, <1>5, <1>6, <1>9

\* A step of t from s to r that neither takes nor releases a lock, and neither begins
\* nor ends a rebuild, a process or a removal.
Watched == {"unlock", "built", "delete", "serve"}
Calm(t, s, r) ==
  /\ Fine(t, r) /\ Entries(r) = Entries(s) /\ FilterEntries(r) = FilterEntries(s)
  /\ \A x \in Watched : x \in ToSet(r) <=> x \in ToSet(s)

LEMMA CalmPut ==
  ASSUME NEW t \in Threads, NEW s, Fine(t, s), s # <<>>,
         NEW new, NEW T, Listed(new, T, Entered(Head(s)), Served(Head(s))),
         \A a \in T, b \in ToSet(Tail(s)) : Fits(a, b),
         T \cap {"send", "walk"} # {} => Sending(Onto(s, new)),
         T \cap Watched = {}, Head(s) \notin Watched
  PROVE  Calm(t, s, Onto(s, new))
<1>1. "serve" \notin T /\ "delete" \notin T
  BY DEF Watched
<1>2. /\ Fine(t, Onto(s, new))
      /\ ToSet(Onto(s, new)) = T \union ToSet(Tail(s))
      /\ ToSet(s) = {Head(s)} \union ToSet(Tail(s))
      /\ Entries(Onto(s, new)) = Entries(s) + Entered(Head(s)) - Entered(Head(s))
      /\ FilterEntries(Onto(s, new)) = FilterEntries(s) + Served(Head(s)) - Served(Head(s))
      /\ Entries(s) \in Int /\ FilterEntries(s) \in Int
  BY <1>1, PutFine
<1>3. Entered(Head(s)) \in Int /\ Served(Head(s)) \in Int
  BY DEF Entered, Served, One
<1>4. Entries(Onto(s, new)) = Entries(s) /\ FilterEntries(Onto(s, new)) = FilterEntries(s)
  BY <1>2, <1>3
<1>5. QED
  BY <1>2, <1>4 DEF Calm

LEMMA CalmBegin ==
  ASSUME NEW t \in Threads, NEW new, NEW T, Listed(new, T, 0, 0),
         T \cap {"send", "walk"} = {}, T \cap Watched = {}
  PROVE  Calm(t, <<>>, new)
<1>1. new \in Seq(Steps) /\ ToSet(new) = T
  BY DEF Listed
<1>2. new # <<>> => Head(new) \in T
  BY <1>1, HeadElements
<1>3. Fine(t, new)
  BY <1>1, <1>2 DEF Listed, Fine, Sending, Watched
<1>4. ToSet(<<>>) = {} /\ Entries(<<>>) = 0 /\ FilterEntries(<<>>) = 0
  BY ListedNone DEF Listed
<1>5. QED
  BY <1>1, <1>3, <1>4 DEF Calm, Listed

LEMMA CalmSteps ==
  ASSUME StackInv, \A t \in Threads : Calm(t, stack[t], stack'[t]),
         UNCHANGED <<locks, held, removed>>, config'.filters = config.filters,
         flags'.processing = flags.processing, flags'.rebuilding = flags.rebuilding
  PROVE  StackInv'
<1>1. \A t \in Threads : Fine(t, stack'[t])
  BY DEF Calm
<1>2. ShapeInv'
  BY <1>1 DEF ShapeInv
<1>3. LockInv'
  BY DEF StackInv, LockInv, Calm, Times, locks
<1>4. \A t \in Threads, x \in Watched : In(t, x)' <=> In(t, x)
  BY DEF Calm, In
<1>5. FlagInv' /\ HoldInv'
  BY <1>4 DEF StackInv, FlagInv, HoldInv, Watched, locks
<1>6. MessageThread \in Threads
  BY DEF Threads
<1>7. HeldInv'
  BY <1>4, <1>6 DEF StackInv, HeldInv, Watched
<1>8. QED
  BY <1>2, <1>3, <1>5, <1>7 DEF StackInv

\* What is left of the calls that the locks, the flags and the filters depend on.
Unwatched ==
  /\ UNCHANGED <<locks, held, removed>>
  /\ config'.filters = config.filters
  /\ flags'.processing = flags.processing /\ flags'.rebuilding = flags.rebuilding

StackTyped == stack \in [Threads -> Seq(Steps)]

LEMMA DoIs ==
  ASSUME TypeOK, NEW t \in Threads, NEW new, Do(t, new)
  PROVE  /\ stack'[t] = Onto(stack[t], new)
         /\ \A u \in Threads : u # t => stack'[u] = stack[u]
         /\ Onto(stack[t], new) \in Seq(Steps) => StackTyped'
BY DEF TypeOK, Do, Onto, StackTyped

LEMMA CalmCall ==
  ASSUME Inv, NEW t \in Threads, stack[t] # <<>>, NEW new, NEW T, Do(t, new), Unwatched,
         Listed(new, T, Entered(Head(stack[t])), Served(Head(stack[t]))),
         \A a \in T, b \in ToSet(Tail(stack[t])) : Fits(a, b),
         T \cap {"send", "walk"} # {} => Sending(Onto(stack[t], new)),
         T \cap Watched = {}, Head(stack[t]) \notin Watched
  PROVE  StackInv' /\ StackTyped'
<1>1. Fine(t, stack[t])
  BY DEF Inv, StackInv, ShapeInv
<1>2. Calm(t, stack[t], Onto(stack[t], new))
  BY <1>1, CalmPut
<1>3. \A u \in Threads : Calm(u, stack[u], stack[u])
  BY DEF Inv, StackInv, ShapeInv, Calm
<1>4. /\ stack'[t] = Onto(stack[t], new)
      /\ \A u \in Threads : u # t => stack'[u] = stack[u]
      /\ Onto(stack[t], new) \in Seq(Steps) => StackTyped'
  BY DoIs DEF Inv
<1>5. StackTyped'
  BY <1>2, <1>4 DEF Calm, Fine
<1>6. \A u \in Threads : Calm(u, stack[u], stack'[u])
  BY <1>2, <1>3, <1>4
<1>7. StackInv'
  BY <1>6, CalmSteps DEF Inv, Unwatched
<1>8. QED
  BY <1>5, <1>7

\* What may come before the same steps as h.
Follows(h, a) ==
  /\ h \in WhileBuilding => a \in WhileBuilding
  /\ h \in WhileProcessing => a \in WhileProcessing

LEMMA FollowsFits ==
  ASSUME Inv, NEW t \in Threads, stack[t] # <<>>, NEW a, Follows(Head(stack[t]), a)
  PROVE  \A b \in ToSet(Tail(stack[t])) : Fits(a, b)
<1>1. Fine(t, stack[t])
  BY DEF Inv, StackInv, ShapeInv
<1>2. \A b \in ToSet(Tail(stack[t])) : Fits(Head(stack[t]), b)
  BY <1>1, PutFine, ListedNone
<1>3. QED
  BY <1>2 DEF Fits, Follows

\* Steps that do nothing with the locks.
Plain == Steps \ ({"send", "walk", "unlock", "built", "delete", "serve", "enter"}
                    \union Releasing \union ReleasingFilters)

LEMMA PlainFacts ==
  /\ \A a \in Plain : /\ a \in Steps /\ Entered(a) = 0 /\ Served(a) = 0 /\ a \notin Watched
                      /\ One(a, Releasing) = 0 /\ One(a, ReleasingFilters) = 0
                      /\ a \notin {"send", "walk"}
  /\ Plain = {"ask", "askAfter", "notify", "notifyAfter", "pend", "flag", "rebuild", "build",
              "again", "processAll",
              "process", "lock", "after", "loop", "check", "update", "stop", "join",
              "parameter", "changed"}
<1>1. Plain = {"ask", "askAfter", "notify", "notifyAfter", "pend", "flag", "rebuild", "build",
              "again", "processAll",
               "process", "lock", "after", "loop", "check", "update", "stop", "join",
               "parameter", "changed"}
  BY DEF Plain, Steps, Releasing, ReleasingFilters
<1>2. ASSUME NEW a \in Plain
      PROVE  /\ a \in Steps /\ a \notin Watched /\ a \notin {"send", "walk"}
             /\ a # "enter" /\ a # "serve"
             /\ a \notin Releasing /\ a \notin ReleasingFilters
  BY DEF Plain, Watched
<1>3. QED
  BY <1>1, <1>2 DEF Entered, Served, One

\* A plain step ends, or gives another.
LEMMA PopCalls ==
  ASSUME Inv, NEW t \in Threads, stack[t] # <<>>, Head(stack[t]) \in Plain,
         Do(t, <<>>), Unwatched
  PROVE  StackInv' /\ StackTyped'
<1>1. /\ Entered(Head(stack[t])) = 0 /\ Served(Head(stack[t])) = 0
      /\ Head(stack[t]) \notin Watched
  BY PlainFacts
<1>2. Listed(<<>>, {}, Entered(Head(stack[t])), Served(Head(stack[t])))
  BY <1>1, ListedNone
<1>3. {} \cap {"send", "walk"} = {} /\ {} \cap Watched = {}
  OBVIOUS
<1>4. QED
  BY <1>1, <1>2, <1>3, CalmCall

LEMMA OneCalls ==
  ASSUME Inv, NEW t \in Threads, stack[t] # <<>>, Head(stack[t]) \in Plain,
         NEW a \in Plain, Do(t, <<a>>), \A b \in ToSet(Tail(stack[t])) : Fits(a, b), Unwatched
  PROVE  StackInv' /\ StackTyped'
<1>1. /\ a \in Steps /\ Entered(a) = 0 /\ Served(a) = 0 /\ a \notin Watched
      /\ a \notin {"send", "walk"}
      /\ Entered(Head(stack[t])) = 0 /\ Served(Head(stack[t])) = 0
      /\ Head(stack[t]) \notin Watched
  BY PlainFacts
<1>2. Listed(<<a>>, {a}, 0, 0)
  BY <1>1, ListedOne
<1>3. QED
  BY <1>1, <1>2, CalmCall

LEMMA TwoCalls ==
  ASSUME Inv, NEW t \in Threads, stack[t] # <<>>, Head(stack[t]) \in Plain,
         NEW a \in Plain, NEW c \in Plain, c \notin HeadOnly, Do(t, <<a, c>>),
         \A b \in ToSet(Tail(stack[t])) : Fits(a, b) /\ Fits(c, b), Unwatched
  PROVE  StackInv' /\ StackTyped'
<1>1. /\ a \in Steps /\ Entered(a) = 0 /\ Served(a) = 0 /\ a \notin Watched
      /\ a \notin {"send", "walk"}
      /\ c \in Steps /\ One(c, Releasing) = 0 /\ One(c, ReleasingFilters) = 0
      /\ c \notin Watched /\ c \notin {"send", "walk"}
      /\ Entered(Head(stack[t])) = 0 /\ Served(Head(stack[t])) = 0
      /\ Head(stack[t]) \notin Watched
  BY PlainFacts
<1>2. Fits(a, c)
  BY <1>1 DEF Fits, Watched
<1>3. Listed(<<a, c>>, {a, c}, 0, 0)
  BY <1>1, <1>2, ListedTwo
<1>4. \A x \in {a, c}, b \in ToSet(Tail(stack[t])) : Fits(x, b)
  OBVIOUS
<1>5. {a, c} \cap Watched = {} /\ {a, c} \cap {"send", "walk"} = {}
  BY <1>1
<1>6. QED
  BY <1>1, <1>3, <1>4, <1>5, CalmCall

-----------------------------------------------------------------------------
\* One lemma for each step.  First the calls that touch no lock: what they put in
\* their place fits before the rest.
LEMMA Below ==
  ASSUME Inv, NEW t \in Threads, stack[t] # <<>>
  PROVE  \A b \in ToSet(Tail(stack[t])) :
           /\ Fits(Head(stack[t]), b) /\ b \notin HeadOnly
           /\ b = "unlock" => flags.processing
           /\ b = "built" => flags.rebuilding
<1>1. Fine(t, stack[t])
  BY DEF Inv, StackInv, ShapeInv
<1>2. /\ \A b \in ToSet(Tail(stack[t])) : Fits(Head(stack[t]), b)
      /\ ToSet(Tail(stack[t])) \subseteq ToSet(stack[t])
  BY <1>1, PutFine, ListedNone
<1>3. QED
  BY <1>2 DEF Inv, StackInv, FlagInv, In, Fits

LEMMA AskKeeps ==
  ASSUME Inv, NEW t \in Threads, Ask(t)
  PROVE  Inv'
<1>1. /\ stack[t] # <<>> /\ Head(stack[t]) \in {"ask", "askAfter"}
      /\ Do(t, AskedDuring) \/ (flags.rebuilding /\ Do(t, <<>>))
      /\ UNCHANGED <<locks, flags, chain, edited, timer, posted, values, counts>>
  BY DEF Ask, At, AskedDuring
<1>2. Head(stack[t]) \in Plain /\ Unwatched
  BY <1>1, PlainFacts DEF Unwatched, edited, values
<1>3. \A b \in ToSet(Tail(stack[t])) :
        /\ b \notin HeadOnly /\ b # "built"
        /\ b = "unlock" => flags.processing
  BY <1>1, Below DEF Fits, WhileBuilding
<1>4. ASSUME Do(t, <<>>) PROVE StackInv' /\ StackTyped'
  BY <1>1, <1>2, <1>4, PopCalls
<1>5. ASSUME Do(t, AskedDuring), flags.rebuilding
      PROVE  StackInv' /\ StackTyped'
  <2>1. Do(t, <<"pend">>) /\ "pend" \in Plain
    BY <1>5, PlainFacts DEF AskedDuring, Do
  <2>2. \A b \in ToSet(Tail(stack[t])) : Fits("pend", b)
    BY <1>3 DEF Fits, WhileProcessing
  <2>3. QED
    BY <1>1, <1>2, <2>1, <2>2, OneCalls
<1>6. ASSUME Do(t, AskedDuring), ~flags.rebuilding, flags.processing
      PROVE  StackInv' /\ StackTyped'
  <2>1. Do(t, <<"flag">>) /\ "flag" \in Plain
    BY <1>6, PlainFacts DEF AskedDuring, Do
  <2>2. \A b \in ToSet(Tail(stack[t])) : Fits("flag", b)
    BY <1>3 DEF Fits, WhileProcessing
  <2>3. QED
    BY <1>1, <1>2, <2>1, <2>2, OneCalls
<1>7. ASSUME Do(t, AskedDuring), ~flags.rebuilding, ~flags.processing
      PROVE  StackInv' /\ StackTyped'
  <2>1. Do(t, <<"rebuild">>) /\ "rebuild" \in Plain
    BY <1>7, PlainFacts DEF AskedDuring, Do
  <2>2. \A b \in ToSet(Tail(stack[t])) : Fits("rebuild", b)
    BY <1>3, <1>7 DEF Fits
  <2>3. QED
    BY <1>1, <1>2, <2>1, <2>2, OneCalls
<1>8. StackInv' /\ StackTyped'
  BY <1>1, <1>4, <1>5, <1>6, <1>7
<1>9. TypeOK'
  BY <1>1, <1>8 DEF Inv, TypeOK, StackTyped, locks, chain, edited, timer, values, counts
<1>10. QED
  BY <1>8, <1>9 DEF Inv

LEMMA SetFlagKeeps ==
  ASSUME Inv, NEW t \in Threads, SetFlag(t)
  PROVE  Inv'
<1>1. /\ stack[t] # <<>> /\ Head(stack[t]) \in {"pend", "flag"} /\ Do(t, <<>>)
      /\ \/ flags' = [flags EXCEPT !.pending = TRUE]
         \/ flags' = [flags EXCEPT !.after = TRUE]
      /\ UNCHANGED <<locks, chain, edited, timer, posted, values, counts>>
  BY DEF SetFlag, At
<1>2. flags \in [rebuilding : BOOLEAN, processing : BOOLEAN, after : BOOLEAN, pending : BOOLEAN]
  BY DEF Inv, TypeOK
<1>3. Head(stack[t]) \in Plain /\ Unwatched
  BY <1>1, <1>2, PlainFacts DEF Unwatched, edited, values
<1>4. StackInv' /\ StackTyped'
  BY <1>1, <1>3, PopCalls
<1>5. TypeOK'
  BY <1>1, <1>4 DEF Inv, TypeOK, StackTyped, locks, chain, edited, timer, values, counts
<1>6. QED
  BY <1>4, <1>5 DEF Inv

LEMMA BuildKeeps ==
  ASSUME Inv, NEW t \in Threads, Build(t)
  PROVE  Inv'
<1>1. /\ stack[t] # <<>> /\ Head(stack[t]) = "build" /\ Do(t, <<>>)
      /\ fm' = [needsRebuild |-> FALSE, rebuilding |-> FALSE] /\ built' = config
      /\ out' = [out EXCEPT !.previous = input]
      /\ UNCHANGED <<locks, flags, edited, timer, posted, input, held, counts>>
  BY DEF Build, At
<1>2. Head(stack[t]) \in Plain /\ Unwatched
  BY <1>1, PlainFacts DEF Unwatched, edited
<1>3. StackInv' /\ StackTyped'
  BY <1>1, <1>2, PopCalls
<1>4. TypeOK'
  BY <1>1, <1>3 DEF Inv, TypeOK, StackTyped, locks, edited, timer, counts
<1>5. QED
  BY <1>3, <1>4 DEF Inv

LEMMA AgainKeeps ==
  ASSUME Inv, NEW t \in Threads, Again(t)
  PROVE  Inv'
<1>1. /\ stack[t] # <<>> /\ Head(stack[t]) = "again"
      /\ Do(t, IF flags.pending THEN <<"ask", "processAll">> ELSE <<"processAll">>)
      /\ UNCHANGED <<locks, flags, chain, edited, timer, posted, values, counts>>
  BY DEF Again, At
<1>2. /\ Head(stack[t]) \in Plain /\ Unwatched /\ "ask" \in Plain /\ "processAll" \in Plain
      /\ "processAll" \notin HeadOnly
  BY <1>1, PlainFacts DEF Unwatched, edited, values, HeadOnly
<1>3. \A b \in ToSet(Tail(stack[t])) : Fits("ask", b) /\ Fits("processAll", b)
  BY <1>1, Below DEF Fits, WhileBuilding, WhileProcessing
<1>4. StackInv' /\ StackTyped'
  <2>1. CASE flags.pending
    BY <1>1, <1>2, <1>3, <2>1, TwoCalls
  <2>2. CASE ~flags.pending
    BY <1>1, <1>2, <1>3, <2>2, OneCalls
  <2>3. QED
    BY <2>1, <2>2
<1>5. TypeOK'
  BY <1>1, <1>4 DEF Inv, TypeOK, StackTyped, locks, chain, edited, timer, values, counts
<1>6. QED
  BY <1>4, <1>5 DEF Inv

LEMMA NotifyKeeps ==
  ASSUME Inv, NEW t \in Threads, Notify(t)
  PROVE  Inv'
<1>1. /\ stack[t] # <<>> /\ Head(stack[t]) \in {"notify", "notifyAfter"}
      /\ \/ Do(t, <<>>) /\ fm' = fm
         \/ /\ Do(t, <<"ask">>) \/ Do(t, <<"askAfter">>)
            /\ fm' = [fm EXCEPT !.needsRebuild = TRUE]
      /\ UNCHANGED <<locks, flags, built, edited, timer, posted, values, counts>>
  BY DEF Notify, At
<1>2. Head(stack[t]) \in Plain /\ Unwatched /\ "ask" \in Plain /\ "askAfter" \in Plain
  BY <1>1, PlainFacts DEF Unwatched, edited, values
<1>3. \A b \in ToSet(Tail(stack[t])) : Fits("ask", b) /\ Fits("askAfter", b)
  BY <1>1, Below DEF Fits, WhileBuilding, WhileProcessing
<1>4. StackInv' /\ StackTyped'
  BY <1>1, <1>2, <1>3, PopCalls, OneCalls
<1>5. TypeOK'
  BY <1>1, <1>4 DEF Inv, TypeOK, StackTyped, locks, edited, timer, values, counts
<1>6. QED
  BY <1>4, <1>5 DEF Inv

LEMMA ProcessKeeps ==
  ASSUME Inv, NEW t \in Threads, Process(t)
  PROVE  Inv'
<1>1. /\ stack[t] # <<>> /\ Head(stack[t]) \in {"processAll", "process"}
      /\ UNCHANGED <<locks, flags, chain, edited, timer, posted, values, counts>>
  BY DEF Process, At
<1>2. /\ Head(stack[t]) \in Plain /\ Unwatched /\ "process" \in Plain /\ "lock" \in Plain
      /\ "process" \notin HeadOnly
  BY <1>1, PlainFacts DEF Unwatched, edited, values, HeadOnly
<1>3. \/ Do(t, <<>>)
      \/ /\ ~TurnedAway
         /\ Do(t, <<"lock">>) \/ Do(t, <<"process">>) \/ Do(t, <<"process", "process">>)
  BY DEF Process
<1>4. \A b \in ToSet(Tail(stack[t])) :
        ~TurnedAway => Fits("lock", b) /\ Fits("process", b)
  BY <1>1, Below DEF Fits, TurnedAway
<1>5. StackInv' /\ StackTyped'
  <2>1. CASE Do(t, <<>>)
    BY <1>1, <1>2, <2>1, PopCalls
  <2>2. CASE ~TurnedAway /\ Do(t, <<"lock">>)
    BY <1>1, <1>2, <1>4, <2>2, OneCalls
  <2>3. CASE ~TurnedAway /\ Do(t, <<"process">>)
    BY <1>1, <1>2, <1>4, <2>3, OneCalls
  <2>4. CASE ~TurnedAway /\ Do(t, <<"process", "process">>)
    BY <1>1, <1>2, <1>4, <2>4, TwoCalls
  <2>5. QED
    BY <1>3, <2>1, <2>2, <2>3, <2>4
<1>6. TypeOK'
  BY <1>1, <1>5 DEF Inv, TypeOK, StackTyped, locks, chain, edited, timer, values, counts
<1>7. QED
  BY <1>5, <1>6 DEF Inv

LEMMA WalkKeeps ==
  ASSUME Inv, NEW t \in Threads, Walk(t)
  PROVE  Inv'
<1>1. /\ stack[t] # <<>> /\ Head(stack[t]) = "walk"
      /\ Do(t, <<>>) \/ Do(t, <<"send">>)
      /\ UNCHANGED <<locks, flags, chain, edited, timer, posted, values, counts>>
  BY DEF Walk, At
<1>2. /\ Unwatched /\ "walk" \notin Watched /\ Entered("walk") = 0 /\ Served("walk") = 0
      /\ "send" \in Steps /\ Entered("send") = 0 /\ Served("send") = 0
  BY <1>1 DEF Unwatched, edited, values, Watched, Entered, Served, One, Releasing,
              ReleasingFilters, Steps
<1> DEFINE T == {"send"}
<1>3. \A a \in T, b \in ToSet(Tail(stack[t])) : Fits(a, b)
  <2>1. \A b \in ToSet(Tail(stack[t])) : Fits("walk", b)
    BY <1>1, Below
  <2>2. QED
    BY <2>1 DEF Fits, WhileBuilding, WhileProcessing
<1>4. Sending(Onto(stack[t], <<"send">>))
  <2>1. stack[t] \in Seq(Steps) /\ Len(stack[t]) \in Nat /\ Len(stack[t]) >= 2
        /\ stack[t][2] = "unlock"
    BY <1>1 DEF Inv, StackInv, ShapeInv, Fine, Sending
  <2>2. /\ Tail(stack[t]) \in Seq(Steps) /\ Len(Tail(stack[t])) = Len(stack[t]) - 1
        /\ \A i \in 1..Len(Tail(stack[t])) : Tail(stack[t])[i] = stack[t][i + 1]
    BY <1>1, <2>1, HeadTailProperties
  <2>3. 1 \in 1..Len(Tail(stack[t])) /\ Tail(stack[t])[1] = "unlock"
    <3>1. 1 \in 1..Len(Tail(stack[t]))
      BY <2>1, <2>2
    <3>2. QED
      BY <2>1, <2>2, <3>1
  <2>4. /\ <<"send">> \in Seq(Steps) /\ Len(<<"send">>) = 1
        /\ Len(Onto(stack[t], <<"send">>)) = 1 + Len(Tail(stack[t]))
        /\ \A i \in 1..(1 + Len(Tail(stack[t]))) :
             Onto(stack[t], <<"send">>)[i]
               = IF i <= 1 THEN <<"send">>[i] ELSE Tail(stack[t])[i - 1]
    <3>1. <<"send">> \in Seq(Steps) /\ Len(<<"send">>) = 1
      BY <1>2
    <3>2. QED
      BY <2>2, <3>1, ConcatProperties DEF Onto
  <2>5. 2 \in 1..(1 + Len(Tail(stack[t]))) /\ 2 - 1 = 1 /\ ~(2 <= 1)
    BY <2>1, <2>2
  <2>6. Onto(stack[t], <<"send">>)[2] = "unlock"
    BY <2>3, <2>4, <2>5
  <2>7. Len(Onto(stack[t], <<"send">>)) >= 2
    BY <2>1, <2>2, <2>4
  <2>8. QED
    BY <2>6, <2>7 DEF Sending
<1>5. T \cap Watched = {}
  BY DEF Watched
<1>6. StackInv' /\ StackTyped'
  <2>1. CASE Do(t, <<>>)
    <3> DEFINE none == {}
    <3>1. /\ none \cap {"send", "walk"} = {} /\ none \cap Watched = {}
          /\ \A a \in none, b \in ToSet(Tail(stack[t])) : Fits(a, b)
      OBVIOUS
    <3>2. Listed(<<>>, none, Entered(Head(stack[t])), Served(Head(stack[t])))
      BY <1>1, <1>2, ListedNone
    <3> HIDE DEF none
    <3>3. Head(stack[t]) \notin Watched /\ stack[t] # <<>>
      BY <1>1, <1>2
    <3>4. QED
      BY <1>2, <2>1, <3>1, <3>2, <3>3, CalmCall
  <2>2. CASE Do(t, <<"send">>)
    <3>1. Listed(<<"send">>, T, 0, 0)
      BY <1>2, ListedOne
    <3> HIDE DEF T
    <3>2. /\ Listed(<<"send">>, T, Entered(Head(stack[t])), Served(Head(stack[t])))
          /\ Head(stack[t]) \notin Watched /\ stack[t] # <<>>
      BY <1>1, <1>2, <3>1
    <3>3. QED
      BY <1>2, <1>3, <1>4, <1>5, <2>2, <3>2, CalmCall
  <2>3. QED
    BY <1>1, <2>1, <2>2
<1>7. TypeOK'
  BY <1>1, <1>6 DEF Inv, TypeOK, StackTyped, locks, chain, edited, timer, values, counts
<1>8. QED
  BY <1>6, <1>7 DEF Inv

LEMMA SendKeeps ==
  ASSUME Inv, NEW t \in Threads, Send(t)
  PROVE  Inv'
<1>1. /\ stack[t] # <<>> /\ Head(stack[t]) = "send" /\ out' = Sent(held[t].value)
      /\ \/ Do(t, <<>>) /\ edits' = edits
         \/ edits' = edits + 1 /\ Do(t, ParameterEdit)
      /\ UNCHANGED <<locks, flags, chain, edited, timer, posted, input, held, changes, ranged>>
  BY DEF Send, At
<1>2. Unwatched /\ "send" \notin Watched /\ Entered("send") = 0 /\ Served("send") = 0
  BY <1>1 DEF Unwatched, edited, Watched, Entered, Served, One, Releasing, ReleasingFilters
<1> DEFINE T == {"enter", "parameter", "notifyAfter", "processAll", "leave"}
<1>3. \A a \in T, b \in ToSet(Tail(stack[t])) : Fits(a, b)
  BY <1>1, Below DEF Fits, WhileBuilding, WhileProcessing
<1>4. T \cap {"send", "walk"} = {} /\ T \cap Watched = {}
  BY DEF Watched
<1>5. StackInv' /\ StackTyped'
  <2>1. CASE Do(t, <<>>)
    <3>1. {} \cap {"send", "walk"} = {} /\ {} \cap Watched = {}
      OBVIOUS
    <3>2. QED
      BY <1>1, <1>2, <2>1, <3>1, ListedNone, CalmCall
  <2>2. CASE Do(t, ParameterEdit)
    <3>1. Listed(ParameterEdit, T, 0, 0)
      BY ListedParameterEdit
    <3> HIDE DEF T
    <3>2. QED
      BY <1>1, <1>2, <1>3, <1>4, <2>2, <3>1, CalmCall
  <2>3. QED
    BY <1>1, <2>1, <2>2
<1>6. held[t].value \in Nat /\ out'  \in [sent : Nat, previous : Nat]
  BY <1>1 DEF Inv, TypeOK, Sent
<1>7. TypeOK'
  BY <1>1, <1>5, <1>6 DEF Inv, TypeOK, StackTyped, locks, chain, edited, timer
<1>8. QED
  BY <1>5, <1>7 DEF Inv

LEMMA AfterKeeps ==
  ASSUME Inv, NEW t \in Threads, After(t)
  PROVE  Inv'
<1>1. /\ stack[t] # <<>> /\ Head(stack[t]) = "after" /\ flags' = [flags EXCEPT !.after = FALSE]
      /\ Do(t, <<>>) \/ Do(t, <<"ask">>)
      /\ posted' = posted \/ posted' = posted + 1
      /\ UNCHANGED <<locks, chain, edited, timer, values, counts>>
  BY DEF After, At, Handed
<1>2. flags \in [rebuilding : BOOLEAN, processing : BOOLEAN, after : BOOLEAN, pending : BOOLEAN]
  BY DEF Inv, TypeOK
<1>3. Head(stack[t]) \in Plain /\ Unwatched /\ "ask" \in Plain
  BY <1>1, <1>2, PlainFacts DEF Unwatched, edited, values
<1>4. \A b \in ToSet(Tail(stack[t])) : Fits("ask", b)
  BY <1>1, Below DEF Fits, WhileBuilding, WhileProcessing
<1>5. StackInv' /\ StackTyped'
  BY <1>1, <1>3, <1>4, PopCalls, OneCalls
<1>6. /\ flags' \in [rebuilding : BOOLEAN, processing : BOOLEAN, after : BOOLEAN,
                    pending : BOOLEAN]
      /\ posted' \in Nat
  <2>1. posted \in Nat
    BY DEF Inv, TypeOK
  <2>2. flags' = [flags EXCEPT !.after = FALSE]
    BY <1>1
  <2>3. posted' \in Nat
    BY <1>1, <2>1
  <2>4. QED
    BY <1>2, <2>2, <2>3
<1>7. TypeOK'
  BY <1>1, <1>5, <1>6 DEF Inv, TypeOK, StackTyped, locks, chain, edited, timer, values, counts
<1>8. QED
  BY <1>5, <1>7 DEF Inv

\* Starting the timer thread is calm too.
LEMMA StartCalls ==
  ASSUME Inv, NEW t \in Threads, stack[t] # <<>>, Head(stack[t]) \in Plain, Start(t), Unwatched
  PROVE  StackInv' /\ StackTyped'
<1>1. /\ Timer \in Threads /\ stack \in [Threads -> Seq(Steps)]
      /\ stack' = [stack EXCEPT ![t] = Tail(@), ![Timer] = IF Running THEN @ ELSE <<"loop">>]
  BY DEF Inv, TypeOK, Start, Threads
<1>2. /\ stack'[t] = Tail(stack[t])
      /\ \A u \in Threads : u # t =>
           stack'[u] = stack[u] \/ (stack[u] = <<>> /\ stack'[u] = <<"loop">>)
  <2>1. CASE t = Timer
    BY <1>1, <2>1 DEF Running
  <2>2. CASE t # Timer
    BY <1>1, <2>2 DEF Running
  <2>3. QED
    BY <2>1, <2>2
<1>3. /\ Entered(Head(stack[t])) = 0 /\ Served(Head(stack[t])) = 0
      /\ Head(stack[t]) \notin Watched /\ "loop" \in Plain
  BY PlainFacts
<1>4. /\ "loop" \in Steps /\ Entered("loop") = 0 /\ Served("loop") = 0
      /\ "loop" \notin Watched /\ "loop" \notin {"send", "walk"}
  BY <1>3, PlainFacts
<1>5. Listed(<<"loop">>, {"loop"}, 0, 0)
  BY <1>4, ListedOne
<1>6. \A u \in Threads : Fine(u, stack[u]) /\ Calm(u, stack[u], stack[u])
  BY DEF Inv, StackInv, ShapeInv, Calm
<1>7. ASSUME NEW u \in Threads, stack[u] = <<>> PROVE Calm(u, stack[u], <<"loop">>)
  BY <1>4, <1>5, <1>7, CalmBegin
<1>8. Calm(t, stack[t], Onto(stack[t], <<>>))
  <2>1. Listed(<<>>, {}, Entered(Head(stack[t])), Served(Head(stack[t])))
    BY <1>3, ListedNone
  <2>2. Fine(t, stack[t])
    BY <1>6
  <2>3. \A a \in {}, b \in ToSet(Tail(stack[t])) : Fits(a, b)
    OBVIOUS
  <2>4. {} \cap {"send", "walk"} = {} /\ {} \cap Watched = {}
    OBVIOUS
  <2>5. QED
    BY <1>3, <2>1, <2>2, <2>3, <2>4, CalmPut
<1>9. Onto(stack[t], <<>>) = Tail(stack[t])
  <2>1. Tail(stack[t]) \in Seq(Steps)
    BY <1>1
  <2>2. QED
    BY <2>1 DEF Onto
<1>10. \A u \in Threads : Calm(u, stack[u], stack'[u])
  BY <1>2, <1>6, <1>7, <1>8, <1>9
<1>11. StackInv'
  BY <1>10, CalmSteps DEF Inv, Unwatched
<1>12. StackTyped'
  <2>1. \A u \in Threads : stack'[u] \in Seq(Steps)
    BY <1>10 DEF Calm, Fine
  <2>2. stack' = [u \in Threads |-> stack'[u]]
    BY <1>1
  <2>3. QED
    BY <2>1, <2>2 DEF StackTyped
<1>13. QED
  BY <1>11, <1>12

LEMMA CheckKeeps ==
  ASSUME Inv, NEW t \in Threads, Check(t)
  PROVE  Inv'
<1>1. /\ stack[t] # <<>> /\ Head(stack[t]) = "check" /\ updateRate' = NeedsContinuous
      /\ Start(t) \/ Do(t, <<>>) \/ Do(t, <<"stop">>)
      /\ shouldExit' = FALSE \/ shouldExit' = shouldExit
      /\ UNCHANGED <<locks, flags, chain, edited, startStopLock, posted, values, counts>>
  BY DEF Check, At, Start
<1>2. Head(stack[t]) \in Plain /\ Unwatched /\ "stop" \in Plain
  BY <1>1, PlainFacts DEF Unwatched, edited, values
<1>3. \A b \in ToSet(Tail(stack[t])) : Fits("stop", b)
  BY <1>1, Below DEF Fits, WhileBuilding, WhileProcessing
<1>4. StackInv' /\ StackTyped'
  BY <1>1, <1>2, <1>3, PopCalls, OneCalls, StartCalls
<1>5. NeedsContinuous \in BOOLEAN
  BY DEF NeedsContinuous, Inv, TypeOK
<1>6. TypeOK'
  BY <1>1, <1>4, <1>5 DEF Inv, TypeOK, StackTyped, locks, chain, edited, values, counts
<1>7. QED
  BY <1>4, <1>6 DEF Inv

LEMMA UpdateKeeps ==
  ASSUME Inv, NEW t \in Threads, UpdateContinuousProcess(t)
  PROVE  Inv'
<1>1. /\ stack[t] # <<>> /\ Head(stack[t]) = "update"
      /\ Start(t) \/ Do(t, <<>>) \/ Do(t, <<"stop">>)
      /\ shouldExit' = FALSE \/ shouldExit' = shouldExit
      /\ UNCHANGED <<locks, flags, chain, edited, updateRate, startStopLock, posted, values, counts>>
  BY DEF UpdateContinuousProcess, At, Start
<1>2. Head(stack[t]) \in Plain /\ Unwatched /\ "stop" \in Plain
  BY <1>1, PlainFacts DEF Unwatched, edited, values
<1>3. \A b \in ToSet(Tail(stack[t])) : Fits("stop", b)
  BY <1>1, Below DEF Fits, WhileBuilding, WhileProcessing
<1>4. StackInv' /\ StackTyped'
  BY <1>1, <1>2, <1>3, PopCalls, OneCalls, StartCalls
<1>5. TypeOK'
  BY <1>1, <1>4 DEF Inv, TypeOK, StackTyped, locks, chain, edited, values, counts
<1>6. QED
  BY <1>4, <1>5 DEF Inv

LEMMA StopKeeps ==
  ASSUME Inv, NEW t \in Threads, Stop(t) \/ Join(t)
  PROVE  Inv'
<1>1. /\ stack[t] # <<>> /\ Head(stack[t]) \in {"stop", "join"}
      /\ \/ Head(stack[t]) = "stop" /\ Do(t, <<"join">>)
         \/ Do(t, <<>>)
      /\ startStopLock' \in {t, None}
      /\ shouldExit' = shouldExit \/ shouldExit' = (shouldExit \/ Running)
      /\ UNCHANGED <<locks, flags, chain, edited, updateRate, posted, values, counts>>
  BY DEF Stop, Join, At
<1>2. Head(stack[t]) \in Plain /\ Unwatched /\ "join" \in Plain
  BY <1>1, PlainFacts DEF Unwatched, edited, values
<1>3. Head(stack[t]) = "stop" => \A b \in ToSet(Tail(stack[t])) : Fits("join", b)
  BY <1>1, Below DEF Fits, WhileBuilding, WhileProcessing
<1>4. StackInv' /\ StackTyped'
  BY <1>1, <1>2, <1>3, PopCalls, OneCalls
<1>5. shouldExit' \in BOOLEAN
  <2>1. shouldExit \in BOOLEAN /\ (shouldExit \/ Running) \in BOOLEAN
    BY DEF Inv, TypeOK
  <2>2. QED
    BY <1>1, <2>1
<1>6. TypeOK'
  BY <1>1, <1>4, <1>5 DEF Inv, TypeOK, StackTyped, locks, chain, edited, values, counts
<1>7. QED
  BY <1>4, <1>6 DEF Inv

LEMMA ParameterKeeps ==
  ASSUME Inv, NEW t \in Threads, Parameter(t)
  PROVE  Inv'
<1>1. /\ stack[t] # <<>> /\ Head(stack[t]) = "parameter" /\ Do(t, <<>>)
      /\ config' = [config EXCEPT !.edits = @ + 1]
      /\ UNCHANGED <<locks, flags, chain, removed, enabled, forced, timer, posted, values, counts>>
  BY DEF Parameter, At
<1>2. config \in [filters : SUBSET Filters, enabled : SUBSET Filters, edits : Nat]
  BY DEF Inv, TypeOK
<1>3. Head(stack[t]) \in Plain /\ Unwatched
  BY <1>1, <1>2, PlainFacts DEF Unwatched, values
<1>4. StackInv' /\ StackTyped'
  BY <1>1, <1>3, PopCalls
<1>5. TypeOK'
  <2>1. config' \in [filters : SUBSET Filters, enabled : SUBSET Filters, edits : Nat]
    BY <1>1, <1>2
  <2>2. QED
    BY <1>1, <1>4, <2>1 DEF Inv, TypeOK, StackTyped, locks, chain, timer, values, counts
<1>6. QED
  BY <1>4, <1>5 DEF Inv

LEMMA ValueChangedKeeps ==
  ASSUME Inv, NEW t \in Threads, ValueChanged(t)
  PROVE  Inv'
<1>1. /\ stack[t] # <<>> /\ Head(stack[t]) = "changed"
      /\ Do(t, <<>>) \/ Do(t, <<"processAll">>) \/ Do(t, <<"process">>)
      /\ UNCHANGED <<locks, flags, chain, edited, timer, posted, values, counts>>
  BY DEF ValueChanged, At
<1>2. Head(stack[t]) \in Plain /\ Unwatched /\ "processAll" \in Plain /\ "process" \in Plain
  BY <1>1, PlainFacts DEF Unwatched, edited, values
<1>3. \A b \in ToSet(Tail(stack[t])) : Fits("processAll", b) /\ Fits("process", b)
  BY <1>1, Below DEF Fits, WhileBuilding, WhileProcessing
<1>4. StackInv' /\ StackTyped'
  BY <1>1, <1>2, <1>3, PopCalls, OneCalls
<1>5. TypeOK'
  BY <1>1, <1>4 DEF Inv, TypeOK, StackTyped, locks, chain, edited, timer, values, counts
<1>6. QED
  BY <1>4, <1>5 DEF Inv

-----------------------------------------------------------------------------
\* Then the edits and the changes: a thread with nothing to do begins its calls.
LEMMA BeginCalls ==
  ASSUME Inv, NEW t \in Threads, NEW new, NEW T, Begin(t, new), Listed(new, T, 0, 0),
         T \cap {"send", "walk"} = {}, T \cap Watched = {}, Unwatched
  PROVE  StackInv' /\ StackTyped'
<1>1. /\ stack \in [Threads -> Seq(Steps)] /\ stack[t] = <<>>
      /\ stack' = [stack EXCEPT ![t] = new] /\ new \in Seq(Steps)
  BY DEF Inv, TypeOK, Begin, Listed
<1>2. Calm(t, <<>>, new)
  BY CalmBegin
<1>3. \A u \in Threads : Calm(u, stack[u], stack[u])
  BY DEF Inv, StackInv, ShapeInv, Calm
<1>4. \A u \in Threads : Calm(u, stack[u], stack'[u])
  BY <1>1, <1>2, <1>3
<1>5. StackInv'
  BY <1>4, CalmSteps DEF Inv, Unwatched
<1>6. StackTyped'
  BY <1>1 DEF StackTyped
<1>7. QED
  BY <1>5, <1>6

LEMMA BeginOne ==
  ASSUME Inv, NEW t \in Threads, NEW a \in Plain, Begin(t, <<a>>), Unwatched
  PROVE  StackInv' /\ StackTyped'
<1>1. a \in Steps /\ Entered(a) = 0 /\ Served(a) = 0 /\ a \notin Watched
      /\ a \notin {"send", "walk"}
  BY PlainFacts
<1>2. Listed(<<a>>, {a}, 0, 0)
  BY <1>1, ListedOne
<1>3. {a} \cap {"send", "walk"} = {} /\ {a} \cap Watched = {}
  BY <1>1
<1>4. QED
  BY <1>2, <1>3, BeginCalls

LEMMA BeginTwo ==
  ASSUME Inv, NEW t \in Threads, NEW a \in Plain, NEW c \in Plain, c \notin HeadOnly,
         Begin(t, <<a, c>>), Unwatched
  PROVE  StackInv' /\ StackTyped'
<1>1. /\ a \in Steps /\ Entered(a) = 0 /\ Served(a) = 0 /\ a \notin Watched
      /\ a \notin {"send", "walk"}
      /\ c \in Steps /\ One(c, Releasing) = 0 /\ One(c, ReleasingFilters) = 0
      /\ c \notin Watched /\ c \notin {"send", "walk"}
  BY PlainFacts
<1>2. Fits(a, c)
  BY <1>1 DEF Fits, Watched
<1>3. Listed(<<a, c>>, {a, c}, 0, 0)
  BY <1>1, <1>2, ListedTwo
<1>4. {a, c} \cap {"send", "walk"} = {} /\ {a, c} \cap Watched = {}
  BY <1>1
<1>5. QED
  BY <1>3, <1>4, BeginCalls

LEMMA EnableFilterKeeps ==
  ASSUME Inv, EnableFilter
  PROVE  Inv'
<1>1. PICK f \in config.filters, n \in {"notify", "notifyAfter"} :
        /\ Edit(<<"enter", n, "leave">>)
        /\ config' = [config EXCEPT !.enabled = IF f \in @ THEN @ \ {f} ELSE @ \cup {f}]
        /\ UNCHANGED <<removed, enabled, forced>>
  BY DEF EnableFilter
<1>2. /\ edits' = edits + 1 /\ Begin(MessageThread, <<"enter", n, "leave">>)
      /\ UNCHANGED <<locks, flags, chain, timer, posted, values, changes, ranged>>
  BY <1>1 DEF Edit
<1>3. /\ config \in [filters : SUBSET Filters, enabled : SUBSET Filters, edits : Nat]
      /\ MessageThread \in Threads
  BY DEF Inv, TypeOK, Threads
<1>4. /\ config' \in [filters : SUBSET Filters, enabled : SUBSET Filters, edits : Nat]
      /\ config'.filters = config.filters
  BY <1>1, <1>3
<1>5. Unwatched
  BY <1>1, <1>2, <1>4 DEF Unwatched, values
<1> DEFINE T == {"enter", n, "leave"}
<1>6. Listed(<<"enter", n, "leave">>, T, 0, 0)
  <2>1. /\ Entered("enter") + One(n, Releasing) + One("leave", Releasing) = 0
        /\ Served("enter") + One(n, ReleasingFilters) + One("leave", ReleasingFilters) = 0
    BY DEF Entered, Served, One, Releasing, ReleasingFilters
  <2>2. Fits("enter", n) /\ Fits("enter", "leave") /\ Fits(n, "leave")
    BY DEF Fits, HeadOnly
  <2>3. "enter" \in Steps /\ n \in Steps /\ "leave" \in Steps
    BY SomeSteps
  <2>4. QED
    BY <2>1, <2>2, <2>3, ListedThree
<1>7. T \cap {"send", "walk"} = {} /\ T \cap Watched = {}
  BY DEF Watched
<1>8. StackInv' /\ StackTyped'
  <2> HIDE DEF T
  <2>1. QED
    BY <1>2, <1>3, <1>5, <1>6, <1>7, BeginCalls
<1>9. TypeOK'
  <2>1. UNCHANGED <<removed, enabled, forced>>
    BY <1>1
  <2>2. edits' \in Nat
    BY <1>2 DEF Inv, TypeOK
  <2>3. QED
    BY <1>2, <1>4, <1>8, <2>1, <2>2 DEF Inv, TypeOK, StackTyped, locks, chain, timer, values
<1>10. QED
  BY <1>8, <1>9 DEF Inv

LEMMA PlainEditKeeps ==
  ASSUME Inv, EditParameter \/ EditInputs \/ Enable \/ ForceContinuous
  PROVE  Inv'
<1>1. /\ config \in [filters : SUBSET Filters, enabled : SUBSET Filters, edits : Nat]
      /\ MessageThread \in Threads /\ {enabled, forced} \subseteq BOOLEAN
      /\ (~enabled) \in BOOLEAN /\ (~forced) \in BOOLEAN
  BY DEF Inv, TypeOK, Threads
<1>2. /\ edits' = edits + 1
      /\ UNCHANGED <<locks, flags, chain, timer, posted, values, changes, ranged>>
  BY DEF EditParameter, EditInputs, Enable, ForceContinuous, Edit
<1>3. /\ config' = config \/ config' = [config EXCEPT !.edits = @ + 1]
      /\ enabled' = enabled \/ enabled' = ~enabled
      /\ forced' = forced \/ forced' = ~forced
      /\ removed' = removed
  BY DEF EditParameter, EditInputs, Enable, ForceContinuous, edited
<1>4. /\ config' \in [filters : SUBSET Filters, enabled : SUBSET Filters, edits : Nat]
      /\ config'.filters = config.filters
  BY <1>1, <1>3
<1>5. enabled' \in BOOLEAN /\ forced' \in BOOLEAN
  BY <1>1, <1>3
<1>6. Unwatched
  BY <1>2, <1>3, <1>4 DEF Unwatched, values
<1>7. /\ "ask" \in Plain /\ "update" \in Plain /\ "processAll" \in Plain /\ "check" \in Plain
      /\ "update" \notin HeadOnly
  BY PlainFacts DEF HeadOnly
<1>8. StackInv' /\ StackTyped'
  <2>1. CASE EditParameter
    <3> DEFINE T == {"enter", "parameter", "notifyAfter", "processAll", "leave"}
    <3>1. Listed(ParameterEdit, T, 0, 0)
      BY ListedParameterEdit
    <3>2. T \cap {"send", "walk"} = {} /\ T \cap Watched = {}
      BY DEF Watched
    <3>3. Begin(MessageThread, ParameterEdit)
      BY <2>1 DEF EditParameter, Edit
    <3> HIDE DEF T
    <3>4. QED
      BY <1>1, <1>6, <3>1, <3>2, <3>3, BeginCalls
  <2>2. CASE EditInputs
    <3>1. Begin(MessageThread, <<"ask">>)
      BY <2>2 DEF EditInputs, Edit
    <3>2. QED
      BY <1>1, <1>6, <1>7, <3>1, BeginOne
  <2>3. CASE Enable
    <3>1. \/ Begin(MessageThread, <<"update">>)
          \/ Begin(MessageThread, <<"processAll", "update">>)
      BY <2>3 DEF Enable, Edit
    <3>2. QED
      BY <1>1, <1>6, <1>7, <3>1, BeginOne, BeginTwo
  <2>4. CASE ForceContinuous
    <3>1. Begin(MessageThread, <<"check", "update">>)
      BY <2>4 DEF ForceContinuous, Edit
    <3>2. QED
      BY <1>1, <1>6, <1>7, <3>1, BeginTwo
  <2>5. QED
    BY <2>1, <2>2, <2>3, <2>4
<1>9. TypeOK'
  BY <1>2, <1>3, <1>4, <1>5, <1>8 DEF Inv, TypeOK, StackTyped, locks, chain, timer, values
<1>10. QED
  BY <1>8, <1>9 DEF Inv

LEMMA HandlePostedKeeps ==
  ASSUME Inv, HandlePosted
  PROVE  Inv'
<1>1. /\ posted > 0 /\ posted' = posted - 1 /\ Begin(MessageThread, AskedDuring)
      /\ UNCHANGED <<locks, flags, chain, edited, timer, values, counts>>
      /\ MessageThread \in Threads /\ posted \in Nat
  BY DEF HandlePosted, Inv, TypeOK, Threads
<1>2. Unwatched /\ posted' \in Nat
  BY <1>1 DEF Unwatched, edited, values
<1>3. PICK a \in {"pend", "flag", "rebuild"} : Begin(MessageThread, <<a>>)
  BY <1>1 DEF AskedDuring, Begin
<1>4. a \in Plain
  BY PlainFacts
<1>5. StackInv' /\ StackTyped'
  BY <1>1, <1>2, <1>3, <1>4, BeginOne
<1>6. TypeOK'
  BY <1>1, <1>2, <1>5 DEF Inv, TypeOK, StackTyped, locks, chain, edited, timer, values, counts
<1>7. QED
  BY <1>5, <1>6 DEF Inv

LEMMA ChangeKeeps ==
  ASSUME Inv, NEW t \in Inputs, ChangeValue(t) \/ ChangeRange(t)
  PROVE  Inv'
<1>1. /\ changes[t] < MaxChanges /\ changes' = [changes EXCEPT ![t] = @ + 1]
      /\ Begin(t, <<"changed">>) \/ Begin(t, <<"ask">>)
      /\ input' = input \/ input' = input + 1
      /\ ranged' = ranged \/ ranged' = TRUE
      /\ config' = config \/ config' = [config EXCEPT !.edits = @ + 1]
      /\ UNCHANGED <<locks, flags, chain, timer, posted, edits, removed, enabled, forced, out, held>>
  BY DEF ChangeValue, ChangeRange, Change, edited, values
<1>2. /\ config \in [filters : SUBSET Filters, enabled : SUBSET Filters, edits : Nat]
      /\ changes \in [Inputs -> 0..MaxChanges] /\ MaxChanges \in Nat /\ input \in Nat
      /\ ranged \in BOOLEAN /\ t \in Threads
  BY BoundAssumption DEF Inv, TypeOK, Threads
<1>3. /\ config' \in [filters : SUBSET Filters, enabled : SUBSET Filters, edits : Nat]
      /\ config'.filters = config.filters
  BY <1>1, <1>2
<1>4. changes' \in [Inputs -> 0..MaxChanges]
  <2>1. changes[t] \in 0..MaxChanges /\ changes[t] + 1 \in 0..MaxChanges
    BY <1>1, <1>2
  <2>2. QED
    BY <1>1, <1>2, <2>1
<1>5. input' \in Nat /\ ranged' \in BOOLEAN
  <2>1. input' \in Nat
    BY <1>1, <1>2
  <2>2. ranged \in BOOLEAN /\ (ranged' = ranged \/ ranged' = TRUE)
    BY <1>1, <1>2
  <2>3. ranged' \in BOOLEAN
    BY <2>2, Zenon
  <2>4. QED
    BY <2>1, <2>3
<1>6. Unwatched /\ "changed" \in Plain /\ "ask" \in Plain
  BY <1>1, <1>3, PlainFacts DEF Unwatched
<1>7. StackInv' /\ StackTyped'
  BY <1>1, <1>2, <1>6, BeginOne
<1>8. TypeOK'
  BY <1>1, <1>3, <1>4, <1>5, <1>7 DEF Inv, TypeOK, StackTyped, locks, chain, timer
<1>9. QED
  BY <1>7, <1>8 DEF Inv

-----------------------------------------------------------------------------
\* Then the steps that take and release locks.
Locks == {Free} \cup [by : Threads, n : Nat \ {0}]

LEMMA LockTaken ==
  ASSUME NEW lock \in Locks, NEW t \in Threads, CanLock(lock, t)
  PROVE  /\ Locked(lock, t) \in Locks /\ Locked(lock, t).by = t
         /\ Times(Locked(lock, t), t) = Times(lock, t) + 1
         /\ \A u \in Threads : u # t => /\ Times(Locked(lock, t), u) = Times(lock, u)
                                        /\ lock.by # u
<1>1. t # None /\ None \notin Threads
  BY ThreadAssumption DEF Threads
<1>2. CASE lock = Free
  BY <1>1, <1>2 DEF Locks, Locked, Times, Free
<1>3. CASE lock \in [by : Threads, n : Nat \ {0}]
  <2>1. lock.by = t
    BY <1>1, <1>3 DEF CanLock
  <2>2. QED
    BY <1>1, <1>3, <2>1 DEF Locks, Locked, Times
<1>4. QED
  BY <1>2, <1>3 DEF Locks

LEMMA LockReleased ==
  ASSUME NEW lock \in Locks, NEW t \in Threads, Times(lock, t) > 0
  PROVE  /\ Unlocked(lock) \in Locks /\ lock.by = t
         /\ Times(Unlocked(lock), t) = Times(lock, t) - 1
         /\ \A u \in Threads : u # t => /\ Times(Unlocked(lock), u) = Times(lock, u)
                                        /\ lock.by # u
<1>1. lock.by = t
  BY DEF Times
<1>2. None \notin Threads
  BY ThreadAssumption DEF Threads
<1>3. lock \in [by : Threads, n : Nat \ {0}]
  BY <1>1, <1>2 DEF Locks, Free
<1>4. CASE lock.n = 1
  BY <1>1, <1>2, <1>3, <1>4 DEF Locks, Unlocked, Times, Free
<1>5. CASE lock.n # 1
  <2>1. Unlocked(lock) = [lock EXCEPT !.n = @ - 1] /\ lock.n - 1 \in Nat \ {0}
    BY <1>3, <1>5 DEF Unlocked
  <2>2. QED
    BY <1>1, <1>3, <2>1 DEF Locks, Times
<1>6. QED
  BY <1>4, <1>5

\* Who has held a lock to release it, and more than once if another step is to.
LEMMA HeadReleases ==
  ASSUME Inv, NEW t \in Threads, stack[t] # <<>>
  PROVE  /\ Head(stack[t]) \in Releasing => Times(mappingLock, t) > 0
         /\ Head(stack[t]) \in ReleasingFilters => Times(filterLock, t) > 0
         /\ Head(stack[t]) \in Releasing /\ (\E b \in ToSet(Tail(stack[t])) : b \in Releasing)
              => Times(mappingLock, t) > 1
<1> DEFINE s == stack[t]
<1>1. /\ s \in Seq(Steps) /\ s # <<>>
      /\ Entries(s) = Times(mappingLock, t) /\ FilterEntries(s) = Times(filterLock, t)
  BY DEF Inv, TypeOK, StackInv, LockInv
<1> HIDE DEF s
<1>2. Tail(s) \in Seq(Steps) /\ <<>> \in Seq(Steps) /\ <<>> \o Tail(s) = Tail(s)
  BY <1>1, HeadElements
<1>3. /\ Count(<<>> \o Tail(s), Releasing) = Count(<<>>, Releasing) + Count(s, Releasing)
                                               - One(Head(s), Releasing)
      /\ Count(<<>> \o Tail(s), ReleasingFilters)
           = Count(<<>>, ReleasingFilters) + Count(s, ReleasingFilters)
               - One(Head(s), ReleasingFilters)
  BY <1>1, <1>2, CountReplaced
<1>4. /\ Count(Tail(s), Releasing) = Count(s, Releasing) - One(Head(s), Releasing)
      /\ Count(Tail(s), ReleasingFilters) = Count(s, ReleasingFilters)
                                              - One(Head(s), ReleasingFilters)
      /\ Count(Tail(s), Releasing) \in Nat /\ Count(s, Releasing) \in Nat
      /\ Count(Tail(s), ReleasingFilters) \in Nat /\ Count(s, ReleasingFilters) \in Nat
  <2>1. Count(<<>>, Releasing) = 0 /\ Count(<<>>, ReleasingFilters) = 0
    BY CountOne
  <2>2. Count(Tail(s), Releasing) \in Nat /\ Count(Tail(s), ReleasingFilters) \in Nat
    BY <1>2, CountType
  <2>3. Count(s, Releasing) \in Nat /\ Count(s, ReleasingFilters) \in Nat
    BY <1>1, CountType
  <2>4. One(Head(s), Releasing) \in Nat /\ One(Head(s), ReleasingFilters) \in Nat
    BY DEF One
  <2>5. /\ Count(Tail(s), Releasing) = 0 + Count(s, Releasing) - One(Head(s), Releasing)
        /\ Count(Tail(s), ReleasingFilters) = 0 + Count(s, ReleasingFilters)
                                                - One(Head(s), ReleasingFilters)
    BY <1>2, <1>3, <2>1
  <2>6. QED
    BY <2>2, <2>3, <2>4, <2>5
<1>5. ASSUME NEW b \in ToSet(Tail(s)), b \in Releasing
      PROVE  Count(Tail(s), Releasing) > 0
  <2>1. \E i \in 1..Len(Tail(s)) : Tail(s)[i] = b
    BY <1>2, <1>5, Elements
  <2>2. \E i \in 1..Len(Tail(s)) : Tail(s)[i] \in Releasing
    BY <1>5, <2>1
  <2>3. QED
    BY <1>2, <2>2, CountType
<1>6. Head(s) \in Releasing => Entries(s) = 1 + Count(Tail(s), Releasing)
  BY <1>4 DEF Entries, Entering, One, Releasing
<1>7. Head(s) \in ReleasingFilters => FilterEntries(s) = 1 + Count(Tail(s), ReleasingFilters)
  BY <1>4 DEF FilterEntries, Serving, One, ReleasingFilters
<1>8. /\ Head(s) \in Releasing => Times(mappingLock, t) > 0
      /\ Head(s) \in ReleasingFilters => Times(filterLock, t) > 0
  BY <1>1, <1>4, <1>6, <1>7
<1>9. Head(s) \in Releasing /\ (\E b \in ToSet(Tail(s)) : b \in Releasing)
        => Times(mappingLock, t) > 1
  BY <1>1, <1>4, <1>5, <1>6
<1>10. QED
  BY <1>8, <1>9 DEF s

\* What a call leaves, whatever it does with the locks.
LEMMA PutCall ==
  ASSUME Inv, NEW t \in Threads, stack[t] # <<>>, NEW new, Do(t, new),
         NEW T, NEW e, NEW f, Listed(new, T, e, f),
         \A a \in T, b \in ToSet(Tail(stack[t])) : Fits(a, b),
         T \cap {"send", "walk"} # {} => Sending(Onto(stack[t], new)),
         "serve" \notin T, "delete" \notin T
  PROVE  /\ ShapeInv' /\ StackTyped'
         /\ Entries(stack'[t]) = Times(mappingLock, t) + e - Entered(Head(stack[t]))
         /\ FilterEntries(stack'[t]) = Times(filterLock, t) + f - Served(Head(stack[t]))
         /\ \A u \in Threads : u # t => /\ Entries(stack'[u]) = Times(mappingLock, u)
                                        /\ FilterEntries(stack'[u]) = Times(filterLock, u)
                                        /\ ToSet(stack'[u]) = ToSet(stack[u])
         /\ ToSet(stack'[t]) = T \union ToSet(Tail(stack[t]))
         /\ ToSet(stack[t]) = {Head(stack[t])} \union ToSet(Tail(stack[t]))
<1>1. /\ stack'[t] = Onto(stack[t], new)
      /\ \A u \in Threads : u # t => stack'[u] = stack[u]
      /\ Onto(stack[t], new) \in Seq(Steps) => StackTyped'
  BY DoIs DEF Inv
<1>2. /\ \A u \in Threads : Fine(u, stack[u])
      /\ \A u \in Threads : /\ Entries(stack[u]) = Times(mappingLock, u)
                            /\ FilterEntries(stack[u]) = Times(filterLock, u)
  BY DEF Inv, StackInv, ShapeInv, LockInv
<1>3. Fine(t, stack[t])
  BY <1>2
<1>4. /\ Fine(t, Onto(stack[t], new))
      /\ ToSet(Onto(stack[t], new)) = T \union ToSet(Tail(stack[t]))
      /\ ToSet(stack[t]) = {Head(stack[t])} \union ToSet(Tail(stack[t]))
      /\ Entries(Onto(stack[t], new)) = Entries(stack[t]) + e - Entered(Head(stack[t]))
      /\ FilterEntries(Onto(stack[t], new)) = FilterEntries(stack[t]) + f - Served(Head(stack[t]))
  BY <1>3, PutFine
<1>5. ShapeInv'
  BY <1>1, <1>2, <1>4 DEF ShapeInv
<1>6. StackTyped'
  BY <1>1, <1>4 DEF Fine
<1>7. QED
  BY <1>1, <1>2, <1>4, <1>5, <1>6

LEMMA TimesInt ==
  ASSUME Inv, NEW t \in Threads
  PROVE  Times(mappingLock, t) \in Nat /\ Times(filterLock, t) \in Nat
<1>1. mappingLock.n \in Nat /\ filterLock.n \in Nat
  BY DEF Inv, TypeOK, Free
<1>2. QED
  BY <1>1 DEF Times

LEMMA PopCall ==
  ASSUME Inv, NEW t \in Threads, stack[t] # <<>>, Do(t, <<>>)
  PROVE  /\ ShapeInv' /\ StackTyped'
         /\ Entries(stack'[t]) = Times(mappingLock, t) - Entered(Head(stack[t]))
         /\ FilterEntries(stack'[t]) = Times(filterLock, t) - Served(Head(stack[t]))
         /\ \A u \in Threads : u # t => /\ Entries(stack'[u]) = Times(mappingLock, u)
                                        /\ FilterEntries(stack'[u]) = Times(filterLock, u)
                                        /\ ToSet(stack'[u]) = ToSet(stack[u])
         /\ ToSet(stack'[t]) = ToSet(Tail(stack[t]))
         /\ ToSet(stack[t]) = {Head(stack[t])} \union ToSet(Tail(stack[t]))
<1> DEFINE T == {}
<1>1. Listed(<<>>, T, 0, 0)
  BY ListedNone
<1>2. /\ \A a \in T, b \in ToSet(Tail(stack[t])) : Fits(a, b)
      /\ T \cap {"send", "walk"} = {} /\ "serve" \notin T /\ "delete" \notin T
      /\ T \union ToSet(Tail(stack[t])) = ToSet(Tail(stack[t]))
  OBVIOUS
<1> HIDE DEF T
<1>3. /\ ShapeInv' /\ StackTyped'
      /\ Entries(stack'[t]) = Times(mappingLock, t) + 0 - Entered(Head(stack[t]))
      /\ FilterEntries(stack'[t]) = Times(filterLock, t) + 0 - Served(Head(stack[t]))
      /\ \A u \in Threads : u # t => /\ Entries(stack'[u]) = Times(mappingLock, u)
                                     /\ FilterEntries(stack'[u]) = Times(filterLock, u)
                                     /\ ToSet(stack'[u]) = ToSet(stack[u])
      /\ ToSet(stack'[t]) = T \union ToSet(Tail(stack[t]))
      /\ ToSet(stack[t]) = {Head(stack[t])} \union ToSet(Tail(stack[t]))
  BY <1>1, <1>2, PutCall
<1>4. Times(mappingLock, t) \in Int /\ Times(filterLock, t) \in Int
  BY TimesInt
<1>5. Entered(Head(stack[t])) \in Int /\ Served(Head(stack[t])) \in Int
  BY DEF Entered, Served, One
<1>6. /\ Times(mappingLock, t) + 0 - Entered(Head(stack[t]))
           = Times(mappingLock, t) - Entered(Head(stack[t]))
      /\ Times(filterLock, t) + 0 - Served(Head(stack[t]))
           = Times(filterLock, t) - Served(Head(stack[t]))
  BY <1>4, <1>5
<1>7. ToSet(stack'[t]) = ToSet(Tail(stack[t]))
  BY <1>2, <1>3
<1>8. /\ Entries(stack'[t]) = Times(mappingLock, t) - Entered(Head(stack[t]))
      /\ FilterEntries(stack'[t]) = Times(filterLock, t) - Served(Head(stack[t]))
  BY <1>3, <1>6
<1>9. QED
  BY <1>3, <1>7, <1>8

\* Each thread's next value of the locks, when t takes one of them, or releases it.
LEMMA MappingLockTaken ==
  ASSUME Inv, NEW t \in Threads, CanLock(mappingLock, t),
         mappingLock' = Locked(mappingLock, t)
  PROVE  /\ mappingLock' \in Locks /\ mappingLock'.by = t
         /\ Times(mappingLock', t) = Times(mappingLock, t) + 1
         /\ \A u \in Threads : u # t =>
              /\ Times(mappingLock', u) = Times(mappingLock, u)
              /\ ~In(u, "unlock") /\ ~In(u, "built")
<1>1. mappingLock \in Locks
  BY DEF Inv, TypeOK, Locks
<1>2. QED
  BY <1>1, LockTaken DEF Inv, StackInv, HoldInv

LEMMA FilterLockTaken ==
  ASSUME Inv, NEW t \in Threads, CanLock(filterLock, t),
         filterLock' = Locked(filterLock, t)
  PROVE  /\ filterLock' \in Locks /\ filterLock'.by = t
         /\ Times(filterLock', t) = Times(filterLock, t) + 1
         /\ \A u \in Threads : u # t =>
              Times(filterLock', u) = Times(filterLock, u) /\ ~In(u, "unlock")
<1>1. filterLock \in Locks
  BY DEF Inv, TypeOK, Locks
<1>2. QED
  BY <1>1, LockTaken DEF Inv, StackInv, HoldInv

LEMMA MappingLockReleased ==
  ASSUME Inv, NEW t \in Threads, Times(mappingLock, t) > 0,
         mappingLock' = Unlocked(mappingLock)
  PROVE  /\ mappingLock' \in Locks /\ mappingLock.by = t
         /\ Times(mappingLock', t) = Times(mappingLock, t) - 1
         /\ \A u \in Threads : u # t =>
              /\ Times(mappingLock', u) = Times(mappingLock, u)
              /\ ~In(u, "unlock") /\ ~In(u, "built")
<1>1. mappingLock \in Locks
  BY DEF Inv, TypeOK, Locks
<1>2. QED
  BY <1>1, LockReleased DEF Inv, StackInv, HoldInv

LEMMA FilterLockReleased ==
  ASSUME Inv, NEW t \in Threads, Times(filterLock, t) > 0,
         filterLock' = Unlocked(filterLock)
  PROVE  /\ filterLock' \in Locks /\ filterLock.by = t
         /\ Times(filterLock', t) = Times(filterLock, t) - 1
         /\ \A u \in Threads : u # t =>
              Times(filterLock', u) = Times(filterLock, u) /\ ~In(u, "unlock")
<1>1. filterLock \in Locks
  BY DEF Inv, TypeOK, Locks
<1>2. QED
  BY <1>1, LockReleased DEF Inv, StackInv, HoldInv

LEMMA HeldSame ==
  ASSUME Inv, UNCHANGED <<held, removed>>, config'.filters = config.filters,
         \A u \in Threads, x \in {"unlock", "delete", "serve"} :
           x \in ToSet(stack'[u]) <=> x \in ToSet(stack[u])
  PROVE  HeldInv'
<1>1. MessageThread \in Threads
  BY DEF Threads
<1>2. QED
  BY <1>1 DEF Inv, StackInv, HeldInv, In

\* The beginning of an edit or of a parameter's change.
LEMMA EnterKeeps ==
  ASSUME Inv, NEW t \in Threads, Enter(t)
  PROVE  Inv'
<1>1. /\ stack[t] # <<>> /\ Head(stack[t]) = "enter" /\ Do(t, <<>>)
      /\ CanLock(mappingLock, t) /\ mappingLock' = Locked(mappingLock, t)
      /\ UNCHANGED <<filterLock, flags, chain, edited, timer, posted, values, counts>>
  BY DEF Enter, At
<1>2. Entered("enter") = -1 /\ Served("enter") = 0
  BY DEF Entered, Served, One, Releasing, ReleasingFilters
<1>3. /\ ShapeInv' /\ StackTyped'
      /\ Entries(stack'[t]) = Times(mappingLock, t) - Entered(Head(stack[t]))
      /\ FilterEntries(stack'[t]) = Times(filterLock, t) - Served(Head(stack[t]))
      /\ \A u \in Threads : u # t => /\ Entries(stack'[u]) = Times(mappingLock, u)
                                     /\ FilterEntries(stack'[u]) = Times(filterLock, u)
                                     /\ ToSet(stack'[u]) = ToSet(stack[u])
      /\ ToSet(stack'[t]) = ToSet(Tail(stack[t]))
      /\ ToSet(stack[t]) = {Head(stack[t])} \union ToSet(Tail(stack[t]))
  BY <1>1, PopCall
<1>4. /\ mappingLock' \in Locks /\ mappingLock'.by = t
      /\ Times(mappingLock', t) = Times(mappingLock, t) + 1
      /\ \A u \in Threads : u # t =>
           /\ Times(mappingLock', u) = Times(mappingLock, u)
           /\ ~In(u, "unlock") /\ ~In(u, "built")
  BY <1>1, MappingLockTaken
<1>5. LockInv'
  BY <1>1, <1>2, <1>3, <1>4, TimesInt DEF LockInv
<1>6. \A u \in Threads, x \in Watched : x \in ToSet(stack'[u]) <=> x \in ToSet(stack[u])
  BY <1>1, <1>3 DEF Watched
<1>7. HoldInv'
  BY <1>1, <1>4, <1>6 DEF Inv, StackInv, HoldInv, In, Watched
<1>8. FlagInv'
  BY <1>1, <1>6 DEF Inv, StackInv, FlagInv, In, Watched
<1>9. HeldInv'
  BY <1>1, <1>6, HeldSame DEF edited, values, Watched
<1>10. TypeOK'
  BY <1>1, <1>3, <1>4 DEF Inv, TypeOK, StackTyped, Locks, chain, edited, timer, values, counts
<1>11. QED
  BY <1>3, <1>5, <1>7, <1>8, <1>9, <1>10 DEF Inv, StackInv

LEMMA LeaveKeeps ==
  ASSUME Inv, NEW t \in Threads, Leave(t)
  PROVE  Inv'
<1>1. /\ stack[t] # <<>> /\ Head(stack[t]) = "leave" /\ Do(t, <<>>)
      /\ mappingLock' = Unlocked(mappingLock)
      /\ UNCHANGED <<filterLock, flags, chain, edited, timer, posted, values, counts>>
  BY DEF Leave, At
<1>2. Entered("leave") = 1 /\ Served("leave") = 0 /\ "leave" \in Releasing
  BY DEF Entered, Served, One, Releasing, ReleasingFilters
<1>3. /\ ShapeInv' /\ StackTyped'
      /\ Entries(stack'[t]) = Times(mappingLock, t) - Entered(Head(stack[t]))
      /\ FilterEntries(stack'[t]) = Times(filterLock, t) - Served(Head(stack[t]))
      /\ \A u \in Threads : u # t => /\ Entries(stack'[u]) = Times(mappingLock, u)
                                     /\ FilterEntries(stack'[u]) = Times(filterLock, u)
                                     /\ ToSet(stack'[u]) = ToSet(stack[u])
      /\ ToSet(stack'[t]) = ToSet(Tail(stack[t]))
      /\ ToSet(stack[t]) = {Head(stack[t])} \union ToSet(Tail(stack[t]))
  BY <1>1, PopCall
<1>4. /\ Times(mappingLock, t) > 0
      /\ (\E b \in ToSet(Tail(stack[t])) : b \in Releasing) => Times(mappingLock, t) > 1
  BY <1>1, <1>2, HeadReleases
<1>5. /\ mappingLock' \in Locks /\ mappingLock.by = t
      /\ Times(mappingLock', t) = Times(mappingLock, t) - 1
      /\ \A u \in Threads : u # t =>
           /\ Times(mappingLock', u) = Times(mappingLock, u)
           /\ ~In(u, "unlock") /\ ~In(u, "built")
  BY <1>1, <1>4, MappingLockReleased
<1>6. LockInv'
  BY <1>1, <1>2, <1>3, <1>5, TimesInt DEF LockInv
<1>7. \A u \in Threads, x \in Watched : x \in ToSet(stack'[u]) <=> x \in ToSet(stack[u])
  BY <1>1, <1>3 DEF Watched
<1>8. In(t, "unlock")' \/ In(t, "built")' => mappingLock'.by = t
  <2>1. SUFFICES ASSUME In(t, "unlock")' \/ In(t, "built")' PROVE mappingLock'.by = t
    OBVIOUS
  <2>2. Times(mappingLock, t) > 1
    BY <1>3, <1>4, <2>1 DEF In, Releasing
  <2>3. Times(mappingLock', t) # 0
    BY <1>5, <2>2, TimesInt
  <2>4. QED
    BY <2>3 DEF Times
<1>9. HoldInv'
  BY <1>1, <1>5, <1>7, <1>8 DEF Inv, StackInv, HoldInv, In, Watched
<1>10. FlagInv'
  BY <1>1, <1>7 DEF Inv, StackInv, FlagInv, In, Watched
<1>11. HeldInv'
  BY <1>1, <1>7, HeldSame DEF edited, values, Watched
<1>12. TypeOK'
  BY <1>1, <1>3, <1>5 DEF Inv, TypeOK, StackTyped, Locks, chain, edited, timer, values, counts
<1>13. QED
  BY <1>3, <1>6, <1>9, <1>10, <1>11, <1>12 DEF Inv, StackInv

\* Who waited for filterLock finds no filters in use.
LEMMA EnterFiltersKeeps ==
  ASSUME Inv, NEW t \in Threads, EnterFilters(t)
  PROVE  Inv'
<1>1. /\ stack[t] # <<>> /\ Head(stack[t]) = "serve" /\ Do(t, <<>>)
      /\ CanLock(filterLock, t) /\ filterLock' = Locked(filterLock, t)
      /\ UNCHANGED <<mappingLock, flags, chain, edited, timer, posted, values, counts>>
  BY DEF EnterFilters, At
<1>2. Entered("serve") = 0 /\ Served("serve") = -1
  BY DEF Entered, Served, One, Releasing, ReleasingFilters
<1>3. /\ ShapeInv' /\ StackTyped'
      /\ Entries(stack'[t]) = Times(mappingLock, t) - Entered(Head(stack[t]))
      /\ FilterEntries(stack'[t]) = Times(filterLock, t) - Served(Head(stack[t]))
      /\ \A u \in Threads : u # t => /\ Entries(stack'[u]) = Times(mappingLock, u)
                                     /\ FilterEntries(stack'[u]) = Times(filterLock, u)
                                     /\ ToSet(stack'[u]) = ToSet(stack[u])
      /\ ToSet(stack'[t]) = ToSet(Tail(stack[t]))
      /\ ToSet(stack[t]) = {Head(stack[t])} \union ToSet(Tail(stack[t]))
  BY <1>1, PopCall
<1>4. /\ filterLock' \in Locks /\ filterLock'.by = t
      /\ Times(filterLock', t) = Times(filterLock, t) + 1
      /\ \A u \in Threads : u # t =>
           Times(filterLock', u) = Times(filterLock, u) /\ ~In(u, "unlock")
  BY <1>1, FilterLockTaken
<1>5. LockInv'
  BY <1>1, <1>2, <1>3, <1>4, TimesInt DEF LockInv
<1>6. \A u \in Threads, x \in {"unlock", "built", "delete"} :
        x \in ToSet(stack'[u]) <=> x \in ToSet(stack[u])
  BY <1>1, <1>3
<1>7. HoldInv'
  BY <1>1, <1>4, <1>6 DEF Inv, StackInv, HoldInv, In
<1>8. FlagInv'
  BY <1>1, <1>6 DEF Inv, StackInv, FlagInv, In
<1>9. HeldInv'
  <2>1. ~In(t, "unlock")
    <3>1. \A b \in ToSet(Tail(stack[t])) : b # "unlock"
      BY <1>1, Below DEF Fits, WhileProcessing
    <3>2. QED
      BY <1>1, <1>3, <3>1 DEF In
  <2>2. \A u \in Threads : held[u].filters = {}
    BY <1>4, <2>1 DEF Inv, StackInv, HeldInv
  <2>3. /\ UNCHANGED <<held, removed, config>> /\ MessageThread \in Threads
    BY <1>1 DEF edited, values, Threads
  <2>4. QED
    BY <1>6, <2>2, <2>3 DEF Inv, StackInv, HeldInv, In
<1>10. TypeOK'
  BY <1>1, <1>3, <1>4 DEF Inv, TypeOK, StackTyped, Locks, chain, edited, timer, values, counts
<1>11. QED
  BY <1>3, <1>5, <1>7, <1>8, <1>9, <1>10 DEF Inv, StackInv

LEMMA LeaveFiltersKeeps ==
  ASSUME Inv, NEW t \in Threads, LeaveFilters(t)
  PROVE  Inv'
<1>1. /\ stack[t] # <<>> /\ Head(stack[t]) = "served" /\ Do(t, <<>>)
      /\ filterLock' = Unlocked(filterLock)
      /\ UNCHANGED <<mappingLock, flags, chain, edited, timer, posted, values, counts>>
  BY DEF LeaveFilters, At
<1>2. Entered("served") = 0 /\ Served("served") = 1 /\ "served" \in ReleasingFilters
  BY DEF Entered, Served, One, Releasing, ReleasingFilters
<1>3. /\ ShapeInv' /\ StackTyped'
      /\ Entries(stack'[t]) = Times(mappingLock, t) - Entered(Head(stack[t]))
      /\ FilterEntries(stack'[t]) = Times(filterLock, t) - Served(Head(stack[t]))
      /\ \A u \in Threads : u # t => /\ Entries(stack'[u]) = Times(mappingLock, u)
                                     /\ FilterEntries(stack'[u]) = Times(filterLock, u)
                                     /\ ToSet(stack'[u]) = ToSet(stack[u])
      /\ ToSet(stack'[t]) = ToSet(Tail(stack[t]))
      /\ ToSet(stack[t]) = {Head(stack[t])} \union ToSet(Tail(stack[t]))
  BY <1>1, PopCall
<1>4. Times(filterLock, t) > 0
  BY <1>1, <1>2, HeadReleases
<1>5. /\ filterLock' \in Locks /\ filterLock.by = t
      /\ Times(filterLock', t) = Times(filterLock, t) - 1
      /\ \A u \in Threads : u # t =>
           Times(filterLock', u) = Times(filterLock, u) /\ ~In(u, "unlock")
  BY <1>1, <1>4, FilterLockReleased
<1>6. LockInv'
  BY <1>1, <1>2, <1>3, <1>5, TimesInt DEF LockInv
<1>7. \A u \in Threads, x \in Watched : x \in ToSet(stack'[u]) <=> x \in ToSet(stack[u])
  BY <1>1, <1>3 DEF Watched
<1>8. ~In(t, "unlock")
  <2>1. \A b \in ToSet(Tail(stack[t])) : b # "unlock"
    BY <1>1, Below DEF Fits, WhileProcessing
  <2>2. QED
    BY <1>1, <1>3, <2>1 DEF In
<1>9. HoldInv'
  BY <1>1, <1>5, <1>7, <1>8 DEF Inv, StackInv, HoldInv, In, Watched
<1>10. FlagInv'
  BY <1>1, <1>7 DEF Inv, StackInv, FlagInv, In, Watched
<1>11. HeldInv'
  BY <1>1, <1>7, HeldSame DEF edited, values, Watched
<1>12. TypeOK'
  BY <1>1, <1>3, <1>5 DEF Inv, TypeOK, StackTyped, Locks, chain, edited, timer, values, counts
<1>13. QED
  BY <1>3, <1>6, <1>9, <1>10, <1>11, <1>12 DEF Inv, StackInv

LEMMA DeleteKeeps ==
  ASSUME Inv, NEW t \in Threads, Delete(t)
  PROVE  Inv'
<1>1. /\ stack[t] # <<>> /\ Head(stack[t]) = "delete" /\ Do(t, <<>>) /\ removed' = {}
      /\ UNCHANGED <<locks, flags, chain, config, enabled, forced, timer, posted, values, counts>>
  BY DEF Delete, At
<1>2. Entered("delete") = 0 /\ Served("delete") = 0
  BY DEF Entered, Served, One, Releasing, ReleasingFilters
<1>3. /\ ShapeInv' /\ StackTyped'
      /\ Entries(stack'[t]) = Times(mappingLock, t) - Entered(Head(stack[t]))
      /\ FilterEntries(stack'[t]) = Times(filterLock, t) - Served(Head(stack[t]))
      /\ \A u \in Threads : u # t => /\ Entries(stack'[u]) = Times(mappingLock, u)
                                     /\ FilterEntries(stack'[u]) = Times(filterLock, u)
                                     /\ ToSet(stack'[u]) = ToSet(stack[u])
      /\ ToSet(stack'[t]) = ToSet(Tail(stack[t]))
      /\ ToSet(stack[t]) = {Head(stack[t])} \union ToSet(Tail(stack[t]))
  BY <1>1, PopCall
<1>4. LockInv'
  BY <1>1, <1>2, <1>3, TimesInt DEF LockInv, locks
<1>5. \A u \in Threads, x \in {"unlock", "built"} : x \in ToSet(stack'[u]) <=> x \in ToSet(stack[u])
  BY <1>1, <1>3
<1>6. HoldInv'
  BY <1>1, <1>5 DEF Inv, StackInv, HoldInv, In, locks
<1>7. FlagInv'
  BY <1>1, <1>5 DEF Inv, StackInv, FlagInv, In
<1>8. HeldInv'
  <2>1. t = MessageThread
    BY <1>1, <1>3 DEF Inv, StackInv, ShapeInv, Fine
  <2>2. ~In(MessageThread, "serve")
    <3>1. \A b \in ToSet(Tail(stack[t])) : b # "serve"
      BY <1>1, Below DEF HeadOnly
    <3>2. QED
      BY <1>1, <1>3, <2>1, <3>1 DEF In
  <2>3. \A u \in Threads : held[u].filters \subseteq config.filters
    BY <2>2 DEF Inv, StackInv, HeldInv
  <2>4. UNCHANGED <<held, config>>
    BY <1>1 DEF values
  <2>5. QED
    BY <1>1, <1>5, <2>3, <2>4 DEF Inv, StackInv, HeldInv, In
<1>9. TypeOK'
  BY <1>1, <1>3 DEF Inv, TypeOK, StackTyped, locks, chain, timer, values, counts
<1>10. QED
  BY <1>3, <1>4, <1>6, <1>7, <1>8, <1>9 DEF Inv, StackInv

LEMMA FreeLocksKeeps ==
  ASSUME Inv, FreeLocks
  PROVE  Inv'
<1>1. /\ stack[Timer] # <<>> /\ Head(stack[Timer]) = "free" /\ Do(Timer, <<>>)
      /\ mappingLock' = Unlocked(mappingLock) /\ filterLock' = Unlocked(filterLock)
      /\ UNCHANGED <<flags, chain, edited, timer, posted, values, counts>>
      /\ Timer \in Threads
  BY DEF FreeLocks, At, Threads
<1>2. /\ Entered("free") = 1 /\ Served("free") = 1
      /\ "free" \in Releasing /\ "free" \in ReleasingFilters
  BY DEF Entered, Served, One, Releasing, ReleasingFilters
<1>3. /\ ShapeInv' /\ StackTyped'
      /\ Entries(stack'[Timer]) = Times(mappingLock, Timer) - Entered(Head(stack[Timer]))
      /\ FilterEntries(stack'[Timer]) = Times(filterLock, Timer) - Served(Head(stack[Timer]))
      /\ \A u \in Threads : u # Timer => /\ Entries(stack'[u]) = Times(mappingLock, u)
                                         /\ FilterEntries(stack'[u]) = Times(filterLock, u)
                                         /\ ToSet(stack'[u]) = ToSet(stack[u])
      /\ ToSet(stack'[Timer]) = ToSet(Tail(stack[Timer]))
      /\ ToSet(stack[Timer]) = {Head(stack[Timer])} \union ToSet(Tail(stack[Timer]))
  BY <1>1, PopCall
<1>4. Times(mappingLock, Timer) > 0 /\ Times(filterLock, Timer) > 0
  BY <1>1, <1>2, HeadReleases
<1>5. /\ mappingLock' \in Locks /\ Times(mappingLock', Timer) = Times(mappingLock, Timer) - 1
      /\ \A u \in Threads : u # Timer =>
           /\ Times(mappingLock', u) = Times(mappingLock, u)
           /\ ~In(u, "unlock") /\ ~In(u, "built")
  BY <1>1, <1>4, MappingLockReleased
<1>6. /\ filterLock' \in Locks /\ Times(filterLock', Timer) = Times(filterLock, Timer) - 1
      /\ \A u \in Threads : u # Timer => Times(filterLock', u) = Times(filterLock, u)
  BY <1>1, <1>4, FilterLockReleased
<1>7. LockInv'
  BY <1>1, <1>2, <1>3, <1>5, <1>6, TimesInt DEF LockInv
<1>8. \A u \in Threads, x \in Watched : x \in ToSet(stack'[u]) <=> x \in ToSet(stack[u])
  BY <1>1, <1>3 DEF Watched
<1>9. ~In(Timer, "unlock") /\ ~In(Timer, "built")
  <2>1. \A b \in ToSet(Tail(stack[Timer])) : b # "unlock" /\ b # "built"
    BY <1>1, Below DEF Fits, WhileProcessing, WhileBuilding
  <2>2. QED
    BY <1>1, <1>3, <2>1 DEF In
<1>10. HoldInv'
  BY <1>5, <1>8, <1>9 DEF HoldInv, In, Watched
<1>11. FlagInv'
  BY <1>1, <1>8 DEF Inv, StackInv, FlagInv, In, Watched
<1>12. HeldInv'
  BY <1>1, <1>8, HeldSame DEF edited, values, Watched
<1>13. TypeOK'
  BY <1>1, <1>3, <1>5, <1>6
     DEF Inv, TypeOK, StackTyped, Locks, chain, edited, timer, values, counts
<1>14. QED
  BY <1>3, <1>7, <1>10, <1>11, <1>12, <1>13 DEF Inv, StackInv

-----------------------------------------------------------------------------
\* The beginning and the end of a rebuild.
LEMMA RebuildKeeps ==
  ASSUME Inv, NEW t \in Threads, Rebuild(t)
  PROVE  Inv'
<1>1. /\ stack[t] # <<>> /\ Head(stack[t]) = "rebuild" /\ Do(t, <<"build", "check", "built">>)
      /\ CanLock(mappingLock, t) /\ mappingLock' = Locked(mappingLock, t)
      /\ flags' = [flags EXCEPT !.rebuilding = TRUE, !.pending = FALSE]
      /\ fm' = [fm EXCEPT !.rebuilding = TRUE]
      /\ UNCHANGED <<filterLock, built, edited, timer, posted, values, counts>>
  BY DEF Rebuild, At
<1> DEFINE T == {"build", "check", "built"}
           new == <<"build", "check", "built">>
<1>2. Entered("rebuild") = 0 /\ Served("rebuild") = 0
  BY DEF Entered, Served, One, Releasing, ReleasingFilters
<1>3. Listed(new, T, 1, 0)
  <2>1. /\ Entered("build") + One("check", Releasing) + One("built", Releasing) = 1
        /\ Served("build") + One("check", ReleasingFilters) + One("built", ReleasingFilters) = 0
    BY DEF Entered, Served, One, Releasing, ReleasingFilters
  <2>2. Fits("build", "check") /\ Fits("build", "built") /\ Fits("check", "built")
    BY DEF Fits, HeadOnly, WhileBuilding
  <2>3. "build" \in Steps /\ "check" \in Steps /\ "built" \in Steps
    BY DEF Steps
  <2>4. QED
    BY <2>1, <2>2, <2>3, ListedThree
<1>4. \A a \in T, b \in ToSet(Tail(stack[t])) : Fits(a, b)
  BY <1>1, Below DEF Fits, WhileBuilding, WhileProcessing
<1>5. /\ T \cap {"send", "walk"} = {} /\ "serve" \notin T /\ "delete" \notin T /\ "unlock" \notin T
      /\ "built" \in T
  OBVIOUS
<1> HIDE DEF T, new
<1>6. /\ ShapeInv' /\ StackTyped'
      /\ Entries(stack'[t]) = Times(mappingLock, t) + 1 - Entered(Head(stack[t]))
      /\ FilterEntries(stack'[t]) = Times(filterLock, t) + 0 - Served(Head(stack[t]))
      /\ \A u \in Threads : u # t => /\ Entries(stack'[u]) = Times(mappingLock, u)
                                     /\ FilterEntries(stack'[u]) = Times(filterLock, u)
                                     /\ ToSet(stack'[u]) = ToSet(stack[u])
      /\ ToSet(stack'[t]) = T \union ToSet(Tail(stack[t]))
      /\ ToSet(stack[t]) = {Head(stack[t])} \union ToSet(Tail(stack[t]))
  <2>1. Do(t, new)
    BY <1>1 DEF new
  <2>2. QED
    BY <1>1, <1>3, <1>4, <1>5, <2>1, PutCall
<1>7. /\ mappingLock' \in Locks /\ mappingLock'.by = t
      /\ Times(mappingLock', t) = Times(mappingLock, t) + 1
      /\ \A u \in Threads : u # t =>
           /\ Times(mappingLock', u) = Times(mappingLock, u)
           /\ ~In(u, "unlock") /\ ~In(u, "built")
  BY <1>1, MappingLockTaken
<1>8. LockInv'
  BY <1>1, <1>2, <1>6, <1>7, TimesInt DEF LockInv
<1>9. \A u \in Threads, x \in {"unlock", "delete", "serve"} :
        x \in ToSet(stack'[u]) <=> x \in ToSet(stack[u])
  BY <1>1, <1>5, <1>6
<1>10. HoldInv'
  BY <1>1, <1>6, <1>7, <1>9 DEF Inv, StackInv, HoldInv, In
<1>11. flags' \in [rebuilding : BOOLEAN, processing : BOOLEAN, after : BOOLEAN, pending : BOOLEAN]
       /\ flags'.rebuilding = TRUE /\ flags'.processing = flags.processing
  BY <1>1 DEF Inv, TypeOK
<1>12. FlagInv'
  <2>1. In(t, "built")'
    BY <1>5, <1>6 DEF In
  <2>2. QED
    BY <1>9, <1>11, <2>1 DEF Inv, StackInv, FlagInv, In
<1>13. HeldInv'
  BY <1>1, <1>9, HeldSame DEF edited, values
<1>14. TypeOK'
  <2>1. fm' \in [needsRebuild : BOOLEAN, rebuilding : BOOLEAN]
    BY <1>1 DEF Inv, TypeOK
  <2>2. QED
    BY <1>1, <1>6, <1>7, <1>11, <2>1
       DEF Inv, TypeOK, StackTyped, Locks, edited, timer, values, counts
<1>15. QED
  BY <1>6, <1>8, <1>10, <1>12, <1>13, <1>14 DEF Inv, StackInv

LEMMA BuiltKeeps ==
  ASSUME Inv, NEW t \in Threads, Built(t)
  PROVE  Inv'
<1>1. /\ stack[t] # <<>> /\ Head(stack[t]) = "built" /\ Do(t, <<"again">>)
      /\ mappingLock' = Unlocked(mappingLock)
      /\ flags' = [flags EXCEPT !.rebuilding = FALSE]
      /\ UNCHANGED <<filterLock, chain, edited, timer, posted, values, counts>>
  BY DEF Built, At
<1> DEFINE T == {"again"}
           new == <<"again">>
<1>2. /\ Entered("built") = 1 /\ Served("built") = 0 /\ "built" \in Releasing
      /\ Entered("again") = 0 /\ Served("again") = 0 /\ "again" \in Steps
  BY DEF Entered, Served, One, Releasing, ReleasingFilters, Steps
<1>3. Listed(new, T, 0, 0)
  BY <1>2, ListedOne
<1>4. \A b \in ToSet(Tail(stack[t])) : Fits("again", b) /\ b # "built" /\ b # "unlock"
  BY <1>1, Below DEF Fits, WhileBuilding, WhileProcessing
<1>5. /\ T \cap {"send", "walk"} = {} /\ T \cap Watched = {}
      /\ \A a \in T, b \in ToSet(Tail(stack[t])) : Fits(a, b)
  BY <1>4 DEF Watched
<1> HIDE DEF T, new
<1>6. /\ ShapeInv' /\ StackTyped'
      /\ Entries(stack'[t]) = Times(mappingLock, t) + 0 - Entered(Head(stack[t]))
      /\ FilterEntries(stack'[t]) = Times(filterLock, t) + 0 - Served(Head(stack[t]))
      /\ \A u \in Threads : u # t => /\ Entries(stack'[u]) = Times(mappingLock, u)
                                     /\ FilterEntries(stack'[u]) = Times(filterLock, u)
                                     /\ ToSet(stack'[u]) = ToSet(stack[u])
      /\ ToSet(stack'[t]) = T \union ToSet(Tail(stack[t]))
      /\ ToSet(stack[t]) = {Head(stack[t])} \union ToSet(Tail(stack[t]))
  <2>1. Do(t, new)
    BY <1>1 DEF new
  <2>2. "serve" \notin T /\ "delete" \notin T
    BY <1>5 DEF Watched
  <2>3. QED
    BY <1>1, <1>3, <1>5, <2>1, <2>2, PutCall
<1>7. Times(mappingLock, t) > 0
  BY <1>1, <1>2, HeadReleases
<1>8. /\ mappingLock' \in Locks
      /\ Times(mappingLock', t) = Times(mappingLock, t) - 1
      /\ \A u \in Threads : u # t =>
           /\ Times(mappingLock', u) = Times(mappingLock, u)
           /\ ~In(u, "unlock") /\ ~In(u, "built")
  BY <1>1, <1>7, MappingLockReleased
<1>9. LockInv'
  BY <1>1, <1>2, <1>6, <1>8, TimesInt DEF LockInv
<1>10. \A u \in Threads, x \in {"unlock", "delete", "serve"} :
         x \in ToSet(stack'[u]) <=> x \in ToSet(stack[u])
  BY <1>1, <1>5, <1>6 DEF Watched
<1>11. \A u \in Threads : "unlock" \notin ToSet(stack'[u]) /\ "built" \notin ToSet(stack'[u])
  BY <1>4, <1>5, <1>6, <1>8 DEF In, Watched
<1>12. HoldInv'
  BY <1>11 DEF HoldInv, In
<1>13. flags' \in [rebuilding : BOOLEAN, processing : BOOLEAN, after : BOOLEAN, pending : BOOLEAN]
       /\ flags'.rebuilding = FALSE /\ flags'.processing = flags.processing
  BY <1>1 DEF Inv, TypeOK
<1>14. FlagInv'
  BY <1>10, <1>11, <1>13 DEF Inv, StackInv, FlagInv, In
<1>15. HeldInv'
  BY <1>1, <1>10, HeldSame DEF edited, values
<1>16. TypeOK'
  BY <1>1, <1>6, <1>8, <1>13
     DEF Inv, TypeOK, StackTyped, Locks, chain, edited, timer, values, counts
<1>17. QED
  BY <1>6, <1>9, <1>12, <1>14, <1>15, <1>16 DEF Inv, StackInv

-----------------------------------------------------------------------------
\* A process: its two locks, and its end.
LEMMA LockKeeps ==
  ASSUME Inv, NEW t \in Threads, Lock(t)
  PROVE  Inv'
<1>1. /\ stack[t] # <<>> /\ Head(stack[t]) = "lock" /\ Do(t, <<"filters">>)
      /\ CanLock(mappingLock, t) /\ mappingLock' = Locked(mappingLock, t)
      /\ UNCHANGED <<filterLock, flags, chain, edited, timer, posted, values, counts>>
  BY DEF Lock, At
<1> DEFINE T == {"filters"}
           new == <<"filters">>
<1>2. /\ Entered("lock") = 0 /\ Served("lock") = 0
      /\ Entered("filters") = 1 /\ Served("filters") = 0 /\ "filters" \in Steps
  BY DEF Entered, Served, One, Releasing, ReleasingFilters, Steps
<1>3. Listed(new, T, 1, 0)
  BY <1>2, ListedOne
<1>4. \A b \in ToSet(Tail(stack[t])) : Fits("filters", b)
  BY <1>1, Below DEF Fits, WhileBuilding, WhileProcessing
<1>5. /\ T \cap {"send", "walk"} = {} /\ T \cap Watched = {}
      /\ \A a \in T, b \in ToSet(Tail(stack[t])) : Fits(a, b)
  BY <1>4 DEF Watched
<1> HIDE DEF T, new
<1>6. /\ ShapeInv' /\ StackTyped'
      /\ Entries(stack'[t]) = Times(mappingLock, t) + 1 - Entered(Head(stack[t]))
      /\ FilterEntries(stack'[t]) = Times(filterLock, t) + 0 - Served(Head(stack[t]))
      /\ \A u \in Threads : u # t => /\ Entries(stack'[u]) = Times(mappingLock, u)
                                     /\ FilterEntries(stack'[u]) = Times(filterLock, u)
                                     /\ ToSet(stack'[u]) = ToSet(stack[u])
      /\ ToSet(stack'[t]) = T \union ToSet(Tail(stack[t]))
      /\ ToSet(stack[t]) = {Head(stack[t])} \union ToSet(Tail(stack[t]))
  <2>1. Do(t, new)
    BY <1>1 DEF new
  <2>2. "serve" \notin T /\ "delete" \notin T
    BY <1>5 DEF Watched
  <2>3. QED
    BY <1>1, <1>3, <1>5, <2>1, <2>2, PutCall
<1>7. /\ mappingLock' \in Locks /\ mappingLock'.by = t
      /\ Times(mappingLock', t) = Times(mappingLock, t) + 1
      /\ \A u \in Threads : u # t =>
           /\ Times(mappingLock', u) = Times(mappingLock, u)
           /\ ~In(u, "unlock") /\ ~In(u, "built")
  BY <1>1, MappingLockTaken
<1>8. LockInv'
  BY <1>1, <1>2, <1>6, <1>7, TimesInt DEF LockInv
<1>9. \A u \in Threads, x \in Watched : x \in ToSet(stack'[u]) <=> x \in ToSet(stack[u])
  BY <1>1, <1>5, <1>6 DEF Watched
<1>10. HoldInv'
  BY <1>1, <1>7, <1>9 DEF Inv, StackInv, HoldInv, In, Watched
<1>11. FlagInv'
  BY <1>1, <1>9 DEF Inv, StackInv, FlagInv, In, Watched
<1>12. HeldInv'
  BY <1>1, <1>9, HeldSame DEF edited, values, Watched
<1>13. TypeOK'
  BY <1>1, <1>6, <1>7 DEF Inv, TypeOK, StackTyped, Locks, chain, edited, timer, values, counts
<1>14. QED
  BY <1>6, <1>8, <1>10, <1>11, <1>12, <1>13 DEF Inv, StackInv

LEMMA ProcessFiltersKeeps ==
  ASSUME Inv, NEW t \in Threads, ProcessFilters(t)
  PROVE  Inv'
<1> DEFINE Processing == [value |-> input, filters |-> config.filters \cap config.enabled]
<1>1. /\ stack[t] # <<>> /\ Head(stack[t]) = "filters"
      /\ CanLock(filterLock, t) /\ filterLock' = Locked(filterLock, t)
      /\ flags' = [flags EXCEPT !.processing = TRUE]
      /\ Do(t, <<"unlock">>) \/ Do(t, <<"send", "unlock">>) \/ Do(t, <<"walk", "unlock">>)
      /\ held' = held \/ held' = [held EXCEPT ![t] = Processing]
      /\ UNCHANGED <<mappingLock, chain, edited, timer, posted, input, out, counts>>
  BY DEF ProcessFilters, At, Processed
<1>2. Entered("filters") = 1 /\ Served("filters") = 0 /\ "filters" \in Releasing
  BY DEF Entered, Served, One, Releasing, ReleasingFilters
<1>3. \E new, T : /\ Do(t, new) /\ Listed(new, T, 1, 1)
                  /\ T \subseteq {"send", "walk", "unlock"} /\ "unlock" \in T
                  /\ \/ T = {"unlock"}
                     \/ \E a \in {"send", "walk"} : new = <<a, "unlock">>
  <2>1. /\ Entered("unlock") = 1 /\ Served("unlock") = 1
        /\ \A a \in {"send", "walk"} : /\ Entered(a) + One("unlock", Releasing) = 1
                                       /\ Served(a) + One("unlock", ReleasingFilters) = 1
    BY DEF Entered, Served, One, Releasing, ReleasingFilters
  <2>2. \A a \in {"send", "walk"} : Fits(a, "unlock")
    BY DEF Fits, HeadOnly, WhileProcessing
  <2>3. "send" \in Steps /\ "walk" \in Steps /\ "unlock" \in Steps
    BY DEF Steps
  <2>4. Listed(<<"unlock">>, {"unlock"}, 1, 1)
    BY <2>1, <2>3, ListedOne
  <2>5. \A a \in {"send", "walk"} : Listed(<<a, "unlock">>, {a, "unlock"}, 1, 1)
    BY <2>1, <2>2, <2>3, ListedTwo
  <2>6. CASE Do(t, <<"unlock">>)
    BY <2>4, <2>6
  <2>7. CASE Do(t, <<"send", "unlock">>)
    BY <2>5, <2>7
  <2>8. CASE Do(t, <<"walk", "unlock">>)
    BY <2>5, <2>8
  <2>9. QED
    BY <1>1, <2>6, <2>7, <2>8
<1>4. PICK new, T : /\ Do(t, new) /\ Listed(new, T, 1, 1)
                    /\ T \subseteq {"send", "walk", "unlock"} /\ "unlock" \in T
                    /\ \/ T = {"unlock"}
                       \/ \E a \in {"send", "walk"} : new = <<a, "unlock">>
  BY <1>3
<1>4a. T \cap {"send", "walk"} # {} => Sending(Onto(stack[t], new))
  <2>1. SUFFICES ASSUME NEW a \in {"send", "walk"}, new = <<a, "unlock">>
                 PROVE  Sending(Onto(stack[t], new))
    BY <1>4
  <2>2. /\ new \in Seq(Steps) /\ Len(new) = 2 /\ new[2] = "unlock"
    BY <1>4, <2>1 DEF Listed
  <2>3. Tail(stack[t]) \in Seq(Steps) /\ Len(Tail(stack[t])) \in Nat
    BY <1>1, HeadElements, LenProperties DEF Inv, TypeOK
  <2>4. /\ Len(Onto(stack[t], new)) = 2 + Len(Tail(stack[t]))
        /\ \A i \in 1..(2 + Len(Tail(stack[t]))) :
             Onto(stack[t], new)[i] = IF i <= 2 THEN new[i] ELSE Tail(stack[t])[i - 2]
    <3>1. \A q, s \in Seq(Steps) :
            /\ Len(q \o s) = Len(q) + Len(s)
            /\ \A i \in 1..(Len(q) + Len(s)) :
                 (q \o s)[i] = IF i <= Len(q) THEN q[i] ELSE s[i - Len(q)]
      BY ConcatProperties
    <3>2. QED
      BY <2>2, <2>3, <3>1 DEF Onto
  <2>5. Len(Onto(stack[t], new)) >= 2 /\ Onto(stack[t], new)[2] = "unlock"
    BY <2>2, <2>3, <2>4
  <2>6. QED
    BY <2>5 DEF Sending
<1>5. \A a \in T, b \in ToSet(Tail(stack[t])) : Fits(a, b)
  BY <1>1, <1>4, Below DEF Fits, WhileBuilding, WhileProcessing
<1>6. "serve" \notin T /\ "delete" \notin T /\ "built" \notin T
  BY <1>4
<1>7. /\ ShapeInv' /\ StackTyped'
      /\ Entries(stack'[t]) = Times(mappingLock, t) + 1 - Entered(Head(stack[t]))
      /\ FilterEntries(stack'[t]) = Times(filterLock, t) + 1 - Served(Head(stack[t]))
      /\ \A u \in Threads : u # t => /\ Entries(stack'[u]) = Times(mappingLock, u)
                                     /\ FilterEntries(stack'[u]) = Times(filterLock, u)
                                     /\ ToSet(stack'[u]) = ToSet(stack[u])
      /\ ToSet(stack'[t]) = T \union ToSet(Tail(stack[t]))
      /\ ToSet(stack[t]) = {Head(stack[t])} \union ToSet(Tail(stack[t]))
  BY <1>1, <1>4, <1>5, <1>6, <1>4a, PutCall
<1>8. /\ filterLock' \in Locks /\ filterLock'.by = t
      /\ Times(filterLock', t) = Times(filterLock, t) + 1
      /\ \A u \in Threads : u # t =>
           Times(filterLock', u) = Times(filterLock, u) /\ ~In(u, "unlock")
  BY <1>1, FilterLockTaken
<1>9. mappingLock.by = t
  <2>1. Times(mappingLock, t) > 0
    BY <1>1, <1>2, HeadReleases
  <2>2. QED
    BY <2>1 DEF Times
<1>10. LockInv'
  BY <1>1, <1>2, <1>7, <1>8, TimesInt DEF LockInv
<1>11. \A u \in Threads, x \in {"built", "delete", "serve"} :
         x \in ToSet(stack'[u]) <=> x \in ToSet(stack[u])
  BY <1>1, <1>6, <1>7
<1>12. "unlock" \in ToSet(stack'[t])
       /\ \A u \in Threads : u # t => "unlock" \notin ToSet(stack'[u])
  BY <1>4, <1>7, <1>8 DEF In
<1>13. HoldInv'
  BY <1>1, <1>8, <1>9, <1>11, <1>12 DEF Inv, StackInv, HoldInv, In
<1>14. flags' \in [rebuilding : BOOLEAN, processing : BOOLEAN, after : BOOLEAN, pending : BOOLEAN]
       /\ flags'.processing = TRUE /\ flags'.rebuilding = flags.rebuilding
  BY <1>1 DEF Inv, TypeOK
<1>15. FlagInv'
  BY <1>11, <1>12, <1>14 DEF Inv, StackInv, FlagInv, In
<1>16. held' \in [Threads -> [value : Nat, filters : SUBSET Filters]]
       /\ \A u \in Threads :
            held'[u] = held[u] \/ (u = t /\ held'[u].filters \subseteq config.filters)
  <2>1. /\ held \in [Threads -> [value : Nat, filters : SUBSET Filters]]
        /\ Processing \in [value : Nat, filters : SUBSET Filters]
        /\ Processing.filters \subseteq config.filters
    BY DEF Inv, TypeOK
  <2> HIDE DEF Processing
  <2>2. QED
    BY <1>1, <2>1
<1>17. HeldInv'
  <2>1. \A u \in Threads : /\ held'[u].filters # {} => In(u, "unlock")'
                           /\ held'[u].filters \subseteq config.filters \cup removed
    <3>1. SUFFICES ASSUME NEW u \in Threads
                   PROVE  /\ held'[u].filters # {} => In(u, "unlock")'
                          /\ held'[u].filters \subseteq config.filters \cup removed
      OBVIOUS
    <3>2. CASE u = t
      BY <1>12, <1>16, <3>2 DEF Inv, StackInv, HeldInv, In
    <3>3. CASE u # t
      BY <1>7, <1>16, <3>3 DEF Inv, StackInv, HeldInv, In
    <3>4. QED
      BY <3>2, <3>3
  <2>2. MessageThread \in Threads /\ removed' = removed /\ config' = config
    BY <1>1 DEF Threads, edited
  <2>3. In(MessageThread, "delete")' <=> In(MessageThread, "delete")
    BY <1>11, <2>2 DEF In
  <2>4. In(MessageThread, "serve")' <=> In(MessageThread, "serve")
    BY <1>11, <2>2 DEF In
  <2>5. ~In(MessageThread, "serve") => \A u \in Threads : held'[u].filters \subseteq config.filters
    BY <1>16 DEF Inv, StackInv, HeldInv
  <2>6. removed # {} => In(MessageThread, "delete")
    BY DEF Inv, StackInv, HeldInv
  <2>7. QED
    BY <2>1, <2>2, <2>3, <2>4, <2>5, <2>6 DEF HeldInv
<1>18. TypeOK'
  BY <1>1, <1>7, <1>8, <1>14, <1>16
     DEF Inv, TypeOK, StackTyped, Locks, chain, edited, timer, counts
<1>19. QED
  BY <1>7, <1>10, <1>13, <1>15, <1>17, <1>18 DEF Inv, StackInv

\* t ends its process: r is what is left of its calls.
LEMMA ProcessEnds ==
  ASSUME Inv, NEW t \in Threads, NEW r, Fine(t, r), stack' = [stack EXCEPT ![t] = r],
         Entries(r) = Entries(stack[t]) - 1, FilterEntries(r) = FilterEntries(stack[t]) - 1,
         In(t, "unlock"), "unlock" \notin ToSet(r), "built" \notin ToSet(r), ~In(t, "built"),
         \A x \in {"delete", "serve"} : x \in ToSet(r) <=> x \in ToSet(stack[t]),
         flags' = [flags EXCEPT !.processing = FALSE],
         mappingLock' = Unlocked(mappingLock), filterLock' = Unlocked(filterLock),
         held' = [held EXCEPT ![t] = Nothing],
         UNCHANGED <<chain, edited, timer, posted, input, out, counts>>
  PROVE  Inv'
<1>1. /\ stack \in [Threads -> Seq(Steps)] /\ mappingLock \in Locks /\ filterLock \in Locks
      /\ mappingLock.by = t /\ filterLock.by = t
  BY DEF Inv, TypeOK, StackInv, HoldInv, Locks
<1>2. /\ stack'[t] = r /\ r \in Seq(Steps) /\ StackTyped'
      /\ \A u \in Threads : u # t => stack'[u] = stack[u]
  BY <1>1 DEF Fine, StackTyped
<1>3. Times(mappingLock, t) > 0 /\ Times(filterLock, t) > 0
  <2>1. None # t
    BY ThreadAssumption DEF Threads
  <2>2. mappingLock.n \in Nat \ {0} /\ filterLock.n \in Nat \ {0}
    BY <1>1, <2>1 DEF Locks, Free
  <2>3. QED
    BY <1>1, <2>2 DEF Times
<1>4. /\ mappingLock' \in Locks /\ Times(mappingLock', t) = Times(mappingLock, t) - 1
      /\ \A u \in Threads : u # t =>
           /\ Times(mappingLock', u) = Times(mappingLock, u)
           /\ ~In(u, "unlock") /\ ~In(u, "built")
  BY <1>3, MappingLockReleased
<1>5. /\ filterLock' \in Locks /\ Times(filterLock', t) = Times(filterLock, t) - 1
      /\ \A u \in Threads : u # t => Times(filterLock', u) = Times(filterLock, u)
  BY <1>3, FilterLockReleased
<1>6. ShapeInv'
  BY <1>2 DEF Inv, StackInv, ShapeInv
<1>7. LockInv'
  <2>1. \A u \in Threads : /\ Entries(stack[u]) = Times(mappingLock, u)
                           /\ FilterEntries(stack[u]) = Times(filterLock, u)
    BY DEF Inv, StackInv, LockInv
  <2>2. QED
    BY <1>2, <1>4, <1>5, <2>1 DEF LockInv
<1>8. \A u \in Threads : "unlock" \notin ToSet(stack'[u]) /\ "built" \notin ToSet(stack'[u])
  BY <1>2, <1>4 DEF In
<1>9. HoldInv'
  BY <1>8 DEF HoldInv, In
<1>10. flags' \in [rebuilding : BOOLEAN, processing : BOOLEAN, after : BOOLEAN, pending : BOOLEAN]
       /\ flags'.processing = FALSE /\ flags'.rebuilding = flags.rebuilding
  BY DEF Inv, TypeOK
<1>11. FlagInv'
  <2>1. \A u \in Threads : ~In(u, "built")
    BY <1>4
  <2>2. QED
    BY <1>8, <1>10, <2>1 DEF Inv, StackInv, FlagInv, In
<1>12. /\ held' \in [Threads -> [value : Nat, filters : SUBSET Filters]]
       /\ held'[t].filters = {} /\ \A u \in Threads : u # t => held'[u] = held[u]
  BY DEF Inv, TypeOK, Nothing
<1>13. HeldInv'
  <2>1. \A u \in Threads : held'[u].filters = {}
    BY <1>4, <1>12 DEF Inv, StackInv, HeldInv
  <2>2. removed' = removed /\ MessageThread \in Threads
    BY DEF edited, Threads
  <2>3. In(MessageThread, "delete")' <=> In(MessageThread, "delete")
    BY <1>2, <2>2 DEF In
  <2>4. removed # {} => In(MessageThread, "delete")
    BY DEF Inv, StackInv, HeldInv
  <2>5. QED
    BY <2>1, <2>2, <2>3, <2>4 DEF HeldInv
<1>14. TypeOK'
  BY <1>2, <1>4, <1>5, <1>10, <1>12
     DEF Inv, TypeOK, StackTyped, Locks, chain, edited, timer, counts
<1>15. QED
  BY <1>6, <1>7, <1>9, <1>11, <1>13, <1>14 DEF Inv, StackInv

\* The next step of a well formed list is taken off.
LEMMA PopFine ==
  ASSUME NEW t \in Threads, NEW s, Fine(t, s), s # <<>>
  PROVE  /\ Fine(t, Tail(s)) /\ ToSet(s) = {Head(s)} \union ToSet(Tail(s))
         /\ \A b \in ToSet(Tail(s)) : Fits(Head(s), b)
         /\ Entries(Tail(s)) = Entries(s) - Entered(Head(s))
         /\ FilterEntries(Tail(s)) = FilterEntries(s) - Served(Head(s))
         /\ Entries(s) \in Int /\ FilterEntries(s) \in Int
<1> DEFINE T == {}
<1>1. Listed(<<>>, T, 0, 0)
  BY ListedNone
<1>2. /\ \A a \in T, b \in ToSet(Tail(s)) : Fits(a, b)
      /\ T \cap {"send", "walk"} = {} /\ "serve" \notin T /\ "delete" \notin T
  OBVIOUS
<1> HIDE DEF T
<1>3. /\ Fine(t, Onto(s, <<>>)) /\ ToSet(s) = {Head(s)} \union ToSet(Tail(s))
      /\ \A b \in ToSet(Tail(s)) : Fits(Head(s), b)
      /\ Entries(Onto(s, <<>>)) = Entries(s) + 0 - Entered(Head(s))
      /\ FilterEntries(Onto(s, <<>>)) = FilterEntries(s) + 0 - Served(Head(s))
      /\ Entries(s) \in Int /\ FilterEntries(s) \in Int
  BY <1>1, <1>2, PutFine
<1>4. Onto(s, <<>>) = Tail(s)
  <2>1. Tail(s) \in Seq(Steps)
    BY HeadElements DEF Fine
  <2>2. QED
    BY <2>1 DEF Onto
<1>5. Entered(Head(s)) \in Int /\ Served(Head(s)) \in Int
  BY DEF Entered, Served, One
<1>6. /\ Entries(s) + 0 - Entered(Head(s)) = Entries(s) - Entered(Head(s))
      /\ FilterEntries(s) + 0 - Served(Head(s)) = FilterEntries(s) - Served(Head(s))
  BY <1>3, <1>5
<1>7. Entries(Tail(s)) = Entries(s) - Entered(Head(s))
  BY <1>3, <1>4, <1>6
<1>8. FilterEntries(Tail(s)) = FilterEntries(s) - Served(Head(s))
  BY <1>3, <1>4, <1>6
<1>9. Fine(t, Tail(s))
  BY <1>3, <1>4
<1>10. QED
  BY <1>3, <1>7, <1>8, <1>9

LEMMA UnlockKeeps ==
  ASSUME Inv, NEW t \in Threads, Unlock(t)
  PROVE  Inv'
<1>1. /\ stack[t] # <<>> /\ Head(stack[t]) = "unlock"
      /\ Do(t, <<>>) \/ Do(t, <<"after">>)
      /\ flags' = [flags EXCEPT !.processing = FALSE]
      /\ mappingLock' = Unlocked(mappingLock) /\ filterLock' = Unlocked(filterLock)
      /\ held' = [held EXCEPT ![t] = Nothing]
      /\ UNCHANGED <<chain, edited, timer, posted, input, out, counts>>
  BY DEF Unlock, At
<1>2. /\ Entered("unlock") = 1 /\ Served("unlock") = 1
      /\ "after" \in Steps /\ Entered("after") = 0 /\ Served("after") = 0
  BY DEF Entered, Served, One, Releasing, ReleasingFilters, Steps
<1>3. \E new, T : Do(t, new) /\ Listed(new, T, 0, 0) /\ T \subseteq {"after"}
  <2>1. Listed(<<>>, {}, 0, 0) /\ Listed(<<"after">>, {"after"}, 0, 0)
    BY <1>2, ListedNone, ListedOne
  <2>2. QED
    BY <1>1, <2>1
<1>4. PICK new, T : Do(t, new) /\ Listed(new, T, 0, 0) /\ T \subseteq {"after"}
  BY <1>3
<1> DEFINE r == Onto(stack[t], new)
<1>5. Fine(t, stack[t])
  BY DEF Inv, StackInv, ShapeInv
<1>6. /\ \A a \in T, b \in ToSet(Tail(stack[t])) : Fits(a, b)
      /\ T \cap {"send", "walk"} = {} /\ "serve" \notin T /\ "delete" \notin T
  <2>1. \A b \in ToSet(Tail(stack[t])) : Fits("after", b)
    <3>1. \A b \in ToSet(Tail(stack[t])) : Fits("unlock", b)
      BY <1>1, Below
    <3>2. QED
      BY <3>1 DEF Fits, WhileBuilding, WhileProcessing
  <2>2. \A a \in T : a = "after"
    BY <1>4
  <2>3. QED
    BY <2>1, <2>2
<1>7. /\ Fine(t, r)
      /\ ToSet(r) = T \union ToSet(Tail(stack[t]))
      /\ ToSet(stack[t]) = {"unlock"} \union ToSet(Tail(stack[t]))
      /\ \A b \in ToSet(Tail(stack[t])) : Fits("unlock", b)
      /\ Entries(r) = Entries(stack[t]) + 0 - 1
      /\ FilterEntries(r) = FilterEntries(stack[t]) + 0 - 1
      /\ Entries(stack[t]) \in Int /\ FilterEntries(stack[t]) \in Int
  <2>1. stack[t] # <<>> /\ Head(stack[t]) = "unlock" /\ Listed(new, T, 0, 0)
    BY <1>1, <1>4
  <2>2. QED
    BY <1>2, <1>5, <1>6, <2>1, PutFine
<1>8. Entries(r) = Entries(stack[t]) - 1 /\ FilterEntries(r) = FilterEntries(stack[t]) - 1
  BY <1>7
<1>9. stack' = [stack EXCEPT ![t] = r]
  BY <1>4 DEF Do, Onto
<1>10. "unlock" \notin ToSet(r) /\ "built" \notin ToSet(r)
  BY <1>4, <1>7 DEF Fits, WhileProcessing, WhileBuilding
<1> HIDE DEF r
<1>11. /\ In(t, "unlock") /\ ~In(t, "built")
       /\ \A x \in {"delete", "serve"} : x \in ToSet(r) <=> x \in ToSet(stack[t])
  BY <1>4, <1>7, <1>10 DEF In
<1>12. QED
  BY <1>1, <1>7, <1>8, <1>9, <1>10, <1>11, ProcessEnds

LEMMA IndexGoneKeeps ==
  ASSUME Inv, NEW t \in Threads, IndexGone(t)
  PROVE  Inv'
<1> DEFINE s == stack[t]
           r == SubSeq(s, 3, Len(s))
<1>1. /\ s # <<>> /\ Head(s) = "send"
      /\ flags' = Left
      /\ mappingLock' = Unlocked(mappingLock) /\ filterLock' = Unlocked(filterLock)
      /\ held' = [held EXCEPT ![t] = Nothing]
      /\ stack' = [stack EXCEPT ![t] = SubSeq(@, 3, Len(@))]
      /\ UNCHANGED <<chain, edited, timer, posted, input, out, counts>>
  BY DEF IndexGone, At
<1>2. /\ flags' = [flags EXCEPT !.processing = FALSE]
      /\ stack' = [stack EXCEPT ![t] = r]
  BY <1>1 DEF Left
<1>3. /\ Entered("send") = 0 /\ Entered("unlock") = 1
      /\ Served("send") = 0 /\ Served("unlock") = 1
  BY DEF Entered, Served, One, Releasing, ReleasingFilters
<1>4. Fine(t, s)
  BY DEF Inv, StackInv, ShapeInv
<1>5. /\ s \in Seq(Steps) /\ Len(s) \in Nat /\ Len(s) >= 2 /\ s[2] = "unlock"
  BY <1>1, <1>4 DEF Fine, Sending
<1> HIDE DEF s, r
<1> DEFINE one == Tail(s)
<1>6. /\ one \in Seq(Steps) /\ Len(one) = Len(s) - 1 /\ one # <<>> /\ Head(one) = "unlock"
      /\ \A i \in 1..Len(one) : one[i] = s[i + 1]
  BY <1>5, HeadTailProperties
<1> HIDE DEF one
<1>7. r = Tail(one)
  <2>1. /\ Tail(one) \in Seq(Steps) /\ Len(Tail(one)) = Len(s) - 2
        /\ \A i \in 1..Len(Tail(one)) : Tail(one)[i] = s[i + 2]
    <3>1. /\ Tail(one) \in Seq(Steps) /\ Len(Tail(one)) = Len(one) - 1
          /\ \A i \in 1..Len(Tail(one)) : Tail(one)[i] = one[i + 1]
      BY <1>6, HeadTailProperties
    <3>2. Len(Tail(one)) = Len(s) - 2
      <4>1. PICK n \in Nat : Len(s) = n
        BY <1>5
      <4>2. Len(one) = n - 1
        BY <1>6, <4>1
      <4>3. Len(Tail(one)) = n - 1 - 1
        BY <3>1, <4>2
      <4>4. QED
        BY <4>1, <4>3
    <3>3. ASSUME NEW i \in 1..Len(Tail(one)) PROVE Tail(one)[i] = s[i + 2]
      <4>1. i + 1 \in 1..Len(one) /\ (i + 1) + 1 = i + 2
        BY <1>5, <1>6, <3>2
      <4>2. one[i + 1] = s[(i + 1) + 1]
        BY <1>6, <4>1
      <4>3. QED
        BY <3>1, <4>1, <4>2
    <3>4. QED
      BY <3>1, <3>2, <3>3
  <2>2. /\ r \in Seq(Steps) /\ Len(r) = Len(s) - 2
        /\ \A i \in 1..Len(r) : r[i] = s[i + 2]
    <3>1. /\ 3 \in Int /\ Len(s) \in Int /\ \A i \in 3..Len(s) : s[i] \in Steps
          /\ Len(s) - 3 + 1 = Len(s) - 2
      BY <1>5
    <3>2. /\ SubSeq(s, 3, Len(s)) \in Seq(Steps)
          /\ Len(SubSeq(s, 3, Len(s))) = IF 3 <= Len(s) THEN Len(s) - 3 + 1 ELSE 0
          /\ \A i \in 1..Len(s) - 3 + 1 : SubSeq(s, 3, Len(s))[i] = s[3 + i - 1]
      BY <3>1, SubSeqProperties
    <3>3. Len(r) = Len(s) - 2
      <4>1. PICK n \in Nat : Len(s) = n /\ n >= 2
        BY <1>5
      <4>2. Len(r) = IF 3 <= n THEN n - 3 + 1 ELSE 0
        BY <3>2, <4>1 DEF r
      <4>3. (IF 3 <= n THEN n - 3 + 1 ELSE 0) = n - 2
        BY <4>1
      <4>4. QED
        BY <4>1, <4>2, <4>3
    <3>4. ASSUME NEW i \in 1..Len(r) PROVE r[i] = s[i + 2]
      <4>1. i \in 1..Len(s) - 3 + 1 /\ 3 + i - 1 = i + 2
        BY <1>5, <3>3
      <4>2. QED
        BY <3>2, <4>1 DEF r
    <3>5. QED
      BY <3>2, <3>3, <3>4 DEF r
  <2>3. QED
    BY <2>1, <2>2, SeqEqual
<1>8. /\ Fine(t, one) /\ ToSet(s) = {"send"} \union ToSet(one)
      /\ \A b \in ToSet(one) : Fits("send", b)
      /\ Entries(one) = Entries(s) - 0 /\ FilterEntries(one) = FilterEntries(s) - 0
      /\ Entries(s) \in Int /\ FilterEntries(s) \in Int
  BY <1>1, <1>3, <1>4, PopFine DEF one
<1>9. /\ Fine(t, r) /\ ToSet(one) = {"unlock"} \union ToSet(r)
      /\ \A b \in ToSet(r) : Fits("unlock", b)
      /\ Entries(r) = Entries(one) - 1 /\ FilterEntries(r) = FilterEntries(one) - 1
  BY <1>3, <1>6, <1>7, <1>8, PopFine
<1>10. Entries(r) = Entries(s) - 1 /\ FilterEntries(r) = FilterEntries(s) - 1
  BY <1>8, <1>9
<1>11. "unlock" \notin ToSet(r) /\ "built" \notin ToSet(r)
  BY <1>9 DEF Fits, WhileProcessing, WhileBuilding
<1>12. /\ "unlock" \in ToSet(s) /\ "built" \notin ToSet(s)
       /\ \A x \in {"delete", "serve"} : x \in ToSet(r) <=> x \in ToSet(s)
  BY <1>8, <1>9, <1>11
<1>13. QED
  BY <1>1, <1>2, <1>9, <1>10, <1>11, <1>12, ProcessEnds DEF s, In

-----------------------------------------------------------------------------
\* The timer thread takes both locks, gives up, or ends.
LEMMA LoopKeeps ==
  ASSUME Inv, Loop
  PROVE  Inv'
<1>1. /\ stack[Timer] # <<>> /\ Head(stack[Timer]) = "loop" /\ Timer \in Threads
      /\ UNCHANGED <<flags, chain, edited, timer, posted, values, counts>>
  BY DEF Loop, At, Threads
<1>2. Head(stack[Timer]) \in Plain
  BY <1>1, PlainFacts
<1>3. CASE Do(Timer, <<>>) /\ UNCHANGED locks
  <2>1. Unwatched
    BY <1>1, <1>3 DEF Unwatched, edited, values
  <2>2. StackInv' /\ StackTyped'
    BY <1>1, <1>2, <1>3, <2>1, PopCalls
  <2>3. TypeOK'
    BY <1>1, <1>3, <2>2
       DEF Inv, TypeOK, StackTyped, locks, chain, edited, timer, values, counts
  <2>4. QED
    BY <2>2, <2>3 DEF Inv
<1>4. CASE UNCHANGED <<stack, locks>>
  <2>1. \A u \in Threads : Calm(u, stack[u], stack'[u])
    BY <1>4 DEF Inv, StackInv, ShapeInv, Calm
  <2>2. StackInv'
    BY <1>1, <1>4, <2>1, CalmSteps DEF Inv, edited, values
  <2>3. TypeOK'
    BY <1>1, <1>4 DEF Inv, TypeOK, locks, chain, edited, timer, values, counts
  <2>4. QED
    BY <2>2, <2>3 DEF Inv
<1>5. CASE /\ CanLock(mappingLock, Timer) /\ CanLock(filterLock, Timer)
           /\ mappingLock' = Locked(mappingLock, Timer) /\ filterLock' = Locked(filterLock, Timer)
           /\ Do(Timer, <<"processAll", "free", "loop">>)
  <2> DEFINE T == {"processAll", "free", "loop"}
             new == <<"processAll", "free", "loop">>
  <2>1. Entered("loop") = 0 /\ Served("loop") = 0
    BY DEF Entered, Served, One, Releasing, ReleasingFilters
  <2>2. Listed(new, T, 1, 1)
    <3>1. /\ Entered("processAll") + One("free", Releasing) + One("loop", Releasing) = 1
          /\ Served("processAll") + One("free", ReleasingFilters)
               + One("loop", ReleasingFilters) = 1
      BY DEF Entered, Served, One, Releasing, ReleasingFilters
    <3>2. Fits("processAll", "free") /\ Fits("processAll", "loop") /\ Fits("free", "loop")
      BY DEF Fits, HeadOnly
    <3>3. "processAll" \in Steps /\ "free" \in Steps /\ "loop" \in Steps
      BY DEF Steps
    <3>4. QED
      BY <3>1, <3>2, <3>3, ListedThree
  <2>3. \A a \in T, b \in ToSet(Tail(stack[Timer])) : Fits(a, b)
    BY <1>1, Below DEF Fits, WhileBuilding, WhileProcessing
  <2>4. T \cap {"send", "walk"} = {} /\ "serve" \notin T /\ "delete" \notin T /\ T \cap Watched = {}
    BY DEF Watched
  <2> HIDE DEF T, new
  <2>5. /\ ShapeInv' /\ StackTyped'
        /\ Entries(stack'[Timer]) = Times(mappingLock, Timer) + 1 - Entered(Head(stack[Timer]))
        /\ FilterEntries(stack'[Timer]) = Times(filterLock, Timer) + 1 - Served(Head(stack[Timer]))
        /\ \A u \in Threads : u # Timer => /\ Entries(stack'[u]) = Times(mappingLock, u)
                                           /\ FilterEntries(stack'[u]) = Times(filterLock, u)
                                           /\ ToSet(stack'[u]) = ToSet(stack[u])
        /\ ToSet(stack'[Timer]) = T \union ToSet(Tail(stack[Timer]))
        /\ ToSet(stack[Timer]) = {Head(stack[Timer])} \union ToSet(Tail(stack[Timer]))
    <3>1. Do(Timer, new)
      BY <1>5 DEF new
    <3>2. QED
      BY <1>1, <2>2, <2>3, <2>4, <3>1, PutCall
  <2>6. /\ mappingLock' \in Locks /\ mappingLock'.by = Timer
        /\ Times(mappingLock', Timer) = Times(mappingLock, Timer) + 1
        /\ \A u \in Threads : u # Timer =>
             /\ Times(mappingLock', u) = Times(mappingLock, u)
             /\ ~In(u, "unlock") /\ ~In(u, "built")
    BY <1>1, <1>5, MappingLockTaken
  <2>7. /\ filterLock' \in Locks /\ filterLock'.by = Timer
        /\ Times(filterLock', Timer) = Times(filterLock, Timer) + 1
        /\ \A u \in Threads : u # Timer => Times(filterLock', u) = Times(filterLock, u)
    BY <1>1, <1>5, FilterLockTaken
  <2>8. LockInv'
    BY <1>1, <2>1, <2>5, <2>6, <2>7, TimesInt DEF LockInv
  <2>9. \A u \in Threads, x \in Watched : x \in ToSet(stack'[u]) <=> x \in ToSet(stack[u])
    BY <1>1, <2>4, <2>5 DEF Watched
  <2>10. HoldInv'
    BY <2>6, <2>7, <2>9 DEF HoldInv, In, Watched
  <2>11. FlagInv'
    BY <1>1, <2>9 DEF Inv, StackInv, FlagInv, In, Watched
  <2>12. HeldInv'
    BY <1>1, <2>9, HeldSame DEF edited, values, Watched
  <2>13. TypeOK'
    BY <1>1, <2>5, <2>6, <2>7
       DEF Inv, TypeOK, StackTyped, Locks, chain, edited, timer, values, counts
  <2>14. QED
    BY <2>5, <2>8, <2>10, <2>11, <2>12, <2>13 DEF Inv, StackInv
<1>6. QED
  BY <1>3, <1>4, <1>5 DEF Loop

-----------------------------------------------------------------------------
\* A filter is added or removed: with nothing to do, the message thread has deleted
\* what it removed before.
LEMMA NoneRemoved ==
  ASSUME Inv, stack[MessageThread] = <<>>
  PROVE  removed = {}
<1>1. ToSet(<<>>) = {}
  BY ShortElements
<1>2. ~In(MessageThread, "delete")
  BY <1>1 DEF In
<1>3. QED
  BY <1>2 DEF Inv, StackInv, HeldInv

LEMMA FilterEditBegins ==
  ASSUME Inv, NEW new, NEW T, Begin(MessageThread, new), Listed(new, T, 0, 0),
         "serve" \in T, T \cap {"send", "walk", "unlock", "built"} = {},
         UNCHANGED <<locks, flags, held>>,
         removed' # {} => "delete" \in T,
         config.filters \subseteq config'.filters \cup removed'
  PROVE  StackInv' /\ StackTyped'
<1>1. /\ stack \in [Threads -> Seq(Steps)] /\ MessageThread \in Threads
      /\ stack[MessageThread] = <<>> /\ stack' = [stack EXCEPT ![MessageThread] = new]
      /\ new \in Seq(Steps) /\ Nested(new) /\ ToSet(new) = T
      /\ Entries(new) = 0 /\ FilterEntries(new) = 0
  BY DEF Inv, TypeOK, Begin, Threads, Listed
<1>2. /\ stack'[MessageThread] = new
      /\ \A u \in Threads : u # MessageThread => stack'[u] = stack[u]
      /\ StackTyped'
  BY <1>1 DEF StackTyped
<1>3. /\ ToSet(<<>>) = {} /\ Entries(<<>>) = 0 /\ FilterEntries(<<>>) = 0
  BY ListedNone DEF Listed
<1>4. Fine(MessageThread, new)
  <2>1. new # <<>> => Head(new) \in T
    BY <1>1, HeadElements
  <2>2. QED
    BY <1>1, <2>1 DEF Fine, Sending
<1>5. ShapeInv'
  BY <1>2, <1>4 DEF Inv, StackInv, ShapeInv
<1>6. LockInv'
  <2>1. \A u \in Threads : /\ Entries(stack'[u]) = Entries(stack[u])
                           /\ FilterEntries(stack'[u]) = FilterEntries(stack[u])
    BY <1>1, <1>2, <1>3
  <2>2. QED
    BY <2>1 DEF Inv, StackInv, LockInv, locks
<1>7. \A u \in Threads, x \in {"unlock", "built"} : x \in ToSet(stack'[u]) <=> x \in ToSet(stack[u])
  BY <1>1, <1>2, <1>3
<1>8. HoldInv'
  BY <1>7 DEF Inv, StackInv, HoldInv, In, locks
<1>9. FlagInv'
  BY <1>7 DEF Inv, StackInv, FlagInv, In
<1>10. HeldInv'
  <2>1. removed = {}
    BY <1>1, NoneRemoved
  <2>2. \A u \in Threads : held[u].filters \subseteq config'.filters \cup removed'
    BY <2>1 DEF Inv, StackInv, HeldInv
  <2>3. In(MessageThread, "serve")'
    BY <1>1, <1>2 DEF In
  <2>4. removed' # {} => In(MessageThread, "delete")'
    BY <1>1, <1>2 DEF In
  <2>5. QED
    BY <1>7, <2>2, <2>3, <2>4 DEF Inv, StackInv, HeldInv, In
<1>11. QED
  BY <1>2, <1>5, <1>6, <1>8, <1>9, <1>10 DEF StackInv

LEMMA AddFilterKeeps ==
  ASSUME Inv, AddFilter
  PROVE  Inv'
<1>1. PICK f \in Filters \ config.filters :
        /\ Edit(FilterEdit)
        /\ config' = [config EXCEPT !.filters = @ \cup {f}]
        /\ UNCHANGED <<removed, enabled, forced>>
  BY DEF AddFilter
<1>2. /\ edits' = edits + 1 /\ Begin(MessageThread, FilterEdit)
      /\ UNCHANGED <<locks, flags, chain, timer, posted, values, changes, ranged>>
  BY <1>1 DEF Edit
<1>3. /\ config' \in [filters : SUBSET Filters, enabled : SUBSET Filters, edits : Nat]
      /\ config.filters \subseteq config'.filters
  <2>1. config \in [filters : SUBSET Filters, enabled : SUBSET Filters, edits : Nat]
    BY DEF Inv, TypeOK
  <2>2. QED
    BY <1>1, <2>1
<1> DEFINE T == {"serve", "served", "notify"}
<1>4. Listed(FilterEdit, T, 0, 0)
  <2>1. /\ Entered("serve") + One("served", Releasing) + One("notify", Releasing) = 0
        /\ Served("serve") + One("served", ReleasingFilters) + One("notify", ReleasingFilters) = 0
    BY DEF Entered, Served, One, Releasing, ReleasingFilters
  <2>2. Fits("serve", "served") /\ Fits("serve", "notify") /\ Fits("served", "notify")
    BY DEF Fits, HeadOnly
  <2>3. "serve" \in Steps /\ "served" \in Steps /\ "notify" \in Steps
    BY SomeSteps
  <2>4. Listed(<<"serve", "served", "notify">>, T, 0, 0)
    BY <2>1, <2>2, <2>3, ListedThree
  <2>5. QED
    BY <2>4 DEF FilterEdit
<1>5. "serve" \in T /\ T \cap {"send", "walk", "unlock", "built"} = {}
  OBVIOUS
<1> HIDE DEF T
<1>6. stack[MessageThread] = <<>>
  BY <1>2 DEF Begin
<1>7. removed = {} /\ removed' = {}
  BY <1>1, <1>6, NoneRemoved
<1>8. UNCHANGED <<locks, flags, held>>
  BY <1>2 DEF values
<1>9. StackInv' /\ StackTyped'
  <2>1. removed' # {} => "delete" \in T
    BY <1>7
  <2>2. config.filters \subseteq config'.filters \cup removed'
    BY <1>3
  <2>3. QED
    BY <1>2, <1>4, <1>5, <1>8, <2>1, <2>2, FilterEditBegins
<1>10. TypeOK'
  <2>1. edits' \in Nat
    BY <1>2 DEF Inv, TypeOK
  <2>2. UNCHANGED <<removed, enabled, forced>>
    BY <1>1
  <2>3. QED
    BY <1>2, <1>3, <1>9, <2>1, <2>2 DEF Inv, TypeOK, StackTyped, locks, chain, timer, values
<1>11. QED
  BY <1>9, <1>10 DEF Inv

LEMMA RemoveFilterKeeps ==
  ASSUME Inv, RemoveFilter
  PROVE  Inv'
<1>1. PICK f \in config.filters :
        /\ Edit(FilterEdit \o <<"delete">>)
        /\ config' = [config EXCEPT !.filters = @ \ {f}]
        /\ removed' = {f}
        /\ UNCHANGED <<enabled, forced>>
  BY DEF RemoveFilter
<1>2. /\ edits' = edits + 1 /\ Begin(MessageThread, FilterEdit \o <<"delete">>)
      /\ UNCHANGED <<locks, flags, chain, timer, posted, values, changes, ranged>>
  BY <1>1 DEF Edit
<1>3. /\ config' \in [filters : SUBSET Filters, enabled : SUBSET Filters, edits : Nat]
      /\ config.filters \subseteq config'.filters \cup removed' /\ removed' \subseteq Filters
  <2>1. config \in [filters : SUBSET Filters, enabled : SUBSET Filters, edits : Nat]
    BY DEF Inv, TypeOK
  <2>2. QED
    BY <1>1, <2>1
<1> DEFINE T == {"serve", "served", "notify", "delete"}
<1>4. Listed(FilterEdit \o <<"delete">>, T, 0, 0)
  BY ListedRemoval
<1>5. "serve" \in T /\ "delete" \in T /\ T \cap {"send", "walk", "unlock", "built"} = {}
  OBVIOUS
<1> HIDE DEF T
<1>6. UNCHANGED <<locks, flags, held>>
  BY <1>2 DEF values
<1>7. StackInv' /\ StackTyped'
  BY <1>2, <1>3, <1>4, <1>5, <1>6, FilterEditBegins
<1>8. TypeOK'
  <2>1. edits' \in Nat
    BY <1>2 DEF Inv, TypeOK
  <2>2. UNCHANGED <<enabled, forced>>
    BY <1>1
  <2>3. QED
    BY <1>2, <1>3, <1>7, <2>1, <2>2 DEF Inv, TypeOK, StackTyped, locks, chain, timer, values
<1>9. QED
  BY <1>7, <1>8 DEF Inv

-----------------------------------------------------------------------------
LEMMA InvInit ==
  ASSUME Init
  PROVE  Inv
<1>1. TypeOK
  <2>1. stack \in [Threads -> Seq(Steps)]
    BY DEF Init
  <2>2. {mappingLock, filterLock} \subseteq {Free} \cup [by : Threads, n : Nat \ {0}]
    BY DEF Init
  <2>3. /\ flags \in [rebuilding : BOOLEAN, processing : BOOLEAN, after : BOOLEAN,
                     pending : BOOLEAN]
        /\ fm \in [needsRebuild : BOOLEAN, rebuilding : BOOLEAN]
    BY DEF Init
  <2>4. {config, built} \subseteq [filters : SUBSET Filters, enabled : SUBSET Filters, edits : Nat]
    BY DEF Init
  <2>5. /\ removed \subseteq Filters /\ {posted, input, edits} \subseteq Nat
        /\ out \in [sent : Nat, previous : Nat] /\ startStopLock \in Threads \cup {None}
    BY DEF Init
  <2>6. {enabled, forced, updateRate, shouldExit} \subseteq BOOLEAN /\ ranged \in BOOLEAN
    BY DEF Init
  <2>7. held \in [Threads -> [value : Nat, filters : SUBSET Filters]]
    <3>1. Nothing \in [value : Nat, filters : SUBSET Filters]
      BY DEF Nothing
    <3>2. QED
      BY <3>1 DEF Init
  <2>8. changes \in [Inputs -> 0..MaxChanges]
    BY BoundAssumption DEF Init
  <2>9. QED
    BY <2>1, <2>2, <2>3, <2>4, <2>5, <2>6, <2>7, <2>8 DEF TypeOK
<1>2. ToSet(<<>>) = {} /\ Entries(<<>>) = 0 /\ FilterEntries(<<>>) = 0 /\ Nested(<<>>)
  BY ListedNone DEF Listed
<1>3. \A t \in Threads : stack[t] = <<>> /\ held[t].filters = {} /\ t # None
  BY ThreadAssumption DEF Init, Nothing
<1>4. ShapeInv
  <2>1. <<>> \in Seq(Steps) /\ Sending(<<>>)
    BY DEF Sending
  <2>2. \A t \in Threads : Fine(t, <<>>)
    BY <1>2, <2>1 DEF Fine
  <2>3. QED
    BY <1>3, <2>2 DEF ShapeInv
<1>5. LockInv
  BY <1>2, <1>3 DEF LockInv, Times, Init, Free
<1>6. \A t \in Threads : \A x : ~In(t, x)
  BY <1>2, <1>3 DEF In
<1>7. HoldInv /\ FlagInv
  BY <1>6 DEF HoldInv, FlagInv, Init
<1>8. HeldInv
  BY <1>3, <1>6 DEF HeldInv, Init
<1>9. QED
  BY <1>1, <1>4, <1>5, <1>7, <1>8 DEF Inv, StackInv

LEMMA CallKeeps ==
  ASSUME Inv, NEW t \in Threads, Call(t)
  PROVE  Inv'
<1>1. CASE Ask(t) \/ SetFlag(t) \/ Again(t) \/ Notify(t)
  BY <1>1, AskKeeps, SetFlagKeeps, AgainKeeps, NotifyKeeps
<1>2. CASE Rebuild(t) \/ Build(t) \/ Built(t)
  BY <1>2, RebuildKeeps, BuildKeeps, BuiltKeeps
<1>3. CASE Process(t) \/ Lock(t) \/ ProcessFilters(t) \/ Walk(t) \/ Send(t)
  BY <1>3, ProcessKeeps, LockKeeps, ProcessFiltersKeeps, WalkKeeps, SendKeeps
<1>4. CASE IndexGone(t) \/ Unlock(t) \/ After(t)
  BY <1>4, IndexGoneKeeps, UnlockKeeps, AfterKeeps
<1>5. CASE Check(t) \/ UpdateContinuousProcess(t) \/ Stop(t) \/ Join(t)
  BY <1>5, CheckKeeps, UpdateKeeps, StopKeeps
<1>6. CASE Enter(t) \/ Leave(t) \/ Parameter(t) \/ EnterFilters(t) \/ LeaveFilters(t)
  BY <1>6, EnterKeeps, LeaveKeeps, ParameterKeeps, EnterFiltersKeeps, LeaveFiltersKeeps
<1>7. CASE Delete(t) \/ ValueChanged(t)
  BY <1>7, DeleteKeeps, ValueChangedKeeps
<1>8. QED
  BY <1>1, <1>2, <1>3, <1>4, <1>5, <1>6, <1>7 DEF Call

LEMMA InvNext ==
  ASSUME Inv, [Next]_vars
  PROVE  Inv'
<1>1. CASE \E t \in Inputs : ChangeValue(t) \/ ChangeRange(t)
  BY <1>1, ChangeKeeps
<1>2. CASE \E t \in Inputs \cup {MessageThread} : Call(t)
  BY <1>2, CallKeeps DEF Threads
<1>3. CASE TimerSteps
  BY <1>3, CallKeeps, LoopKeeps, FreeLocksKeeps DEF TimerSteps, Threads
<1>4. CASE Edits
  BY <1>4, AddFilterKeeps, RemoveFilterKeeps, EnableFilterKeeps, PlainEditKeeps DEF Edits
<1>5. CASE HandlePosted
  BY <1>5, HandlePostedKeeps
<1>6. CASE UNCHANGED vars
  <2>1. UNCHANGED <<stack, locks, flags, chain, edited, timer, posted, values, counts>>
    BY <1>6 DEF vars
  <2>2. \A u \in Threads : Calm(u, stack[u], stack'[u])
    BY <2>1 DEF Inv, StackInv, ShapeInv, Calm
  <2>3. StackInv'
    BY <2>1, <2>2, CalmSteps DEF Inv, edited, values
  <2>4. TypeOK'
    BY <2>1 DEF Inv, TypeOK, locks, chain, edited, timer, values, counts
  <2>5. QED
    BY <2>3, <2>4 DEF Inv
<1>7. QED
  BY <1>1, <1>2, <1>3, <1>4, <1>5, <1>6 DEF Next

LEMMA InvAlways ==
  Spec => []Inv
<1>1. Init => Inv
  BY InvInit
<1>2. Inv /\ [Next]_vars => Inv'
  BY InvNext
<1>3. QED
  BY <1>1, <1>2, PTL DEF Spec

-----------------------------------------------------------------------------
\* Every variable keeps its type: the locks are never released by a thread that does
\* not hold them (MappingEditScope and the ScopedLocks of Mapping.cpp).
THEOREM TypeCorrect ==
  Spec => []TypeOK
<1>1. Inv => TypeOK
  BY DEF Inv
<1>2. QED
  BY <1>1, InvAlways, PTL

\* No thread is in a process while another, or itself further up, is in a rebuild of
\* the chain (updateMappingChain and process): both are under mappingLock, and in one
\* thread the flags turn the one away inside the other.
THEOREM ChainStaysWhole ==
  Spec => []ChainIsWhole
<1>1. ASSUME Inv PROVE ChainIsWhole
  <2>1. SUFFICES ASSUME NEW t \in Threads, NEW u \in Threads, Within(t, "unlock"), Within(u, "built")
                 PROVE  FALSE
    BY DEF ChainIsWhole
  <2>2. In(t, "unlock") /\ In(u, "built")
    BY <1>1, <2>1, WithinIs DEF Inv
  <2>3. t = u
    BY <1>1, <2>2 DEF Inv, StackInv, HoldInv
  <2>4. /\ stack[t] \in Seq(Steps) /\ Nested(stack[t])
        /\ "unlock" \in ToSet(stack[t]) /\ "built" \in ToSet(stack[t])
    BY <1>1, <2>2, <2>3 DEF Inv, StackInv, ShapeInv, Fine, In
  <2>5. PICK i \in 1..Len(stack[t]), j \in 1..Len(stack[t]) :
          stack[t][i] = "unlock" /\ stack[t][j] = "built"
    BY <2>4, Elements
  <2>6. i # j /\ (i < j \/ j < i)
    BY <2>5
  <2>7. Fits("unlock", "built") \/ Fits("built", "unlock")
    BY <2>4, <2>5, <2>6 DEF Nested
  <2>8. QED
    BY <2>7 DEF Fits, WhileBuilding, WhileProcessing
<1>2. QED
  BY <1>1, InvAlways, PTL

\* isProcessing and isRebuilding are up only while a thread is between the lines that
\* raise and reset them: a mapping is never left deaf.
THEOREM FlagsAlwaysComeDown ==
  Spec => []FlagsComeDown
<1>1. ASSUME Inv PROVE FlagsComeDown
  <2>1. \A t \in Threads, x \in {"unlock", "built"} : Within(t, x) <=> In(t, x)
    BY <1>1, WithinIs DEF Inv
  <2>2. QED
    BY <1>1, <2>1 DEF FlagsComeDown, Inv, StackInv, FlagInv
<1>2. QED
  BY <1>1, InvAlways, PTL

\* No thread processes a filter that is deleted: the message thread deletes it after it
\* has waited for filterLock (MappingFilterManager::removeItemInternal).
THEOREM NoneIsDeletedInUse ==
  Spec => []NoneDeletedInUse
<1>1. Inv => NoneDeletedInUse
  BY DEF NoneDeletedInUse, Inv, StackInv, HeldInv
<1>2. QED
  BY <1>1, InvAlways, PTL
=============================================================================
