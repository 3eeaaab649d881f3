------------------------ MODULE SequenceFacts_proofs ------------------------
(***************************************************************************)
(* Facts about sequences that the proofs of several components cite: what  *)
(* Selected returns, how many elements of a kind a sequence has, and what  *)
(* replacing the first element by others does to it.                       *)
(*                                                                         *)
(* No induction principle with an operator as its parameter can be used by *)
(* the provers, so Induction states it for a set of numbers; it follows    *)
(* from the well-founded order of the finite sets.                         *)
(***************************************************************************)
EXTENDS Selection, SequencesExt, FiniteSetTheorems, SequenceTheorems, TLAPS

\* Every non-empty set of naturals has a least element.
LEMMA LeastNumber ==
  ASSUME NEW T \in SUBSET Nat, T # {}
  PROVE  \E n \in T : \A k \in T : n <= k
<1> DEFINE U == {1..n : n \in T}
           R == StrictSubsetOrdering(Nat)
<1>1. U \subseteq FiniteSubsetsOf(Nat)
  BY FS_Interval DEF FiniteSubsetsOf
<1>2. U # {}
  OBVIOUS
<1>3. IsWellFoundedOn(R, FiniteSubsetsOf(Nat))
  BY FS_StrictSubsetOrderingWellFounded
<1> HIDE DEF U, R
<1>4. \E X \in U : \A Y \in U : <<Y, X>> \notin R
  BY <1>1, <1>2, <1>3, WFMin
<1>5. PICK n \in T : \A Y \in U : <<Y, 1..n>> \notin R
  BY <1>4 DEF U
<1>6. ASSUME NEW k \in T, k < n PROVE FALSE
  <2>1. 1..k \in U /\ 1..k \in SUBSET Nat /\ 1..n \in SUBSET Nat
    BY DEF U
  <2>2. 1..k \subseteq 1..n /\ n \in 1..n /\ n \notin 1..k
    BY <1>6
  <2>3. <<1..k, 1..n>> \in R
    BY <2>1, <2>2 DEF R, StrictSubsetOrdering
  <2>4. QED
    BY <2>1, <2>3, <1>5
<1>7. QED
  BY <1>6

\* A set of naturals with 0, and with the successor of each of its elements, has
\* them all.
LEMMA Induction ==
  ASSUME NEW T \in SUBSET Nat, 0 \in T, \A n \in T : n + 1 \in T
  PROVE  \A n \in Nat : n \in T
<1>1. SUFFICES ASSUME Nat \ T # {} PROVE FALSE
  OBVIOUS
<1>2. PICK n \in Nat \ T : \A k \in Nat \ T : n <= k
  BY <1>1, LeastNumber
<1>3. n # 0 /\ n - 1 \in Nat
  OBVIOUS
<1>4. n - 1 \in T
  BY <1>2, <1>3
<1>5. QED
  BY <1>4

-----------------------------------------------------------------------------
\* What the recursion of Selected says of the prefix of length n.
Prefix(f, s, A, n) ==
  IF n = 0 THEN <<>> ELSE IF s[n] \in A THEN Append(f[n - 1], s[n]) ELSE f[n - 1]

HasPrefixes(S, s, A, n) ==
  \E f \in [0..n -> Seq(S)] : \A i \in 0..n : f[i] = Prefix(f, s, A, i)

LEMMA PrefixesExist ==
  ASSUME NEW S, NEW s \in Seq(S), NEW A, NEW n \in Nat, n <= Len(s)
  PROVE  HasPrefixes(S, s, A, n)
<1> DEFINE T == {k \in Nat : k <= Len(s) => HasPrefixes(S, s, A, k)}
<1>1. 0 \in T
  <2>1. [i \in 0..0 |-> <<>>] \in [0..0 -> Seq(S)]
    OBVIOUS
  <2>2. \A i \in 0..0 : [j \in 0..0 |-> <<>>][i] = Prefix([j \in 0..0 |-> <<>>], s, A, i)
    BY DEF Prefix
  <2>3. QED
    BY <2>1, <2>2 DEF HasPrefixes
<1>2. ASSUME NEW k \in T PROVE k + 1 \in T
  <2>0. k \in Nat /\ k + 1 \in Nat
    OBVIOUS
  <2>1. SUFFICES ASSUME k + 1 <= Len(s)
                 PROVE  HasPrefixes(S, s, A, k + 1)
    BY <2>0
  <2>2. PICK f \in [0..k -> Seq(S)] : \A i \in 0..k : f[i] = Prefix(f, s, A, i)
    BY <2>1 DEF HasPrefixes
  <2> DEFINE g == [i \in 0..(k + 1) |-> IF i <= k THEN f[i] ELSE Prefix(f, s, A, k + 1)]
  <2>3. s[k + 1] \in S /\ f[k] \in Seq(S)
    BY <2>1, ElementOfSeq
  <2>4. Prefix(f, s, A, k + 1) \in Seq(S)
    BY <2>3 DEF Prefix
  <2>5. g \in [0..(k + 1) -> Seq(S)]
    BY <2>4
  <2>6. ASSUME NEW i \in 0..(k + 1) PROVE g[i] = Prefix(g, s, A, i)
    <3>1. CASE i <= k
      <4>1. g[i] = f[i] /\ (i # 0 => g[i - 1] = f[i - 1])
        BY <3>1, <2>0
      <4>2. i \in 0..k
        BY <3>1
      <4>3. QED
        BY <4>1, <4>2, <2>2 DEF Prefix
    <3>2. CASE i = k + 1
      BY <3>2 DEF Prefix
    <3>3. QED
      BY <3>1, <3>2
  <2>7. QED
    BY <2>5, <2>6 DEF HasPrefixes
<1> HIDE DEF T
<1>3. n \in T
  BY <1>1, <1>2, Induction DEF T
<1>4. QED
  BY <1>3 DEF T

\* r has the elements of s up to n that are in A, from the places that g gives.
Picks(r, g, s, A, n) ==
  /\ g \in [1..Len(r) -> 1..n]
  /\ \A i \in 1..Len(r) : r[i] = s[g[i]] /\ r[i] \in A
  /\ \A i, j \in 1..Len(r) : i < j => g[i] < g[j]
  /\ \A k \in 1..n : s[k] \in A => \E i \in 1..Len(r) : g[i] = k

LEMMA PicksOneMore ==
  ASSUME NEW S, NEW s \in Seq(S), NEW A, NEW n \in Nat, n + 1 <= Len(s),
         NEW r \in Seq(S), NEW g, Picks(r, g, s, A, n)
  PROVE  \E h : Picks(IF s[n + 1] \in A THEN Append(r, s[n + 1]) ELSE r, h, s, A, n + 1)
<1>1. CASE s[n + 1] \notin A
  <2>1. Picks(r, g, s, A, n + 1)
    <3>1. \A k \in 1..(n + 1) : k # n + 1 => k \in 1..n
      OBVIOUS
    <3>2. 1..n \subseteq 1..(n + 1)
      OBVIOUS
    <3>3. QED
      BY <1>1, <3>1, <3>2 DEF Picks
  <2>2. QED
    BY <1>1, <2>1
<1>2. CASE s[n + 1] \in A
  <2> DEFINE q == Append(r, s[n + 1])
             h == [i \in 1..(Len(r) + 1) |-> IF i <= Len(r) THEN g[i] ELSE n + 1]
  <2>1. s[n + 1] \in S
    BY ElementOfSeq
  <2>2. /\ Len(q) = Len(r) + 1 /\ Len(r) \in Nat
        /\ \A i \in 1..Len(r) : q[i] = r[i]
        /\ q[Len(r) + 1] = s[n + 1]
    BY <2>1, AppendProperties
  <2> HIDE DEF q
  <2>3. h \in [1..Len(q) -> 1..(n + 1)]
    BY <2>2 DEF Picks
  <2>4. \A i \in 1..Len(q) : q[i] = s[h[i]] /\ q[i] \in A
    BY <2>2, <1>2 DEF Picks
  <2>5. \A i, j \in 1..Len(q) : i < j => h[i] < h[j]
    BY <2>2 DEF Picks
  <2>6. ASSUME NEW k \in 1..(n + 1), s[k] \in A PROVE \E i \in 1..Len(q) : h[i] = k
    <3>1. CASE k = n + 1
      BY <3>1, <2>2
    <3>2. CASE k # n + 1
      <4>1. PICK i \in 1..Len(r) : g[i] = k
        BY <3>2, <2>6 DEF Picks
      <4>2. i \in 1..Len(q) /\ h[i] = k
        BY <4>1, <2>2
      <4>3. QED
        BY <4>2
    <3>3. QED
      BY <3>1, <3>2
  <2>7. Picks(q, h, s, A, n + 1)
    BY <2>3, <2>4, <2>5, <2>6 DEF Picks
  <2>8. QED
    BY <2>7, <1>2 DEF q
<1>3. QED
  BY <1>1, <1>2

\* Selected returns the elements that are in A, each from its place, in order.
LEMMA SelectedPicks ==
  ASSUME NEW S, NEW s \in Seq(S), NEW A
  PROVE  Selected(s, A) \in Seq(S) /\ \E g : Picks(Selected(s, A), g, s, A, Len(s))
<1> DEFINE F(f) == [n \in 0..Len(s) |->
                      IF n = 0 THEN <<>>
                      ELSE IF s[n] \in A THEN Append(f[n - 1], s[n]) ELSE f[n - 1]]
           c == CHOOSE f : f = F(f)
<1>1. Len(s) \in Nat
  OBVIOUS
<1>2. \E f : f = F(f)
  <2> HIDE DEF F, c
  <2>0. HasPrefixes(S, s, A, Len(s))
    BY <1>1, PrefixesExist
  <2>1. PICK f \in [0..Len(s) -> Seq(S)] : \A i \in 0..Len(s) : f[i] = Prefix(f, s, A, i)
    BY <2>0 DEF HasPrefixes
  <2>2. f = F(f)
    BY <2>1 DEF Prefix, F
  <2>3. QED
    BY <2>2
<1>3. c = F(c)
  BY <1>2
<1>4. Selected(s, A) = c[Len(s)]
  BY DEF Selected
<1> HIDE DEF c
<1>5. \A n \in 0..Len(s) : c[n] = IF n = 0 THEN <<>>
                                  ELSE IF s[n] \in A THEN Append(c[n - 1], s[n]) ELSE c[n - 1]
  BY <1>3
<1> HIDE DEF F
<1> DEFINE T == {n \in Nat : n <= Len(s) => c[n] \in Seq(S) /\ \E g : Picks(c[n], g, s, A, n)}
<1>6. 0 \in T
  <2>1. c[0] = <<>> /\ Len(<<>>) = 0
    BY <1>5, <1>1
  <2>2. Picks(<<>>, [i \in 1..0 |-> 0], s, A, 0)
    BY DEF Picks
  <2>3. c[0] \in Seq(S) /\ \E g : Picks(c[0], g, s, A, 0)
    BY <2>1, <2>2
  <2>4. QED
    BY <2>3
<1>7. ASSUME NEW n \in T PROVE n + 1 \in T
  <2>1. n \in Nat /\ n + 1 \in Nat
    OBVIOUS
  <2>2. SUFFICES ASSUME n + 1 <= Len(s)
                 PROVE  c[n + 1] \in Seq(S) /\ \E g : Picks(c[n + 1], g, s, A, n + 1)
    BY <2>1
  <2>3. c[n] \in Seq(S) /\ \E g : Picks(c[n], g, s, A, n)
    BY <2>1, <2>2, <1>1
  <2>4. c[n + 1] = IF s[n + 1] \in A THEN Append(c[n], s[n + 1]) ELSE c[n]
    BY <1>5, <1>1, <2>1, <2>2
  <2>5. s[n + 1] \in S
    BY <2>1, <2>2, ElementOfSeq
  <2>6. c[n + 1] \in Seq(S)
    BY <2>3, <2>4, <2>5, AppendProperties
  <2>7. \E g : Picks(c[n + 1], g, s, A, n + 1)
    BY <2>1, <2>2, <2>3, <2>4, PicksOneMore
  <2>8. QED
    BY <2>6, <2>7
<1> HIDE DEF T
<1>8. Len(s) \in T
  BY <1>1, <1>6, <1>7, Induction DEF T
<1>9. QED
  BY <1>1, <1>4, <1>8 DEF T

\* As a set: those of the sequence that are in A.
LEMMA SelectedElements ==
  ASSUME NEW S, NEW s \in Seq(S), NEW A
  PROVE  ToSet(Selected(s, A)) = ToSet(s) \cap A
<1>1. PICK g : Picks(Selected(s, A), g, s, A, Len(s))
  BY SelectedPicks
<1> DEFINE r == Selected(s, A)
<1>2. r \in Seq(S) /\ DOMAIN r = 1..Len(r) /\ DOMAIN s = 1..Len(s)
  BY SelectedPicks
<1> HIDE DEF r
<1>3. \A i \in 1..Len(r) : r[i] \in A /\ g[i] \in 1..Len(s) /\ r[i] = s[g[i]]
  BY <1>1 DEF Picks, r
<1>4. \A k \in 1..Len(s) : s[k] \in A => \E i \in 1..Len(r) : r[i] = s[k]
  BY <1>1, <1>3 DEF Picks, r
<1>5. {r[i] : i \in DOMAIN r} = {s[i] : i \in DOMAIN s} \cap A
  <2>1. ASSUME NEW i \in DOMAIN r PROVE r[i] \in {s[k] : k \in DOMAIN s} \cap A
    BY <1>2, <1>3
  <2>2. ASSUME NEW k \in DOMAIN s, s[k] \in A PROVE s[k] \in {r[i] : i \in DOMAIN r}
    <3>1. PICK i \in 1..Len(r) : r[i] = s[k]
      BY <1>2, <1>4, <2>2
    <3>2. QED
      BY <1>2, <3>1
  <2>3. QED
    BY <2>1, <2>2
<1>6. QED
  BY <1>5 DEF r, ToSet

-----------------------------------------------------------------------------
\* The elements of a sequence as a set, of its parts, and of a short one.
LEMMA Elements ==
  ASSUME NEW S, NEW q \in Seq(S)
  PROVE  /\ ToSet(q) \subseteq S
         /\ \A x : x \in ToSet(q) <=> \E i \in 1..Len(q) : q[i] = x
<1>1. DOMAIN q = 1..Len(q) /\ \A i \in 1..Len(q) : q[i] \in S
  BY ElementOfSeq, LenProperties
<1>2. QED
  BY <1>1 DEF ToSet

LEMMA ConcatElements ==
  ASSUME NEW S, NEW q \in Seq(S), NEW r \in Seq(S)
  PROVE  q \o r \in Seq(S) /\ ToSet(q \o r) = ToSet(q) \union ToSet(r)
<1>1. /\ q \o r \in Seq(S) /\ Len(q \o r) = Len(q) + Len(r)
      /\ Len(q) \in Nat /\ Len(r) \in Nat
      /\ \A i \in 1..(Len(q) + Len(r)) :
           (q \o r)[i] = IF i <= Len(q) THEN q[i] ELSE r[i - Len(q)]
  BY ConcatProperties
<1> HIDE DEF ToSet
<1>2. ASSUME NEW x PROVE x \in ToSet(q \o r) <=> x \in ToSet(q) \/ x \in ToSet(r)
  <2>1. ASSUME x \in ToSet(q \o r) PROVE x \in ToSet(q) \/ x \in ToSet(r)
    <3>1. PICK i \in 1..(Len(q) + Len(r)) : (q \o r)[i] = x
      BY <1>1, <2>1, Elements
    <3>2. CASE i <= Len(q)
      BY <1>1, <3>1, <3>2, Elements
    <3>3. CASE i > Len(q)
      <4>1. i - Len(q) \in 1..Len(r) /\ r[i - Len(q)] = x
        BY <1>1, <3>1, <3>3
      <4>2. QED
        BY <4>1, Elements
    <3>4. QED
      BY <1>1, <3>2, <3>3
  <2>2. ASSUME x \in ToSet(q) PROVE x \in ToSet(q \o r)
    <3>1. PICK i \in 1..Len(q) : q[i] = x
      BY <2>2, Elements
    <3>2. (q \o r)[i] = x /\ i \in 1..Len(q \o r)
      BY <1>1, <3>1
    <3>3. QED
      BY <1>1, <3>2, Elements
  <2>3. ASSUME x \in ToSet(r) PROVE x \in ToSet(q \o r)
    <3>1. PICK i \in 1..Len(r) : r[i] = x
      BY <2>3, Elements
    <3>2. (q \o r)[i + Len(q)] = x /\ i + Len(q) \in 1..Len(q \o r)
      BY <1>1, <3>1
    <3>3. QED
      BY <1>1, <3>2, Elements
  <2>4. QED
    BY <2>1, <2>2, <2>3
<1>3. QED
  BY <1>1, <1>2

LEMMA ShortElements ==
  /\ ToSet(<<>>) = {}
  /\ \A x : ToSet(<<x>>) = {x}
  /\ \A x, y : ToSet(<<x, y>>) = {x, y}
  /\ \A x, y, z : ToSet(<<x, y, z>>) = {x, y, z}
<1>1. ToSet(<<>>) = {}
  BY DEF ToSet
<1>2. ASSUME NEW x PROVE ToSet(<<x>>) = {x}
  <2>1. DOMAIN <<x>> = {1} /\ <<x>>[1] = x
    OBVIOUS
  <2>2. QED
    BY <2>1 DEF ToSet
<1>3. ASSUME NEW x, NEW y PROVE ToSet(<<x, y>>) = {x, y}
  <2>1. DOMAIN <<x, y>> = {1, 2} /\ <<x, y>>[1] = x /\ <<x, y>>[2] = y
    OBVIOUS
  <2>2. QED
    BY <2>1 DEF ToSet
<1>4. ASSUME NEW x, NEW y, NEW z PROVE ToSet(<<x, y, z>>) = {x, y, z}
  <2>1. DOMAIN <<x, y, z>> = {1, 2, 3} /\ <<x, y, z>>[1] = x
        /\ <<x, y, z>>[2] = y /\ <<x, y, z>>[3] = z
    OBVIOUS
  <2>2. QED
    BY <2>1 DEF ToSet
<1>5. QED
  BY <1>1, <1>2, <1>3, <1>4

LEMMA HeadElements ==
  ASSUME NEW S, NEW q \in Seq(S), q # <<>>
  PROVE  /\ Head(q) = q[1] /\ Head(q) \in S /\ Tail(q) \in Seq(S) /\ Len(q) \in Nat \ {0}
         /\ ToSet(q) = {Head(q)} \union ToSet(Tail(q))
<1>1. Head(q) = q[1] /\ Head(q) \in S /\ Tail(q) \in Seq(S) /\ <<Head(q)>> \in Seq(S)
  BY HeadTailProperties
<1>2. q = <<Head(q)>> \o Tail(q)
  BY <1>1
<1>3. ToSet(<<Head(q)>> \o Tail(q)) = ToSet(<<Head(q)>>) \union ToSet(Tail(q))
  BY <1>1, ConcatElements
<1>4. Len(q) \in Nat \ {0}
  BY EmptySeq
<1>5. QED
  BY <1>1, <1>2, <1>3, <1>4, ShortElements

\* Replacing the first element of q by those of new, as sets.
LEMMA ReplacedElements ==
  ASSUME NEW S, NEW q \in Seq(S), q # <<>>, NEW new \in Seq(S)
  PROVE  new \o Tail(q) \in Seq(S) /\ ToSet(new \o Tail(q)) = ToSet(new) \union ToSet(Tail(q))
<1>1. Tail(q) \in Seq(S)
  BY HeadElements
<1>2. QED
  BY <1>1, ConcatElements

LEMMA AppendElements ==
  ASSUME NEW S, NEW q \in Seq(S), NEW x \in S
  PROVE  Append(q, x) \in Seq(S) /\ ToSet(Append(q, x)) = ToSet(q) \union {x}
<1>1. Append(q, x) = q \o <<x>> /\ <<x>> \in Seq(S)
  OBVIOUS
<1>2. q \o <<x>> \in Seq(S) /\ ToSet(q \o <<x>>) = ToSet(q) \union ToSet(<<x>>)
  BY <1>1, ConcatElements
<1>3. QED
  BY <1>1, <1>2, ShortElements

\* A sequence of elements that are all in T.
LEMMA Narrowed ==
  ASSUME NEW S, NEW q \in Seq(S), NEW T, ToSet(q) \subseteq T
  PROVE  q \in Seq(T)
<1>1. Len(q) \in Nat /\ q \in [1..Len(q) -> S]
  BY LenProperties
<1>2. \A i \in 1..Len(q) : q[i] \in T
  BY Elements
<1>3. QED
  BY <1>1, <1>2

\* SetToSeq lists the elements of a finite set.
LEMMA ListedElements ==
  ASSUME NEW T, IsFiniteSet(T)
  PROVE  SetToSeq(T) \in Seq(T) /\ ToSet(SetToSeq(T)) = T
<1> DEFINE n == Cardinality(T)
           f == SetToSeq(T)
<1>1. n \in Nat /\ ExistsBijection(1..n, T) /\ IsFiniteSet(1..n) /\ Cardinality(1..n) = n
  <2>1. n \in Nat /\ ExistsBijection(1..n, T)
    BY FS_CardinalityType
  <2>2. 1 \in Int /\ n \in Int
    BY <2>1
  <2>3. IsFiniteSet(1..n) /\ Cardinality(1..n) = IF 1 > n THEN 0 ELSE n - 1 + 1
    BY <2>2, FS_Interval
  <2>4. QED
    BY <2>1, <2>3
<1>2. \E g \in [1..n -> T] : IsInjective(g)
  BY <1>1 DEF ExistsBijection, Bijection, Injection
<1>3. f \in [1..n -> T] /\ IsInjective(f)
  BY <1>2 DEF SetToSeq
<1>4. f \in Surjection(1..n, T)
  <2>1. f \in Injection(1..n, T)
    BY <1>3 DEF Injection
  <2>2. QED
    BY <1>1, <2>1, FS_Injection
<1>5. f \in Seq(T)
  BY <1>1, <1>3
<1>6. DOMAIN f = 1..n
  BY <1>3
<1>7. QED
  BY <1>3, <1>4, <1>5, <1>6 DEF Surjection, ToSet

-----------------------------------------------------------------------------
\* Replacing the first element of q by those of new: which element is where.
LEMMA Replaced ==
  ASSUME NEW S, NEW q \in Seq(S), q # <<>>, NEW new \in Seq(S)
  PROVE  /\ new \o Tail(q) \in Seq(S)
         /\ Len(new \o Tail(q)) = Len(new) + Len(q) - 1
         /\ \A i \in 1..Len(new) : (new \o Tail(q))[i] = new[i]
         /\ \A i \in 2..Len(q) : (new \o Tail(q))[Len(new) + i - 1] = q[i]
         /\ \A i \in 1..Len(new \o Tail(q)) :
              i > Len(new) => i - Len(new) + 1 \in 2..Len(q)
                              /\ (new \o Tail(q))[i] = q[i - Len(new) + 1]
<1>1. /\ Tail(q) \in Seq(S) /\ Len(Tail(q)) = Len(q) - 1 /\ Len(q) \in Nat /\ Len(q) > 0
      /\ \A i \in 1..Len(Tail(q)) : Tail(q)[i] = q[i + 1]
  BY HeadTailProperties, EmptySeq
<1>2. /\ new \o Tail(q) \in Seq(S)
      /\ Len(new \o Tail(q)) = Len(new) + Len(Tail(q))
      /\ \A i \in 1..(Len(new) + Len(Tail(q))) :
           (new \o Tail(q))[i] = IF i <= Len(new) THEN new[i] ELSE Tail(q)[i - Len(new)]
  BY <1>1, ConcatProperties
<1>3. Len(new) \in Nat
  OBVIOUS
<1>4. \A i \in 1..Len(new) : (new \o Tail(q))[i] = new[i]
  BY <1>1, <1>2, <1>3
<1>5. \A i \in 2..Len(q) : (new \o Tail(q))[Len(new) + i - 1] = q[i]
  BY <1>1, <1>2, <1>3
<1>6. \A i \in 1..Len(new \o Tail(q)) :
        i > Len(new) => i - Len(new) + 1 \in 2..Len(q)
                        /\ (new \o Tail(q))[i] = q[i - Len(new) + 1]
  BY <1>1, <1>2, <1>3
<1>7. QED
  BY <1>1, <1>2, <1>4, <1>5, <1>6

\* How many elements of q are in A.
Places(q, A) == {i \in 1..Len(q) : q[i] \in A}
Count(q, A) == Cardinality(Places(q, A))

LEMMA CountType ==
  ASSUME NEW S, NEW q \in Seq(S), NEW A
  PROVE  /\ Count(q, A) \in Nat /\ IsFiniteSet(Places(q, A))
         /\ (\E i \in 1..Len(q) : q[i] \in A) <=> Count(q, A) > 0
<1>1. IsFiniteSet(1..Len(q)) /\ Places(q, A) \in SUBSET (1..Len(q))
  BY FS_Interval DEF Places
<1>2. IsFiniteSet(Places(q, A))
  BY <1>1, FS_Subset
<1>3. Count(q, A) \in Nat /\ (Count(q, A) = 0 <=> Places(q, A) = {})
  BY <1>2, FS_CardinalityType, FS_EmptySet DEF Count
<1>4. (\E i \in 1..Len(q) : q[i] \in A) <=> Places(q, A) # {}
  BY DEF Places
<1>5. QED
  BY <1>2, <1>3, <1>4

LEMMA CountConcat ==
  ASSUME NEW S, NEW s \in Seq(S), NEW t \in Seq(S), NEW A
  PROVE  Count(s \o t, A) = Count(s, A) + Count(t, A)
<1> DEFINE Shifted == {i + Len(s) : i \in Places(t, A)}
           f == [i \in Places(t, A) |-> i + Len(s)]
<1>1. /\ Len(s) \in Nat /\ Len(t) \in Nat /\ Len(s \o t) = Len(s) + Len(t)
      /\ \A i \in 1..(Len(s) + Len(t)) :
           (s \o t)[i] = IF i <= Len(s) THEN s[i] ELSE t[i - Len(s)]
  BY ConcatProperties
<1>2. /\ IsFiniteSet(Places(s, A)) /\ IsFiniteSet(Places(t, A))
      /\ Count(s, A) \in Nat /\ Count(t, A) \in Nat
  BY CountType
<1>3. Places(t, A) \subseteq 1..Len(t) /\ Places(s, A) \subseteq 1..Len(s)
  BY DEF Places
<1>4. f \in Bijection(Places(t, A), Shifted)
  <2>1. f \in [Places(t, A) -> Shifted]
    OBVIOUS
  <2>2. \A i, j \in Places(t, A) : f[i] = f[j] => i = j
    BY <1>1, <1>3
  <2>3. \A k \in Shifted : \E i \in Places(t, A) : f[i] = k
    OBVIOUS
  <2> HIDE DEF f, Shifted
  <2>4. f \in Injection(Places(t, A), Shifted)
    BY <2>1, <2>2 DEF Injection, IsInjective
  <2>5. f \in Surjection(Places(t, A), Shifted)
    BY <2>1, <2>3 DEF Surjection
  <2>6. QED
    BY <2>4, <2>5 DEF Bijection
<1>5. IsFiniteSet(Shifted) /\ Cardinality(Shifted) = Count(t, A)
  BY <1>2, <1>4, FS_Bijection DEF ExistsBijection, Count
<1>6. Places(s, A) \cap Shifted = {}
  BY <1>1, <1>3
<1>7. Places(s \o t, A) = Places(s, A) \cup Shifted
  <2>1. ASSUME NEW i \in Places(s \o t, A) PROVE i \in Places(s, A) \cup Shifted
    <3>1. CASE i <= Len(s)
      BY <1>1, <2>1, <3>1 DEF Places
    <3>2. CASE i > Len(s)
      <4>1. i - Len(s) \in Places(t, A) /\ i = (i - Len(s)) + Len(s)
        BY <1>1, <2>1, <3>2 DEF Places
      <4>2. QED
        BY <4>1
    <3>3. QED
      BY <1>1, <2>1, <3>1, <3>2 DEF Places
  <2>2. Places(s, A) \subseteq Places(s \o t, A)
    BY <1>1 DEF Places
  <2>3. Shifted \subseteq Places(s \o t, A)
    BY <1>1 DEF Places
  <2>4. QED
    BY <2>1, <2>2, <2>3
<1> HIDE DEF Shifted
<1>8. Cardinality(Places(s, A) \cup Shifted) =
        Cardinality(Places(s, A)) + Cardinality(Shifted) - Cardinality(Places(s, A) \cap Shifted)
  BY <1>2, <1>5, FS_Union
<1>9. Cardinality({}) = 0
  BY FS_EmptySet
<1>10. Count(s \o t, A) = Cardinality(Places(s, A)) + Cardinality(Shifted) - 0
  BY <1>6, <1>7, <1>8, <1>9 DEF Count
<1>11. Cardinality(Places(s, A)) = Count(s, A)
  BY DEF Count
<1>12. QED
  BY <1>2, <1>5, <1>10, <1>11

One(x, A) == IF x \in A THEN 1 ELSE 0

LEMMA CountOne ==
  ASSUME NEW A
  PROVE  Count(<<>>, A) = 0 /\ \A x : Count(<<x>>, A) = One(x, A)
<1>1. Places(<<>>, A) = {}
  BY DEF Places
<1>2. ASSUME NEW x PROVE Places(<<x>>, A) = IF x \in A THEN {1} ELSE {}
  BY DEF Places
<1>3. Cardinality({}) = 0 /\ Cardinality({1}) = 1
  BY FS_EmptySet, FS_Singleton
<1>4. QED
  BY <1>1, <1>2, <1>3 DEF Count, One

\* Replacing the first element changes the count by what is put and what goes.
LEMMA CountReplaced ==
  ASSUME NEW S, NEW q \in Seq(S), q # <<>>, NEW new \in Seq(S), NEW A
  PROVE  Count(new \o Tail(q), A) = Count(new, A) + Count(q, A) - One(Head(q), A)
<1>1. Head(q) \in S /\ Tail(q) \in Seq(S) /\ <<Head(q)>> \in Seq(S)
  BY HeadTailProperties
<1>2. q = <<Head(q)>> \o Tail(q)
  BY <1>1
<1>3. Count(q, A) = One(Head(q), A) + Count(Tail(q), A)
  <2>1. Count(<<Head(q)>> \o Tail(q), A) = Count(<<Head(q)>>, A) + Count(Tail(q), A)
    BY <1>1, CountConcat
  <2>2. Count(<<Head(q)>>, A) = One(Head(q), A)
    BY CountOne
  <2>3. QED
    BY <1>2, <2>1, <2>2
<1>4. Count(new \o Tail(q), A) = Count(new, A) + Count(Tail(q), A)
  BY <1>1, CountConcat
<1>5. Count(new, A) \in Nat /\ Count(Tail(q), A) \in Nat /\ One(Head(q), A) \in Nat
  BY <1>1, CountType DEF One
<1>6. QED
  BY <1>3, <1>4, <1>5

LEMMA CountLast ==
  ASSUME NEW S, NEW x \in S, NEW q \in Seq(S), NEW A
  PROVE  Count(Append(q, x), A) = Count(q, A) + One(x, A)
<1>1. <<x>> \in Seq(S)
  OBVIOUS
<1>2. Count(q \o <<x>>, A) = Count(q, A) + Count(<<x>>, A)
  BY <1>1, CountConcat
<1>3. Count(<<x>>, A) = One(x, A)
  BY CountOne
<1>4. Append(q, x) = q \o <<x>>
  OBVIOUS
<1>5. QED
  BY <1>2, <1>3, <1>4

\* Short lists, as they are written out.
LEMMA Tuples ==
  ASSUME NEW S
  PROVE  /\ \A a \in S : <<a>> \in Seq(S)
         /\ \A a, b \in S : <<a, b>> \in Seq(S)
         /\ \A a, b, c \in S : <<a, b, c>> \in Seq(S)
         /\ \A a, b, c, d \in S : <<a, b, c, d>> \in Seq(S)
         /\ \A a, b, c, d, e \in S : <<a, b, c, d, e>> \in Seq(S)
OBVIOUS

LEMMA CountTwo ==
  ASSUME NEW S, NEW a \in S, NEW b \in S, NEW A
  PROVE  Count(<<a, b>>, A) = One(a, A) + One(b, A)
<1>1. <<a, b>> = Append(<<a>>, b) /\ <<a>> \in Seq(S)
  OBVIOUS
<1>2. Count(Append(<<a>>, b), A) = Count(<<a>>, A) + One(b, A)
  BY <1>1, CountLast
<1>3. Count(<<a>>, A) = One(a, A)
  BY CountOne
<1>4. QED
  BY <1>1, <1>2, <1>3

LEMMA CountThree ==
  ASSUME NEW S, NEW a \in S, NEW b \in S, NEW c \in S, NEW A
  PROVE  Count(<<a, b, c>>, A) = One(a, A) + One(b, A) + One(c, A)
<1>1. <<a, b, c>> = Append(<<a, b>>, c)
  OBVIOUS
<1>2. <<a, b>> \in Seq(S)
  BY Tuples
<1>3. Count(Append(<<a, b>>, c), A) = Count(<<a, b>>, A) + One(c, A)
  BY <1>2, CountLast
<1>4. Count(<<a, b>>, A) = One(a, A) + One(b, A)
  BY CountTwo
<1>5. QED
  BY <1>1, <1>3, <1>4

LEMMA CountFour ==
  ASSUME NEW S, NEW a \in S, NEW b \in S, NEW c \in S, NEW d \in S, NEW A
  PROVE  Count(<<a, b, c, d>>, A) = One(a, A) + One(b, A) + One(c, A) + One(d, A)
<1>1. <<a, b, c, d>> = Append(<<a, b, c>>, d)
  OBVIOUS
<1>2. <<a, b, c>> \in Seq(S)
  BY Tuples
<1>3. Count(Append(<<a, b, c>>, d), A) = Count(<<a, b, c>>, A) + One(d, A)
  BY <1>2, CountLast
<1>4. Count(<<a, b, c>>, A) = One(a, A) + One(b, A) + One(c, A)
  BY CountThree
<1>5. QED
  BY <1>1, <1>3, <1>4

LEMMA CountFive ==
  ASSUME NEW S, NEW a \in S, NEW b \in S, NEW c \in S, NEW d \in S, NEW e \in S, NEW A
  PROVE  Count(<<a, b, c, d, e>>, A)
           = One(a, A) + One(b, A) + One(c, A) + One(d, A) + One(e, A)
<1>1. <<a, b, c, d, e>> = Append(<<a, b, c, d>>, e)
  OBVIOUS
<1>2. <<a, b, c, d>> \in Seq(S)
  BY Tuples
<1>3. Count(Append(<<a, b, c, d>>, e), A) = Count(<<a, b, c, d>>, A) + One(e, A)
  BY <1>2, CountLast
<1>4. Count(<<a, b, c, d>>, A) = One(a, A) + One(b, A) + One(c, A) + One(d, A)
  BY CountFour
<1>5. QED
  BY <1>1, <1>3, <1>4
=============================================================================
