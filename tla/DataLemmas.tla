----------------------------- MODULE DataLemmas -----------------------------
(***************************************************************************)
(* Lemmas about the data of the models, for their proofs.  Of sequences:   *)
(* the set of their elements, and how Append, Tail and InsertAt change it. *)
(* Of sets: least elements and induction on subsets.  Of sums over sets,   *)
(* as MapThenSumSet computes them: a sum does not depend on the order and  *)
(* adds up over disjoint sets.  Of running sums, as recursive functions    *)
(* compute them, and of the parts of one sequence: parts that lie side by  *)
(* side are joined by FlattenSeq.                                          *)
(***************************************************************************)
EXTENDS SequencesExt, SequenceTheorems, FiniteSetTheorems, TLAPS

-----------------------------------------------------------------------------
(* Sequences. *)

LEMMA RangeFacts ==
  ASSUME NEW S, NEW s \in Seq(S)
  PROVE  /\ Range(s) \subseteq S /\ s \in Seq(Range(s))
         /\ \A i \in 1 .. Len(s) : s[i] \in Range(s)
         /\ \A x \in Range(s) : \E i \in 1 .. Len(s) : x = s[i]
         /\ s = <<>> <=> Range(s) = {}
<1>1. Len(s) \in Nat /\ DOMAIN s = 1 .. Len(s)
  BY LenProperties
<1>2. s # <<>> => Len(s) # 0
  BY EmptySeq
<1>3. s = <<>> => Len(s) = 0
  BY EmptySeq
<1>4. Range(s) \subseteq S /\ s \in Seq(Range(s))
  BY RangeOfSeq, SeqOfRange
<1>5. \A i \in 1 .. Len(s) : s[i] \in Range(s)
  BY <1>1 DEF Range
<1>6. \A x \in Range(s) : \E i \in 1 .. Len(s) : x = s[i]
  BY <1>1 DEF Range
<1>7. s = <<>> => Range(s) = {}
  BY <1>1, <1>3, <1>6
<1>8. s # <<>> => Range(s) # {}
  BY <1>1, <1>2, <1>5
<1> QED
  BY <1>4, <1>5, <1>6, <1>7, <1>8

LEMMA NonEmptyDomain ==
  ASSUME NEW S, NEW s \in Seq(S), s # <<>>
  PROVE  1 \in DOMAIN s /\ Len(s) \in Nat \ {0}
<1>1. Len(s) \in Nat /\ DOMAIN s = 1 .. Len(s)
  BY LenProperties
<1>2. Len(s) # 0
  BY EmptySeq
<1> QED
  BY <1>1, <1>2

LEMMA AppendRange ==
  ASSUME NEW S, NEW s \in Seq(S), NEW e \in S
  PROVE  Range(Append(s, e)) = Range(s) \cup {e}
<1>1. Append(s, e) = s \o <<e>> /\ <<e>> \in Seq(S)
  BY AppendIsConcat
<1>2. Range(<<e>>) = {e}
  BY DEF Range
<1>3. Range(s \o <<e>>) = Range(s) \cup Range(<<e>>)
  BY <1>1, RangeConcatenation, Zenon
<1> QED
  BY <1>1, <1>2, <1>3

LEMMA HeadTailRange ==
  ASSUME NEW S, NEW s \in Seq(S), s # <<>>
  PROVE  /\ Head(s) \in Range(s) /\ Tail(s) \in Seq(S)
         /\ Range(s) = {Head(s)} \cup Range(Tail(s))
<1>1. /\ Len(s) \in Nat \ {0} /\ DOMAIN s = 1 .. Len(s) /\ Head(s) = s[1]
      /\ Tail(s) \in Seq(S) /\ Len(Tail(s)) = Len(s) - 1
      /\ DOMAIN Tail(s) = 1 .. Len(Tail(s))
      /\ \A i \in 1 .. Len(Tail(s)) : Tail(s)[i] = s[i + 1]
  BY LenProperties, EmptySeq, HeadTailProperties
<1>2. ASSUME NEW i \in 1 .. Len(s)
      PROVE  s[i] \in {Head(s)} \cup Range(Tail(s))
  <2>1. CASE i = 1
    BY <1>1, <2>1
  <2>2. CASE i # 1
    <3>1. i - 1 \in 1 .. Len(Tail(s)) /\ (i - 1) + 1 = i
      BY <1>1, <2>2
    <3>2. Tail(s)[i - 1] = s[i]
      BY <1>1, <3>1
    <3> QED
      BY <1>1, <3>1, <3>2 DEF Range
  <2> QED
    BY <2>1, <2>2
<1>3. ASSUME NEW i \in 1 .. Len(Tail(s))
      PROVE  Tail(s)[i] \in Range(s)
  <2>1. i + 1 \in 1 .. Len(s)
    BY <1>1
  <2> QED
    BY <1>1, <2>1 DEF Range
<1>4. Head(s) \in Range(s)
  BY <1>1 DEF Range
<1>5. Range(s) \subseteq {Head(s)} \cup Range(Tail(s))
  BY <1>1, <1>2 DEF Range
<1>6. Range(Tail(s)) \subseteq Range(s)
  BY <1>1, <1>3 DEF Range
<1> QED
  BY <1>1, <1>4, <1>5, <1>6

\* A new element goes in at i; the others keep their order.
LEMMA InsertAtFacts ==
  ASSUME NEW S, NEW s \in Seq(S), NEW i \in 1 .. Len(s) + 1, NEW e \in S
  PROVE  /\ InsertAt(s, i, e) \in Seq(S)
         /\ Len(InsertAt(s, i, e)) = Len(s) + 1
         /\ \A j \in 1 .. Len(s) + 1 :
              InsertAt(s, i, e)[j] = IF j < i THEN s[j] ELSE IF j = i THEN e ELSE s[j - 1]
<1> DEFINE before == SubSeq(s, 1, i - 1)
           after  == SubSeq(s, i, Len(s))
<1>1. Len(s) \in Nat /\ \A j \in 1 .. Len(s) : s[j] \in S
  BY LenProperties, ElementOfSeq
<1>2. /\ before \in Seq(S) /\ Len(before) = i - 1
      /\ \A j \in 1 .. i - 1 : before[j] = s[j]
  <2>1. \A j \in 1 .. i - 1 : s[j] \in S
    BY <1>1
  <2>2. 1 \in Int /\ i - 1 \in Int
    BY <1>1
  <2>3. /\ before \in Seq(S) /\ Len(before) = IF 1 <= i - 1 THEN i - 1 - 1 + 1 ELSE 0
        /\ \A j \in 1 .. i - 1 - 1 + 1 : before[j] = s[1 + j - 1]
    BY <2>1, <2>2, SubSeqProperties
  <2> HIDE DEF before
  <2> QED
    BY <1>1, <2>3
<1>3. /\ after \in Seq(S) /\ Len(after) = Len(s) - i + 1
      /\ \A j \in 1 .. Len(s) - i + 1 : after[j] = s[i + j - 1]
  <2>1. \A j \in i .. Len(s) : s[j] \in S
    BY <1>1
  <2>2. i \in Int /\ Len(s) \in Int
    BY <1>1
  <2>3. /\ after \in Seq(S) /\ Len(after) = IF i <= Len(s) THEN Len(s) - i + 1 ELSE 0
        /\ \A j \in 1 .. Len(s) - i + 1 : after[j] = s[i + j - 1]
    BY <2>1, <2>2, SubSeqProperties
  <2> HIDE DEF after
  <2> QED
    BY <1>1, <2>3
<1> DEFINE front == before \o <<e>>
<1>4. <<e>> \in Seq(S) /\ Len(<<e>>) = 1 /\ <<e>>[1] = e
  OBVIOUS
<1> HIDE DEF before, after
<1>5. /\ front \in Seq(S) /\ Len(front) = i
      /\ \A j \in 1 .. i : front[j] = IF j < i THEN s[j] ELSE e
  <2>1. /\ front \in Seq(S) /\ Len(front) = Len(before) + 1
        /\ \A j \in 1 .. Len(before) + 1 :
             front[j] = IF j <= Len(before) THEN before[j] ELSE <<e>>[j - Len(before)]
    BY <1>2, <1>4, ConcatProperties
  <2> HIDE DEF front
  <2> QED
    BY <1>1, <1>2, <1>4, <2>1
<1> HIDE DEF front
<1>6. /\ front \o after \in Seq(S) /\ Len(front \o after) = Len(s) + 1
      /\ \A j \in 1 .. Len(s) + 1 :
           (front \o after)[j] = IF j <= i THEN front[j] ELSE after[j - i]
  <2>1. /\ front \o after \in Seq(S) /\ Len(front \o after) = Len(front) + Len(after)
        /\ \A j \in 1 .. Len(front) + Len(after) :
             (front \o after)[j] = IF j <= Len(front) THEN front[j] ELSE after[j - Len(front)]
    BY <1>3, <1>5, ConcatProperties, Zenon
  <2>2. Len(front) + Len(after) = Len(s) + 1 /\ Len(front) = i
    BY <1>1, <1>3, <1>5
  <2> QED
    BY <2>1, <2>2
<1>7. InsertAt(s, i, e) = front \o after
  BY DEF InsertAt, front, before, after
<1>8. ASSUME NEW j \in 1 .. Len(s) + 1
      PROVE  (front \o after)[j] = IF j < i THEN s[j] ELSE IF j = i THEN e ELSE s[j - 1]
  <2>1. i \in Int /\ j \in Int /\ Len(s) \in Int /\ 1 <= j /\ j <= Len(s) + 1
    BY <1>1
  <2>2. CASE j <= i
    <3>1. j \in 1 .. i
      BY <2>1, <2>2
    <3>2. (front \o after)[j] = front[j]
      BY <1>6, <2>2
    <3> QED
      BY <1>5, <2>1, <3>1, <3>2
  <2>3. CASE ~(j <= i)
    <3>1. j - i \in 1 .. Len(s) - i + 1 /\ i + (j - i) - 1 = j - 1 /\ ~(j < i) /\ j # i
      BY <2>1, <2>3
    <3>2. after[j - i] = s[j - 1]
      BY <1>3, <3>1
    <3>3. (front \o after)[j] = after[j - i]
      BY <1>6, <2>3
    <3> QED
      BY <3>1, <3>2, <3>3
  <2> QED
    BY <2>2, <2>3
<1> QED
  BY <1>6, <1>7, <1>8

LEMMA InsertAtInjective ==
  ASSUME NEW S, NEW s \in Seq(S), IsInjective(s), NEW e \in S, e \notin Range(s),
         NEW i \in 1 .. Len(s) + 1
  PROVE  /\ InsertAt(s, i, e) \in Seq(S) /\ Len(InsertAt(s, i, e)) = Len(s) + 1
         /\ IsInjective(InsertAt(s, i, e))
         /\ Range(InsertAt(s, i, e)) = Range(s) \cup {e}
<1> DEFINE t == InsertAt(s, i, e)
<1>1. /\ t \in Seq(S) /\ Len(t) = Len(s) + 1
      /\ \A j \in 1 .. Len(s) + 1 :
           t[j] = IF j < i THEN s[j] ELSE IF j = i THEN e ELSE s[j - 1]
  BY InsertAtFacts, SMTT(90)
<1> HIDE DEF t
<1>2. Len(s) \in Nat /\ DOMAIN s = 1 .. Len(s) /\ DOMAIN t = 1 .. Len(s) + 1
  BY <1>1, LenProperties
<1>3. \A j \in 1 .. Len(s) : s[j] # e
  BY <1>2 DEF Range
<1>4. IsInjective(t)
  <2> SUFFICES ASSUME NEW j \in 1 .. Len(s) + 1, NEW k \in 1 .. Len(s) + 1, t[j] = t[k]
               PROVE  j = k
    BY <1>2 DEF IsInjective
  <2>1. \A a, b \in 1 .. Len(s) : s[a] = s[b] => a = b
    BY <1>2 DEF IsInjective
  <2>2. (j < i => j \in 1 .. Len(s)) /\ (j > i => j - 1 \in 1 .. Len(s))
    BY <1>2
  <2>3. (k < i => k \in 1 .. Len(s)) /\ (k > i => k - 1 \in 1 .. Len(s))
    BY <1>2
  <2> QED
    BY <1>1, <1>2, <1>3, <2>1, <2>2, <2>3
<1>5. ASSUME NEW j \in 1 .. Len(s)
      PROVE  s[j] \in Range(t)
  <2>1. CASE j < i
    BY <1>1, <1>2, <2>1 DEF Range
  <2>2. CASE j >= i
    <3>1. j + 1 \in 1 .. Len(s) + 1 /\ (j + 1) - 1 = j /\ ~(j + 1 < i) /\ j + 1 # i
      BY <1>2, <2>2
    <3>2. t[j + 1] = s[j]
      BY <1>1, <3>1
    <3> QED
      BY <1>2, <3>1, <3>2 DEF Range
  <2> QED
    BY <1>2, <2>1, <2>2
<1>6. e \in Range(t)
  <2>1. t[i] = e
    BY <1>1, <1>2
  <2> QED
    BY <1>2, <2>1 DEF Range
<1>7. ASSUME NEW j \in 1 .. Len(s) + 1
      PROVE  t[j] \in Range(s) \cup {e}
  <2>1. (j < i => j \in 1 .. Len(s)) /\ (j > i => j - 1 \in 1 .. Len(s))
    BY <1>2
  <2>2. \A k \in 1 .. Len(s) : s[k] \in Range(s)
    BY <1>2 DEF Range
  <2> QED
    BY <1>1, <1>2, <2>1, <2>2
<1>8. Range(s) \cup {e} \subseteq Range(t)
  BY <1>2, <1>5, <1>6 DEF Range
<1>9. Range(t) \subseteq Range(s) \cup {e}
  BY <1>2, <1>7 DEF Range
<1> QED
  BY <1>1, <1>4, <1>8, <1>9 DEF t

-----------------------------------------------------------------------------
(* Least elements, and induction on the subsets of a finite set. *)

\* A set of natural numbers that is not empty has a least element.
LEMMA LeastNatural ==
  ASSUME NEW T, T \subseteq Nat, T # {}
  PROVE  \E x \in T : \A y \in T : x <= y
<1> DEFINE U == {1 .. n : n \in T}
<1>1. U \subseteq FiniteSubsetsOf(Nat)
  <2> SUFFICES ASSUME NEW n \in T
               PROVE  1 .. n \in SUBSET Nat /\ IsFiniteSet(1 .. n)
    BY DEF FiniteSubsetsOf
  <2> QED BY FS_Interval
<1>2. U # {}
  OBVIOUS
<1>3. IsWellFoundedOn(StrictSubsetOrdering(Nat), FiniteSubsetsOf(Nat))
  BY FS_StrictSubsetOrderingWellFounded
<1> HIDE DEF U
<1>4. PICK u \in U : \A v \in U : ~ (<<v, u>> \in StrictSubsetOrdering(Nat))
  BY <1>1, <1>2, <1>3, WFMin
<1>5. PICK x \in T : u = 1 .. x
  BY <1>4 DEF U
<1> SUFFICES ASSUME NEW y \in T, ~ x <= y
             PROVE  FALSE
  OBVIOUS
<1>6. y < x /\ x \in Nat /\ y \in Nat
  OBVIOUS
<1>7. 1 .. y \subseteq 1 .. x /\ 1 .. y # 1 .. x
  <2>1. x \in 1 .. x /\ x \notin 1 .. y
    BY <1>6
  <2> QED BY <2>1, <1>6
<1>8. <<1 .. y, 1 .. x>> \in StrictSubsetOrdering(Nat)
  <2>1. 1 .. y \in SUBSET Nat /\ 1 .. x \in SUBSET Nat
    BY <1>6
  <2> QED BY <1>7, <2>1 DEF StrictSubsetOrdering
<1>9. 1 .. y \in U
  BY DEF U
<1> QED BY <1>4, <1>5, <1>8, <1>9

\* The least element of a set of natural numbers is in it.
LEMMA MinOfNaturals ==
  ASSUME NEW T, T \subseteq Nat, T # {}
  PROVE  Min(T) \in T /\ \A y \in T : Min(T) <= y
BY LeastNatural DEF Min

\* So is the greatest one of a set that is bounded.
LEMMA MaxOfNaturals ==
  ASSUME NEW T, T \subseteq Nat, T # {}, NEW n \in Nat, \A y \in T : y <= n
  PROVE  Max(T) \in T /\ \A y \in T : Max(T) >= y
<1> DEFINE Bounds == {m \in Nat : \A y \in T : y <= m}
<1>1. PICK m \in Bounds : \A k \in Bounds : m <= k
  <2>1. Bounds \subseteq Nat /\ Bounds # {}
    OBVIOUS
  <2> HIDE DEF Bounds
  <2> QED BY <2>1, LeastNatural
<1>2. m \in T
  <2> SUFFICES ASSUME m \notin T
               PROVE  FALSE
    OBVIOUS
  <2>1. PICK t \in T : TRUE
    OBVIOUS
  <2>2. m \in Nat /\ t < m
    BY <1>1, <2>1
  <2>3. m - 1 \in Bounds
    BY <1>1, <2>2
  <2> QED BY <1>1, <2>2, <2>3
<1>3. \E x \in T : \A y \in T : x >= y
  BY <1>1, <1>2
<1> QED BY <1>3 DEF Max

\* A set of subsets of S that has each T of which it has the smaller ones.
LEMMA SubsetInduction ==
  ASSUME NEW S, IsFiniteSet(S), NEW Good,
         \A T \in SUBSET S :
           (\A U \in SUBSET T : U # T => U \in Good) => T \in Good
  PROVE  \A T \in SUBSET S : T \in Good
<1> DEFINE Bad == {T \in SUBSET S : T \notin Good}
<1> SUFFICES ASSUME Bad # {}
             PROVE  FALSE
  OBVIOUS
<1>1. IsWellFoundedOn(StrictSubsetOrdering(S), FiniteSubsetsOf(S))
  BY FS_StrictSubsetOrderingWellFounded
<1>2. Bad \subseteq FiniteSubsetsOf(S)
  BY FS_FiniteSubsetsOfFinite
<1> HIDE DEF Bad
<1>3. PICK T \in Bad : \A U \in Bad : ~ (<<U, T>> \in StrictSubsetOrdering(S))
  BY <1>1, <1>2, WFMin
<1>4. T \in SUBSET S /\ T \notin Good
  BY DEF Bad
<1>5. PICK U \in SUBSET T : U # T /\ U \notin Good
  BY <1>4
<1>6. U \in SUBSET S
  BY <1>4
<1>7. U \in Bad
  BY <1>5, <1>6 DEF Bad
<1>8. <<U, T>> \in StrictSubsetOrdering(S)
  BY <1>4, <1>5, <1>6 DEF StrictSubsetOrdering
<1> QED BY <1>3, <1>7, <1>8

-----------------------------------------------------------------------------
(* Sums of a function over a finite set. *)

SumOver(w, S) == MapThenSumSet(LAMBDA c : w[c], S)

Take(s) == CHOOSE c \in s : TRUE

\* i holds the sums over the subsets of S, each built on a smaller one.
Sums(w, S, i) ==
  i = [s \in SUBSET S |-> IF s = {} THEN 0 ELSE w[Take(s)] + i[s \ {Take(s)}]]

LEMMA TakeIsIn == \A s : s # {} => Take(s) \in s
BY DEF Take

LEMMA SumsStep ==
  ASSUME NEW w, NEW S, NEW i, Sums(w, S, i), NEW s \in SUBSET S
  PROVE  i[s] = IF s = {} THEN 0 ELSE w[Take(s)] + i[s \ {Take(s)}]
BY DEF Sums

LEMMA SumOverIsASum ==
  ASSUME NEW w, NEW S, NEW i, Sums(w, S, i)
  PROVE  \E j : Sums(w, S, j) /\ SumOver(w, S) = j[S]
BY DEF Sums, Take, SumOver, MapThenSumSet, MapThenFoldSet

\* Two tables of sums say the same of a set that is in both.
LEMMA SumsAgree ==
  ASSUME NEW w, NEW S, NEW T, NEW i, NEW j, Sums(w, S, i), Sums(w, T, j),
         NEW V, V \subseteq S, V \subseteq T, IsFiniteSet(V)
  PROVE  i[V] = j[V]
<1> DEFINE Good == {U \in SUBSET V : i[U] = j[U]}
<1>1. ASSUME NEW U \in SUBSET V, \A X \in SUBSET U : X # U => X \in Good
      PROVE  U \in Good
  <2>1. U \in SUBSET S /\ U \in SUBSET T
    OBVIOUS
  <2>2. CASE U = {}
    BY <2>1, <2>2, SumsStep
  <2>3. CASE U # {}
    <3>1. Take(U) \in U
      BY <2>3, TakeIsIn
    <3>2. U \ {Take(U)} \in SUBSET U /\ U \ {Take(U)} # U
      BY <3>1
    <3>3. i[U \ {Take(U)}] = j[U \ {Take(U)}]
      BY <1>1, <3>2
    <3>4. i[U] = w[Take(U)] + i[U \ {Take(U)}]
      BY <2>1, <2>3, SumsStep
    <3>5. j[U] = w[Take(U)] + j[U \ {Take(U)}]
      BY <2>1, <2>3, SumsStep
    <3> QED BY <3>3, <3>4, <3>5
  <2> QED BY <2>2, <2>3
<1> HIDE DEF Good
<1>2. \A U \in SUBSET V : U \in Good
  BY <1>1, SubsetInduction
<1>3. V \in Good
  BY <1>2
<1> QED BY <1>3 DEF Good

\* A finite set has a table of sums.
LEMMA SumsExist ==
  ASSUME NEW w, NEW S, IsFiniteSet(S)
  PROVE  \E i : Sums(w, S, i)
<1> DEFINE Good == {U \in SUBSET S : \E i : Sums(w, U, i)}
<1>1. ASSUME NEW U \in SUBSET S, \A X \in SUBSET U : X # U => X \in Good
      PROVE  U \in Good
  <2> DEFINE step(s) == IF s = {} THEN 0 ELSE w[Take(s)] + SumOver(w, s \ {Take(s)})
             i == [s \in SUBSET U |-> step(s)]
  <2>1. ASSUME NEW s \in SUBSET U, s # U
        PROVE  SumOver(w, s) = step(s)
    <3>1. PICK k : Sums(w, s, k)
      BY <1>1, <2>1
    <3>2. PICK j : Sums(w, s, j) /\ SumOver(w, s) = j[s]
      BY <3>1, SumOverIsASum
    <3>3. CASE s = {}
      BY <3>2, <3>3, SumsStep
    <3>4. CASE s # {}
      <4> DEFINE r == s \ {Take(s)}
      <4>1. Take(s) \in s
        BY <3>4, TakeIsIn
      <4>2. r \in SUBSET U /\ r # U /\ r \subseteq s
        BY <2>1, <4>1
      <4>3. PICK m : Sums(w, r, m)
        BY <1>1, <4>2
      <4>4. PICK n : Sums(w, r, n) /\ SumOver(w, r) = n[r]
        BY <4>3, SumOverIsASum
      <4>5. IsFiniteSet(r)
        BY <4>2, FS_Subset
      <4>6. j[r] = n[r]
        <5> HIDE DEF r
        <5> QED BY <3>2, <4>2, <4>4, <4>5, SumsAgree
      <4>7. j[s] = w[Take(s)] + j[r]
        BY <3>2, <3>4, SumsStep
      <4> QED BY <3>2, <3>4, <4>4, <4>6, <4>7
    <3> QED BY <3>3, <3>4
  <2>2. ASSUME NEW s \in SUBSET U
        PROVE  i[s] = IF s = {} THEN 0 ELSE w[Take(s)] + i[s \ {Take(s)}]
    <3>1. CASE s = {}
      BY <3>1
    <3>2. CASE s # {}
      <4>1. Take(s) \in s
        BY <3>2, TakeIsIn
      <4> DEFINE r == s \ {Take(s)}
      <4>2. r \in SUBSET U /\ r # U
        BY <4>1
      <4>3. i[r] = SumOver(w, r)
        <5>1. i[r] = step(r)
          BY <4>2
        <5>2. SumOver(w, r) = step(r)
          <6> HIDE DEF r, step
          <6> QED BY <4>2, <2>1
        <5> QED BY <5>1, <5>2
      <4> QED BY <3>2, <4>3
    <3> QED BY <3>1, <3>2
  <2>3. Sums(w, U, i)
    <3>1. i = [s \in SUBSET U |-> i[s]]
      OBVIOUS
    <3> HIDE DEF i
    <3> QED BY <2>2, <3>1 DEF Sums
  <2> QED BY <2>3
<1> HIDE DEF Good
<1>2. \A U \in SUBSET S : U \in Good
  BY <1>1, SubsetInduction
<1>3. S \in Good
  BY <1>2
<1> QED BY <1>3 DEF Good

LEMMA SumIsInATable ==
  ASSUME NEW w, NEW S, IsFiniteSet(S)
  PROVE  \E i : Sums(w, S, i) /\ SumOver(w, S) = i[S]
BY SumsExist, SumOverIsASum

LEMMA SumOfNothing ==
  ASSUME NEW w
  PROVE  SumOver(w, {}) = 0
<1>1. IsFiniteSet({})
  BY FS_EmptySet
<1>2. PICK i : Sums(w, {}, i) /\ SumOver(w, {}) = i[{}]
  BY <1>1, SumIsInATable
<1> QED BY <1>2, SumsStep

LEMMA SumStep ==
  ASSUME NEW w, NEW S, IsFiniteSet(S), S # {}
  PROVE  SumOver(w, S) = w[Take(S)] + SumOver(w, S \ {Take(S)})
<1> DEFINE r == S \ {Take(S)}
<1>1. PICK i : Sums(w, S, i) /\ SumOver(w, S) = i[S]
  BY SumIsInATable
<1>2. IsFiniteSet(r)
  BY FS_Subset
<1>3. PICK j : Sums(w, r, j) /\ SumOver(w, r) = j[r]
  BY <1>2, SumIsInATable
<1>4. i[r] = j[r]
  <2>1. r \subseteq S
    OBVIOUS
  <2> HIDE DEF r
  <2> QED BY <1>1, <1>2, <1>3, <2>1, SumsAgree
<1>5. i[S] = w[Take(S)] + i[r]
  BY <1>1, SumsStep
<1> QED BY <1>1, <1>3, <1>4, <1>5

LEMMA SumIsAnInteger ==
  ASSUME NEW w, NEW S, IsFiniteSet(S), \A c \in S : w[c] \in Int
  PROVE  SumOver(w, S) \in Int
<1> DEFINE Good == {U \in SUBSET S : SumOver(w, U) \in Int}
<1>1. ASSUME NEW U \in SUBSET S, \A X \in SUBSET U : X # U => X \in Good
      PROVE  U \in Good
  <2>1. CASE U = {}
    BY <2>1, SumOfNothing
  <2>2. CASE U # {}
    <3>1. Take(U) \in U /\ IsFiniteSet(U)
      BY <2>2, TakeIsIn, FS_Subset
    <3>2. U \ {Take(U)} \in Good
      BY <1>1, <3>1
    <3>3. SumOver(w, U) = w[Take(U)] + SumOver(w, U \ {Take(U)})
      BY <2>2, <3>1, SumStep
    <3>4. w[Take(U)] \in Int
      BY <3>1
    <3> QED BY <3>2, <3>3, <3>4
  <2> QED BY <2>1, <2>2
<1> HIDE DEF Good
<1>2. \A U \in SUBSET S : U \in Good
  BY <1>1, SubsetInduction
<1>3. S \in Good
  BY <1>2
<1> QED BY <1>3 DEF Good

\* Whichever element is taken out first, the sum is the same.
LEMMA SumWithout ==
  ASSUME NEW w, NEW S, IsFiniteSet(S), \A c \in S : w[c] \in Int, NEW y \in S
  PROVE  SumOver(w, S) = w[y] + SumOver(w, S \ {y})
<1> DEFINE Good == {U \in SUBSET S : \A x \in U :
                      SumOver(w, U) = w[x] + SumOver(w, U \ {x})}
<1>1. ASSUME NEW U \in SUBSET S, \A X \in SUBSET U : X # U => X \in Good
      PROVE  U \in Good
  <2> SUFFICES ASSUME NEW x \in U
               PROVE  SumOver(w, U) = w[x] + SumOver(w, U \ {x})
    OBVIOUS
  <2> DEFINE t == Take(U)
  <2>1. t \in U /\ IsFiniteSet(U)
    BY TakeIsIn, FS_Subset
  <2>2. SumOver(w, U) = w[t] + SumOver(w, U \ {t})
    BY <2>1, SumStep
  <2> HIDE DEF t
  <2>3. CASE x = t
    BY <2>2, <2>3
  <2>4. CASE x # t
    <3>1. U \ {t} \in Good /\ U \ {x} \in Good
      <4>1. U \ {t} \in SUBSET U /\ U \ {t} # U /\ U \ {x} \in SUBSET U /\ U \ {x} # U
        BY <2>1
      <4> HIDE DEF Good
      <4> QED BY <4>1, <1>1
    <3>2. SumOver(w, U \ {t}) = w[x] + SumOver(w, (U \ {t}) \ {x})
      BY <2>1, <2>4, <3>1
    <3>3. SumOver(w, U \ {x}) = w[t] + SumOver(w, (U \ {x}) \ {t})
      BY <2>1, <2>4, <3>1
    <3>4. (U \ {t}) \ {x} = (U \ {x}) \ {t}
      OBVIOUS
    <3>5. SumOver(w, (U \ {t}) \ {x}) \in Int
      <4> DEFINE r == (U \ {t}) \ {x}
      <4>1. r \in SUBSET S
        OBVIOUS
      <4>2. IsFiniteSet(r) /\ \A c \in r : w[c] \in Int
        BY <4>1, FS_Subset
      <4> HIDE DEF r
      <4>3. SumOver(w, r) \in Int
        BY <4>2, SumIsAnInteger
      <4> QED BY <4>3 DEF r
    <3>6. w[x] \in Int /\ w[t] \in Int
      BY <2>1
    <3>7. SumOver(w, (U \ {t}) \ {x}) = SumOver(w, (U \ {x}) \ {t})
      BY <3>4, Zenon
    <3>8. SumOver(w, U) = w[t] + (w[x] + SumOver(w, (U \ {t}) \ {x}))
      BY <2>2, <3>2
    <3>9. w[x] + SumOver(w, U \ {x}) = w[x] + (w[t] + SumOver(w, (U \ {t}) \ {x}))
      BY <3>3, <3>7
    <3> QED BY <3>5, <3>6, <3>8, <3>9
  <2> QED BY <2>3, <2>4
<1> HIDE DEF Good
<1>2. \A U \in SUBSET S : U \in Good
  BY <1>1, SubsetInduction
<1>3. S \in Good
  BY <1>2
<1> QED BY <1>3 DEF Good

LEMMA SumWith ==
  ASSUME NEW w, NEW S, IsFiniteSet(S), NEW y, y \notin S,
         \A c \in S \cup {y} : w[c] \in Int
  PROVE  SumOver(w, S \cup {y}) = w[y] + SumOver(w, S)
<1> DEFINE T == S \cup {y}
<1>1. IsFiniteSet(T) /\ y \in T
  BY FS_AddElement
<1>2. T \ {y} = S
  OBVIOUS
<1>3. \A c \in T : w[c] \in Int
  OBVIOUS
<1> HIDE DEF T
<1>4. SumOver(w, T) = w[y] + SumOver(w, T \ {y})
  BY <1>1, <1>3, SumWithout
<1> QED BY <1>2, <1>4 DEF T

LEMMA SumOfDisjoint ==
  ASSUME NEW w, NEW S, NEW V, IsFiniteSet(S), IsFiniteSet(V), S \cap V = {},
         \A c \in S \cup V : w[c] \in Int
  PROVE  SumOver(w, S \cup V) = SumOver(w, S) + SumOver(w, V)
<1> DEFINE Good == {U \in SUBSET V : SumOver(w, S \cup U) = SumOver(w, S) + SumOver(w, U)}
<1>1. SumOver(w, S) \in Int
  BY SumIsAnInteger
<1>2. ASSUME NEW U \in SUBSET V, \A X \in SUBSET U : X # U => X \in Good
      PROVE  U \in Good
  <2>1. CASE U = {}
    <3>1. S \cup U = S
      BY <2>1
    <3> QED BY <2>1, <3>1, <1>1, SumOfNothing
  <2>2. CASE U # {}
    <3>1. PICK x \in U : TRUE
      BY <2>2
    <3> DEFINE r == U \ {x}
    <3>2. r \in Good
      <4>1. r \in SUBSET U /\ r # U
        OBVIOUS
      <4> HIDE DEF Good, r
      <4> QED BY <4>1, <1>2
    <3>3. IsFiniteSet(r) /\ x \notin r /\ U = r \cup {x} /\ r \subseteq V /\ x \in V /\ x \notin S
      BY FS_Subset
    <3>4. S \cup U = (S \cup r) \cup {x} /\ x \notin S \cup r
      BY <3>3
    <3>5. IsFiniteSet(S \cup r)
      BY <3>3, FS_Union
    <3> HIDE DEF r
    <3>6. SumOver(w, r \cup {x}) = w[x] + SumOver(w, r)
      BY <3>3, SumWith
    <3>7. SumOver(w, (S \cup r) \cup {x}) = w[x] + SumOver(w, S \cup r)
      <4> DEFINE R == S \cup r
      <4>1. IsFiniteSet(R) /\ x \notin R /\ \A c \in R \cup {x} : w[c] \in Int
        BY <3>3, <3>4, <3>5
      <4> HIDE DEF R
      <4>2. SumOver(w, R \cup {x}) = w[x] + SumOver(w, R)
        BY <4>1, SumWith
      <4> QED BY <4>2 DEF R
    <3>8. SumOver(w, r) \in Int
      BY <3>3, SumIsAnInteger
    <3>9. w[x] \in Int
      BY <3>3
    <3>10. SumOver(w, S \cup r) = SumOver(w, S) + SumOver(w, r)
      BY <3>2
    <3>11. SumOver(w, U) = w[x] + SumOver(w, r)
      BY <3>3, <3>6
    <3>12. SumOver(w, S \cup U) = w[x] + SumOver(w, S \cup r)
      BY <3>4, <3>7
    <3>13. SumOver(w, S \cup U) = SumOver(w, S) + SumOver(w, U)
      BY <1>1, <3>8, <3>9, <3>10, <3>11, <3>12
    <3> QED BY <3>13
  <2> QED BY <2>1, <2>2
<1> HIDE DEF Good
<1>3. \A U \in SUBSET V : U \in Good
  BY <1>2, SubsetInduction
<1>4. V \in Good
  BY <1>3
<1> QED BY <1>4 DEF Good

-----------------------------------------------------------------------------
(* The least and the greatest of two. *)

LEMMA MinOfTwo ==
  ASSUME NEW a \in Int, NEW b \in Int
  PROVE  Min({a, b}) = IF a <= b THEN a ELSE b
<1>1. \E x \in {a, b} : \A y \in {a, b} : x <= y
  OBVIOUS
<1>2. Min({a, b}) \in {a, b} /\ \A y \in {a, b} : Min({a, b}) <= y
  BY <1>1 DEF Min
<1> QED BY <1>2

LEMMA MaxOfTwo ==
  ASSUME NEW a \in Int, NEW b \in Int
  PROVE  Max({a, b}) = IF a >= b THEN a ELSE b
<1>1. \E x \in {a, b} : \A y \in {a, b} : x >= y
  OBVIOUS
<1>2. Max({a, b}) \in {a, b} /\ \A y \in {a, b} : Max({a, b}) >= y
  BY <1>1 DEF Max
<1> QED BY <1>2

-----------------------------------------------------------------------------
(* The sums of the first elements of a sequence, all of them. *)

PrefixSums(w, K, e) == e = [s \in 0 .. K |-> IF s = 0 THEN 0 ELSE e[s - 1] + w[s]]

LEMMA PrefixSumsStep ==
  ASSUME NEW w, NEW K \in Nat, NEW e, PrefixSums(w, K, e)
  PROVE  e[0] = 0 /\ \A s \in 1 .. K : e[s] = e[s - 1] + w[s]
<1>1. \A s \in 0 .. K : e[s] = IF s = 0 THEN 0 ELSE e[s - 1] + w[s]
  BY DEF PrefixSums
<1> QED BY <1>1

LEMMA PrefixSumsExist ==
  ASSUME NEW w, NEW K \in Nat
  PROVE  \E e : PrefixSums(w, K, e)
<1> DEFINE Bad == {k \in Nat : ~ \E e : PrefixSums(w, k, e)}
<1> SUFFICES ASSUME Bad # {} PROVE FALSE
  OBVIOUS
<1>1. PICK k \in Bad : \A m \in Bad : k <= m
  <2> HIDE DEF Bad
  <2>1. Bad \subseteq Nat
    BY DEF Bad
  <2> QED BY <2>1, LeastNatural
<1>2. k # 0
  <2> DEFINE e == [s \in 0 .. 0 |-> 0]
  <2>1. e = [s \in 0 .. 0 |-> IF s = 0 THEN 0 ELSE e[s - 1] + w[s]]
    OBVIOUS
  <2>2. PrefixSums(w, 0, e)
    BY <2>1 DEF PrefixSums
  <2> QED BY <2>2
<1>3. k - 1 \in Nat /\ k \in Nat
  BY <1>2
<1>4. PICK e : PrefixSums(w, k - 1, e)
  <2>1. k - 1 \notin Bad
    BY <1>1, <1>3
  <2> QED BY <1>3, <2>1
<1> DEFINE d == [s \in 0 .. k |-> IF s = k THEN e[k - 1] + w[k] ELSE e[s]]
<1>5. ASSUME NEW s \in 0 .. k
      PROVE  d[s] = IF s = 0 THEN 0 ELSE d[s - 1] + w[s]
  <2>1. e[0] = 0 /\ \A m \in 1 .. k - 1 : e[m] = e[m - 1] + w[m]
    BY <1>3, <1>4, PrefixSumsStep
  <2>2. CASE s = 0
    BY <1>2, <2>1, <2>2
  <2>3. CASE s = k
    BY <1>2, <1>3, <2>3
  <2>4. CASE s \in 1 .. k - 1
    BY <1>3, <2>1, <2>4
  <2> QED BY <1>3, <2>2, <2>3, <2>4
<1>6. d = [s \in 0 .. k |-> IF s = 0 THEN 0 ELSE d[s - 1] + w[s]]
  BY <1>5
<1> HIDE DEF d
<1>7. PrefixSums(w, k, d)
  BY <1>6 DEF PrefixSums
<1> QED BY <1>1, <1>7

LEMMA PrefixSumsAgree ==
  ASSUME NEW w, NEW K \in Nat, NEW d, NEW e, PrefixSums(w, K, d), PrefixSums(w, K, e)
  PROVE  d = e
<1> DEFINE Bad == {s \in 0 .. K : d[s] # e[s]}
<1>1. ASSUME Bad # {} PROVE FALSE
  <2>1. PICK s \in Bad : \A m \in Bad : s <= m
    <3> HIDE DEF Bad
    <3>1. Bad \subseteq Nat
      BY DEF Bad
    <3> QED BY <1>1, <3>1, LeastNatural
  <2>2. /\ d[0] = 0 /\ \A m \in 1 .. K : d[m] = d[m - 1] + w[m]
        /\ e[0] = 0 /\ \A m \in 1 .. K : e[m] = e[m - 1] + w[m]
    BY PrefixSumsStep
  <2>3. s \in 1 .. K /\ s - 1 \in 0 .. K
    BY <2>2
  <2>4. s - 1 \notin Bad
    BY <2>1, <2>3
  <2>5. d[s] = e[s]
    BY <2>2, <2>3, <2>4
  <2> QED BY <2>5
<1>2. \A s \in 0 .. K : d[s] = e[s]
  BY <1>1
<1>3. DOMAIN d = 0 .. K /\ DOMAIN e = 0 .. K
  BY DEF PrefixSums
<1>4. d = [s \in 0 .. K |-> d[s]] /\ e = [s \in 0 .. K |-> e[s]]
  BY DEF PrefixSums
<1> QED BY <1>2, <1>4

\* They are naturals, and grow.
LEMMA PrefixSumsGrow ==
  ASSUME NEW w, NEW K \in Nat, NEW e, PrefixSums(w, K, e), \A s \in 1 .. K : w[s] \in Nat
  PROVE  /\ \A s \in 0 .. K : e[s] \in Nat /\ e[s] <= e[K]
         /\ \A s \in 1 .. K : e[s] = e[s - 1] + w[s]
         /\ e[0] = 0
<1>1. e[0] = 0 /\ \A s \in 1 .. K : e[s] = e[s - 1] + w[s]
  BY PrefixSumsStep
<1>2. \A s \in 0 .. K : e[s] \in Nat
  <2> DEFINE Bad == {s \in 0 .. K : e[s] \notin Nat}
  <2> SUFFICES ASSUME Bad # {} PROVE FALSE
    OBVIOUS
  <2>1. PICK s \in Bad : \A m \in Bad : s <= m
    <3> HIDE DEF Bad
    <3>1. Bad \subseteq Nat
      BY DEF Bad
    <3> QED BY <3>1, LeastNatural
  <2>2. s \in 1 .. K /\ s - 1 \in 0 .. K
    BY <1>1
  <2>3. s - 1 \notin Bad
    BY <2>1, <2>2
  <2> QED BY <1>1, <2>2, <2>3
<1>3. \A s \in 0 .. K : e[s] <= e[K]
  <2> DEFINE Bad == {m \in 0 .. K : e[K - m] > e[K]}
  <2> SUFFICES ASSUME Bad # {} PROVE FALSE
    <3> SUFFICES ASSUME NEW s \in 0 .. K, ~(e[s] <= e[K]) PROVE Bad # {}
      OBVIOUS
    <3>1. K - s \in 0 .. K /\ K - (K - s) = s /\ e[s] > e[K]
      BY <1>2
    <3>2. K - s \in Bad
      BY <3>1
    <3> QED BY <3>2
  <2>1. PICK m \in Bad : \A k \in Bad : m <= k
    <3> HIDE DEF Bad
    <3>1. Bad \subseteq Nat
      BY DEF Bad
    <3> QED BY <3>1, LeastNatural
  <2>2. m # 0 /\ m \in 0 .. K
    BY <1>2
  <2>3. m - 1 \notin Bad /\ m - 1 \in 0 .. K
    BY <2>1, <2>2
  <2>4. K - (m - 1) \in 1 .. K /\ K - m \in 0 .. K /\ K - (m - 1) - 1 = K - m
    BY <2>2
  <2>5. e[K - (m - 1)] = e[K - m] + w[K - (m - 1)]
    BY <1>1, <2>4
  <2>6. e[K - (m - 1)] <= e[K]
    BY <1>2, <2>3, <2>4
  <2> QED BY <1>2, <2>1, <2>4, <2>5, <2>6
<1> QED BY <1>1, <1>2, <1>3

-----------------------------------------------------------------------------
(* Slices of one long sequence <<n, 1>>, <<n, 2>>, ...: the bytes of n. *)

\* The bytes of n from place a + 1 to place b.
Slice(n, a, b) == [i \in 1 .. b - a |-> <<n, a + i>>]

LEMMA SliceIsSeq ==
  ASSUME NEW n, NEW a \in Nat, NEW b \in Nat, a <= b
  PROVE  /\ Slice(n, a, b) \in Seq({n} \X Nat) /\ Len(Slice(n, a, b)) = b - a
         /\ \A i \in 1 .. b - a : Slice(n, a, b)[i] = <<n, a + i>>
<1>1. b - a \in Nat /\ \A i \in 1 .. b - a : <<n, a + i>> \in {n} \X Nat
  OBVIOUS
<1>2. Slice(n, a, b) \in [1 .. b - a -> {n} \X Nat]
  BY <1>1 DEF Slice
<1> QED BY <1>1, <1>2 DEF Slice

LEMMA SliceIs ==
  ASSUME NEW n, NEW a \in Nat, NEW b \in Nat, a <= b, NEW s \in Seq({n} \X Nat),
         Len(s) = b - a, \A i \in 1 .. b - a : s[i] = <<n, a + i>>
  PROVE  s = Slice(n, a, b)
<1>1. DOMAIN s = 1 .. b - a /\ s \in [1 .. b - a -> {n} \X Nat]
  BY LenProperties
<1> QED BY <1>1 DEF Slice

LEMMA NoSlice == ASSUME NEW n, NEW a \in Nat PROVE Slice(n, a, a) = <<>>
<1>1. Slice(n, a, a) \in Seq({n} \X Nat) /\ Len(Slice(n, a, a)) = 0
  <2>1. a <= a /\ a - a = 0
    OBVIOUS
  <2>2. Slice(n, a, a) \in Seq({n} \X Nat) /\ Len(Slice(n, a, a)) = a - a
    BY <2>1, SliceIsSeq
  <2> QED BY <2>1, <2>2
<1> QED BY <1>1, EmptySeq

\* The provers rewrite SubSeq wherever they see it.
Cut(s, first, last) == SubSeq(s, first, last)

LEMMA SliceOfSlice ==
  ASSUME NEW n, NEW a \in Nat, NEW b \in Nat, NEW first \in Nat, NEW last \in Nat,
         1 <= first, first <= last + 1, a + last <= b
  PROVE  Cut(Slice(n, a, b), first, last) = Slice(n, a + first - 1, a + last)
<1>0. PICK x \in Nat, y \in Nat : x = first - 1 /\ y = last
  <2>1. first - 1 \in Nat
    OBVIOUS
  <2> QED BY <2>1
<1>a. /\ x <= y /\ a + y <= b /\ a <= b /\ first = x + 1 /\ last = y
      /\ a + x = a + first - 1 /\ a + y = a + last
  BY <1>0
<1>b. a <= b
  BY <1>a
<1> DEFINE s == Slice(n, a, b)
           r == SubSeq(s, x + 1, y)
<1>1. \A i \in x + 1 .. y : i \in 1 .. b - a
  BY <1>a
<1>2. /\ \A i \in 1 .. b - a : s[i] = <<n, a + i>>
      /\ \A i \in 1 .. b - a : s[i] \in {n} \X Nat
  <2>1. \A i \in 1 .. b - a : s[i] = <<n, a + i>>
    BY <1>b, SliceIsSeq
  <2>2. \A i \in 1 .. b - a : <<n, a + i>> \in {n} \X Nat
    OBVIOUS
  <2> HIDE DEF s
  <2> QED BY <2>1, <2>2
<1> HIDE DEF s
<1>3. \A i \in x + 1 .. y : s[i] \in {n} \X Nat
  BY <1>1, <1>2
<1>4. /\ r \in Seq({n} \X Nat) /\ Len(r) = IF x + 1 <= y THEN y - (x + 1) + 1 ELSE 0
      /\ \A i \in 1 .. y - (x + 1) + 1 : r[i] = s[x + 1 + i - 1]
  BY <1>3, SubSeqProperties
<1> HIDE DEF r
<1>5. Len(r) = (a + y) - (a + x) /\ \A i \in 1 .. (a + y) - (a + x) : r[i] = <<n, a + x + i>>
  <2>1. Len(r) = (a + y) - (a + x)
    BY <1>4, <1>a
  <2>2. ASSUME NEW i \in 1 .. (a + y) - (a + x) PROVE r[i] = <<n, a + x + i>>
    <3>1. i \in 1 .. y - (x + 1) + 1 /\ x + 1 + i - 1 \in 1 .. b - a /\ x + 1 + i - 1 = x + i
      BY <1>a
    <3>2. r[i] = s[x + i]
      BY <1>4, <3>1
    <3>3. a + (x + i) = a + x + i
      OBVIOUS
    <3> QED BY <1>2, <3>1, <3>2, <3>3
  <2> QED BY <2>1, <2>2
<1>6. a + x \in Nat /\ a + y \in Nat /\ a + x <= a + y
  BY <1>a
<1>7. r = Slice(n, a + x, a + y)
  BY <1>4, <1>5, <1>6, SliceIs
<1> QED BY <1>a, <1>7 DEF r, s, Cut

LEMMA SlicesMeet ==
  ASSUME NEW n, NEW a \in Nat, NEW b \in Nat, NEW c \in Nat, a <= b, b <= c
  PROVE  Slice(n, a, b) \o Slice(n, b, c) = Slice(n, a, c)
<1> DEFINE s == Slice(n, a, b)
           t == Slice(n, b, c)
           r == s \o t
<1>1. /\ s \in Seq({n} \X Nat) /\ Len(s) = b - a /\ \A i \in 1 .. b - a : s[i] = <<n, a + i>>
      /\ t \in Seq({n} \X Nat) /\ Len(t) = c - b /\ \A i \in 1 .. c - b : t[i] = <<n, b + i>>
  BY SliceIsSeq
<1> HIDE DEF s, t
<1>2. /\ r \in Seq({n} \X Nat) /\ Len(r) = Len(s) + Len(t)
      /\ \A i \in 1 .. Len(s) + Len(t) : r[i] = IF i <= Len(s) THEN s[i] ELSE t[i - Len(s)]
  BY <1>1, ConcatProperties
<1> HIDE DEF r
<1>3. Len(r) = c - a
  BY <1>1, <1>2
<1>4. ASSUME NEW i \in 1 .. c - a PROVE r[i] = <<n, a + i>>
  <2>1. r[i] = IF i <= b - a THEN s[i] ELSE t[i - (b - a)]
    <3>1. Len(s) = b - a /\ Len(t) = c - b
      BY <1>1
    <3>2. i \in 1 .. Len(s) + Len(t)
      BY <3>1
    <3>3. r[i] = IF i <= Len(s) THEN s[i] ELSE t[i - Len(s)]
      BY <1>2, <3>2, Zenon
    <3> QED BY <3>1, <3>3, Zenon
  <2>2. CASE i <= b - a
    BY <1>1, <2>1, <2>2
  <2>3. CASE ~(i <= b - a)
    <3>1. i - (b - a) \in 1 .. c - b /\ b + (i - (b - a)) = a + i
      BY <2>3
    <3> QED BY <1>1, <2>1, <2>3, <3>1
  <2> QED BY <2>2, <2>3
<1>5. r = Slice(n, a, c)
  <2>1. a <= c
    OBVIOUS
  <2>2. r \in Seq({n} \X Nat)
    BY <1>2
  <2> QED BY <1>3, <1>4, <2>1, <2>2, SliceIs
<1> QED BY <1>5 DEF r, s, t

LEMMA CutOfContent ==
  ASSUME NEW n, NEW b \in Nat, NEW first \in Nat, 1 <= first, NEW last \in Nat, last <= b
  PROVE  Cut(Slice(n, 0, b), first, last)
           = IF first <= last THEN Slice(n, first - 1, last) ELSE <<>>
<1>1. CASE first <= last
  <2>1. /\ 0 \in Nat /\ first <= last + 1 /\ 0 + last <= b
        /\ 0 + first - 1 = first - 1 /\ 0 + last = last
    BY <1>1
  <2>2. Cut(Slice(n, 0, b), first, last) = Slice(n, 0 + first - 1, 0 + last)
    BY <2>1, SliceOfSlice
  <2> QED BY <1>1, <2>1, <2>2
<1>2. CASE ~(first <= last)
  <2>1. last < first /\ first \in Int /\ last \in Int
    BY <1>2
  <2>2. Cut(Slice(n, 0, b), first, last) = <<>>
    BY <2>1, SubSeqEmpty DEF Cut
  <2> QED BY <1>2, <2>2
<1> QED BY <1>1, <1>2

\* FlattenSeq joins parts that lie side by side.
LEMMA PartsJoin ==
  ASSUME NEW n, NEW K \in Nat \ {0}, NEW B \in [0 .. K -> Nat],
         \A s \in 1 .. K : B[s - 1] <= B[s],
         NEW parts, parts = [s \in 1 .. K |-> Slice(n, B[s - 1], B[s])]
  PROVE  FlattenSeq(parts) = Slice(n, B[0], B[K])
<1>1. Len(parts) = K
  <2>1. \A s \in 1 .. K : Slice(n, B[s - 1], B[s]) \in Seq({n} \X Nat)
    <3> SUFFICES ASSUME NEW s \in 1 .. K
                 PROVE  Slice(n, B[s - 1], B[s]) \in Seq({n} \X Nat)
      OBVIOUS
    <3>1. B[s - 1] \in Nat /\ B[s] \in Nat /\ B[s - 1] <= B[s]
      OBVIOUS
    <3> QED BY <3>1, SliceIsSeq
  <2>2. parts \in [1 .. K -> Seq({n} \X Nat)]
    BY <2>1
  <2> QED BY <2>2, SeqDef, LenProperties
<1>2. \A s \in 0 .. K : B[s] \in Nat /\ B[0] <= B[s]
  <2> DEFINE Bad == {s \in 0 .. K : ~(B[0] <= B[s])}
  <2>1. ASSUME Bad # {} PROVE FALSE
    <3>1. PICK s \in Bad : \A m \in Bad : s <= m
      <4> HIDE DEF Bad
      <4>1. Bad \subseteq Nat
        BY DEF Bad
      <4> QED BY <2>1, <4>1, LeastNatural
    <3>2. s \in 1 .. K /\ s - 1 \in 0 .. K
      OBVIOUS
    <3>3. s - 1 \notin Bad
      BY <3>1, <3>2
    <3> QED BY <3>2, <3>3
  <2> QED BY <2>1
\* The equation that FlattenSeq solves, and a solution.
<1> DEFINE Solves(h) == h = [s \in 1 .. K |-> IF s = 1 THEN parts[s] ELSE h[s - 1] \o parts[s]]
           j == [s \in 1 .. K |-> Slice(n, B[0], B[s])]
<1>3. /\ parts[1] = Slice(n, B[0], B[1])
      /\ \A s \in 2 .. K : Slice(n, B[0], B[s - 1]) \o parts[s] = Slice(n, B[0], B[s])
  <2>1. parts[1] = Slice(n, B[0], B[1])
    <3>1. 1 \in 1 .. K /\ 1 - 1 = 0
      OBVIOUS
    <3> QED BY <3>1
  <2>2. ASSUME NEW s \in 2 .. K
        PROVE  Slice(n, B[0], B[s - 1]) \o parts[s] = Slice(n, B[0], B[s])
    <3>1. s \in 1 .. K /\ s - 1 \in 0 .. K /\ 0 \in 0 .. K /\ s \in 0 .. K
      OBVIOUS
    <3>2. parts[s] = Slice(n, B[s - 1], B[s])
      BY <3>1
    <3>3. /\ B[0] \in Nat /\ B[s - 1] \in Nat /\ B[s] \in Nat
          /\ B[0] <= B[s - 1] /\ B[s - 1] <= B[s]
      BY <1>2, <3>1
    <3>4. \A p, q, r \in Nat : p <= q /\ q <= r => Slice(n, p, q) \o Slice(n, q, r) = Slice(n, p, r)
      BY SlicesMeet
    <3>5. Slice(n, B[0], B[s - 1]) \o Slice(n, B[s - 1], B[s]) = Slice(n, B[0], B[s])
      BY <3>3, <3>4
    <3> QED BY <3>2, <3>5
  <2> QED BY <2>1, <2>2
<1>4. Solves(j)
  <2>1. ASSUME NEW s \in 1 .. K
        PROVE  j[s] = IF s = 1 THEN parts[s] ELSE j[s - 1] \o parts[s]
    <3>1. CASE s = 1
      BY <1>3, <3>1
    <3>2. CASE s # 1
      <4>1. s \in 2 .. K /\ s - 1 \in 1 .. K
        BY <3>2
      <4> QED BY <1>3, <3>2, <4>1
    <3> QED BY <3>1, <3>2
  <2> QED BY <2>1
<1> DEFINE h == CHOOSE x : Solves(x)
<1>5. Solves(h)
  <2> HIDE DEF j, Solves
  <2> QED BY <1>4
<1>6. FlattenSeq(parts) = h[K]
  BY <1>1 DEF FlattenSeq
<1> HIDE DEF h, j
<1>7. \A s \in 1 .. K : h[s] = IF s = 1 THEN parts[s] ELSE h[s - 1] \o parts[s]
  BY <1>5
<1> HIDE DEF Solves
<1>8. \A s \in 1 .. K : h[s] = Slice(n, B[0], B[s])
  <2> DEFINE Bad == {s \in 1 .. K : h[s] # Slice(n, B[0], B[s])}
  <2>1. ASSUME Bad # {} PROVE FALSE
    <3>1. PICK s \in Bad : \A m \in Bad : s <= m
      <4> HIDE DEF Bad
      <4>1. Bad \subseteq Nat
        BY DEF Bad
      <4> QED BY <2>1, <4>1, LeastNatural
    <3>2. s # 1
      BY <1>3, <1>7
    <3>3. s \in 2 .. K /\ s - 1 \in 1 .. K
      BY <3>2
    <3>4. s - 1 \notin Bad
      BY <3>1, <3>3
    <3>5. h[s] = h[s - 1] \o parts[s]
      BY <1>7, <3>2, <3>3
    <3>6. h[s - 1] = Slice(n, B[0], B[s - 1])
      BY <3>3, <3>4
    <3>7. h[s] = Slice(n, B[0], B[s])
      BY <1>3, <3>3, <3>5, <3>6
    <3> QED BY <3>7
  <2> QED BY <2>1
<1> QED BY <1>6, <1>8

\* A place, kept between two others.
Clamp(x, lo, hi) == IF x < lo THEN lo ELSE IF x > hi THEN hi ELSE x

LEMMA ClampFacts ==
  ASSUME NEW lo \in Nat, NEW hi \in Nat, lo <= hi, NEW x \in Nat
  PROVE  /\ Clamp(x, lo, hi) \in Nat
         /\ \A y \in Nat : x <= y => Clamp(x, lo, hi) <= Clamp(y, lo, hi)
         /\ x <= lo => Clamp(x, lo, hi) = lo
         /\ x >= hi => Clamp(x, lo, hi) = hi
BY DEF Clamp
=============================================================================
