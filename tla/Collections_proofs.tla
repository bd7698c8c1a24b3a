-------------------------- MODULE Collections_proofs --------------------------
(***************************************************************************)
(* Facts about finite sets, sequences and numbers that the proofs share.   *)
(***************************************************************************)
EXTENDS Integers, FiniteSets, Sequences, SequencesExt,
        FiniteSetTheorems, SequenceTheorems, WellFoundedInduction, TLAPS

AfterFirst(q) == {q[i] : i \in 2..Len(q)}

\* A sequence is one over its own elements.
LEMMA OwnElements ==
  ASSUME NEW S, NEW q \in Seq(S)
  PROVE  q \in Seq(ToSet(q)) /\ ToSet(q) \subseteq S
  <1> DEFINE n == Len(q)
             T == ToSet(q)
  <1>1. /\ DOMAIN q = 1..n /\ n \in Nat /\ q = [i \in 1..n |-> q[i]]
        /\ \A i \in 1..n : q[i] \in S
    BY LenProperties, ElementOfSeq
  <1>2. \A i \in 1..n : q[i] \in T
    BY <1>1 DEF ToSet
  <1>3. T \subseteq S
    <2> HIDE DEF n
    <2> QED BY <1>1 DEF ToSet
  <1>4. q \in Seq(T)
    <2> HIDE DEF n, T
    <2>1. q \in [1..n -> T]
      BY <1>1, <1>2
    <2> QED BY <1>1, <2>1, SeqDef
  <1> QED BY <1>3, <1>4

LEMMA TailOps ==
  ASSUME NEW S, NEW q \in Seq(S), q # <<>>
  PROVE  /\ Tail(q) \in Seq(S) /\ Head(q) \in ToSet(q)
         /\ ToSet(Tail(q)) = AfterFirst(q)
         /\ AfterFirst(Tail(q)) = {q[i] : i \in 3..Len(q)}
         /\ ToSet(q) = {Head(q)} \cup AfterFirst(q)
  <1> DEFINE t == Tail(q)
             n == Len(q)
             h == Head(q)
  <1>1. n \in Nat /\ n > 0 /\ h = q[1] /\ t \in Seq(S)
    OBVIOUS
  <1>2. Len(t) = n - 1 /\ \A i \in 1..n - 1 : t[i] = q[i + 1]
    BY <1>1
  <1>3. DOMAIN q = 1..n /\ DOMAIN t = 1..n - 1
    BY <1>1, <1>2
  <1>4. /\ \A i \in 2..n : i - 1 \in 1..n - 1 /\ q[i] = t[i - 1]
        /\ \A i \in 1..n - 1 : i + 1 \in 2..n
        /\ \A i \in 1..n : i = 1 \/ i \in 2..n
    BY <1>1, <1>2
  <1>5. ToSet(t) = AfterFirst(q) /\ AfterFirst(t) = {q[i] : i \in 3..n}
    <2> HIDE DEF t, n, h
    <2>1. AfterFirst(q) = {q[i] : i \in 2..n} /\ AfterFirst(t) = {t[i] : i \in 2..n - 1}
      BY <1>2 DEF AfterFirst, n
    <2>2. ASSUME NEW i \in 1..n - 1 PROVE t[i] \in AfterFirst(q)
      BY <1>2, <1>4, <2>1
    <2>3. ASSUME NEW i \in 2..n PROVE q[i] \in ToSet(t)
      BY <1>3, <1>4 DEF ToSet
    <2>4. ToSet(t) = AfterFirst(q)
      BY <1>3, <2>1, <2>2, <2>3 DEF ToSet
    <2>5. AfterFirst(t) = {q[i] : i \in 3..n}
      <3>1. \A i \in 2..n - 1 : i + 1 \in 3..n /\ t[i] = q[i + 1]
        BY <1>1, <1>2
      <3>2. \A i \in 3..n : i - 1 \in 2..n - 1 /\ t[i - 1] = q[i]
        BY <1>1, <1>4
      <3> QED BY <2>1, <3>1, <3>2
    <2> QED BY <2>4, <2>5
  <1>6. ToSet(q) = {h} \cup AfterFirst(q) /\ h \in ToSet(q)
    <2> HIDE DEF t, n, h
    <2>1. AfterFirst(q) = {q[i] : i \in 2..n}
      BY DEF AfterFirst, n
    <2>2. ASSUME NEW i \in 1..n PROVE q[i] \in {h} \cup AfterFirst(q)
      BY <1>1, <1>4, <2>1
    <2>3. ASSUME NEW i \in 2..n PROVE q[i] \in ToSet(q)
      BY <1>1, <1>3 DEF ToSet
    <2>4. h \in ToSet(q)
      BY <1>1, <1>3 DEF ToSet
    <2> QED BY <1>3, <2>1, <2>2, <2>3, <2>4 DEF ToSet
  <1> QED BY <1>1, <1>5, <1>6

LEMMA ConcatIndex ==
  ASSUME NEW S, NEW p \in Seq(S), NEW q \in Seq(S)
  PROVE  /\ p \o q \in Seq(S) /\ Len(p \o q) = Len(p) + Len(q) /\ Len(p) \in Nat /\ Len(q) \in Nat
         /\ DOMAIN p = 1..Len(p) /\ DOMAIN q = 1..Len(q) /\ DOMAIN (p \o q) = 1..(Len(p) + Len(q))
         /\ \A i \in 1..Len(p) : (p \o q)[i] = p[i]
         /\ \A i \in 1..Len(q) : (p \o q)[Len(p) + i] = q[i]
         /\ \A i \in 1..(Len(p) + Len(q)) : i \in 1..Len(p) \/ \E j \in 1..Len(q) : i = Len(p) + j
<1>1. /\ p \o q \in Seq(S) /\ Len(p \o q) = Len(p) + Len(q)
      /\ \A i \in 1..(Len(p) + Len(q)) : (p \o q)[i] = IF i <= Len(p) THEN p[i] ELSE q[i - Len(p)]
      /\ Len(p) \in Nat /\ Len(q) \in Nat
      /\ DOMAIN p = 1..Len(p) /\ DOMAIN q = 1..Len(q) /\ DOMAIN (p \o q) = 1..(Len(p) + Len(q))
  BY ConcatProperties, LenProperties
<1>2. \A i \in 1..Len(p) : (p \o q)[i] = p[i]
  BY <1>1
<1>3. ASSUME NEW i \in 1..Len(q) PROVE (p \o q)[Len(p) + i] = q[i]
  <2>1. Len(p) + i \in 1..(Len(p) + Len(q)) /\ ~(Len(p) + i <= Len(p)) /\ (Len(p) + i) - Len(p) = i
    BY <1>1
  <2> QED BY <1>1, <2>1
<1>4. ASSUME NEW i \in 1..(Len(p) + Len(q)) PROVE i \in 1..Len(p) \/ \E j \in 1..Len(q) : i = Len(p) + j
  <2>1. CASE i <= Len(p)
    BY <1>1, <2>1
  <2>2. CASE ~(i <= Len(p))
    <3>1. i - Len(p) \in 1..Len(q) /\ i = Len(p) + (i - Len(p))
      BY <1>1, <2>2
    <3> QED BY <3>1
  <2> QED BY <2>1, <2>2
<1> QED BY <1>1, <1>2, <1>3, <1>4

LEMMA ConcatOps ==
  ASSUME NEW S, NEW p \in Seq(S), NEW q \in Seq(S)
  PROVE  /\ p \o q \in Seq(S)
         /\ ToSet(p \o q) = ToSet(p) \cup ToSet(q)
         /\ AfterFirst(p \o q) \subseteq AfterFirst(p) \cup ToSet(q)
<1>1. /\ p \o q \in Seq(S) /\ Len(p \o q) = Len(p) + Len(q)
      /\ \A i \in 1..(Len(p) + Len(q)) : (p \o q)[i] = IF i <= Len(p) THEN p[i] ELSE q[i - Len(p)]
      /\ Len(p) \in Nat /\ Len(q) \in Nat
      /\ DOMAIN p = 1..Len(p) /\ DOMAIN q = 1..Len(q) /\ DOMAIN (p \o q) = 1..(Len(p) + Len(q))
  BY ConcatProperties, LenProperties
<1>2. \A i \in 1..Len(q) : i + Len(p) \in 1..(Len(p) + Len(q)) /\ q[i] = (p \o q)[i + Len(p)]
  BY <1>1
<1>3. ToSet(p \o q) = ToSet(p) \cup ToSet(q)
  BY <1>1, <1>2, SMTT(30) DEF ToSet
<1>4. AfterFirst(p \o q) \subseteq AfterFirst(p) \cup ToSet(q)
  BY <1>1 DEF ToSet, AfterFirst
<1> QED BY <1>1, <1>3, <1>4

LEMMA FunctionIsSeq ==
  ASSUME NEW n \in Nat, NEW f, DOMAIN f = 1..n, f = [i \in 1..n |-> f[i]]
  PROVE  f \in Seq({f[i] : i \in 1..n}) /\ ToSet(f) = {f[i] : i \in 1..n}
<1> DEFINE S == {f[i] : i \in 1..n}
<1>1. f \in [1..n -> S]
  OBVIOUS
<1>2. ToSet(f) = S
  BY DEF ToSet
<1> HIDE DEF S
<1>3. f \in Seq(S)
  BY <1>1, SeqDef
<1> QED BY <1>2, <1>3 DEF S

LEMMA SetToSeqOps ==
  ASSUME NEW T, IsFiniteSet(T)
  PROVE  SetToSeq(T) \in Seq(T) /\ ToSet(SetToSeq(T)) \subseteq T
  <1> DEFINE n == Cardinality(T)
  <1>1. n \in Nat /\ ExistsBijection(1..n, T)
    BY FS_CardinalityType
  <1>2. SetToSeq(T) \in [1..n -> T]
    <2>1. \E f \in [1..n -> T] : IsInjective(f)
      BY <1>1, Zenon DEF ExistsBijection, Bijection, Injection
    <2> QED BY <2>1, Zenon DEF SetToSeq
  <1>3. SetToSeq(T) \in Seq(T)
    <2> HIDE DEF n
    <2> QED BY <1>1, <1>2, SeqDef
  <1> QED BY <1>3, OwnElements

LEMMA FiniteImage ==
  ASSUME NEW T, IsFiniteSet(T), NEW f
  PROVE  IsFiniteSet({f[x] : x \in T})
<1> DEFINE g == [x \in T |-> f[x]]
           image == {f[x] : x \in T}
<1>1. g \in Surjection(T, image)
  BY DEF Surjection
<1> HIDE DEF g, image
<1>2. IsFiniteSet(image)
  BY <1>1, FS_Surjection
<1> QED BY <1>2 DEF image

\* Some natural number is the least of any.
LEMMA Smaller == \E R : IsWellFoundedOn(R, Nat) /\ \A x, y \in Nat : y < x => <<y, x>> \in R
<1>1. \A x, y \in Nat : y < x => <<y, x>> \in OpToRel(<, Nat)
  BY DEF OpToRel
<1> QED BY <1>1, NatLessThanWellFounded, Zenon

LEMMA Minimum ==
  ASSUME NEW T \in SUBSET Nat, T # {}
  PROVE  \E x \in T : \A y \in T : x <= y
<1>1. PICK R : IsWellFoundedOn(R, Nat) /\ \A x, y \in Nat : y < x => <<y, x>> \in R
  BY Smaller
<1>2. PICK x \in T : \A y \in T : <<y, x>> \notin R
  BY <1>1, WFMin
<1>3. ASSUME NEW y \in T PROVE x <= y
  <2>1. x \in Nat /\ y \in Nat /\ ~(y < x)
    BY <1>1, <1>2
  <2> QED BY <2>1
<1> QED BY <1>2, <1>3

\* Different numbers rank from 0 to one less than there are.
Lower(f, T, x) == {y \in T : f[y] < f[x]}

LEMMA Ranks ==
  ASSUME NEW T, IsFiniteSet(T), NEW f \in [T -> Int], \A x, y \in T : f[x] = f[y] => x = y
  PROVE  /\ Cardinality(T) \in Nat
         /\ \A x \in T : Cardinality(Lower(f, T, x)) \in 0..(Cardinality(T) - 1)
         /\ \A x, y \in T : f[x] < f[y] => Cardinality(Lower(f, T, x)) < Cardinality(Lower(f, T, y))
         /\ \A x, y \in T : Cardinality(Lower(f, T, x)) = Cardinality(Lower(f, T, y)) => x = y
         /\ \A k \in 0..(Cardinality(T) - 1) : \E x \in T : Cardinality(Lower(f, T, x)) = k
<1> DEFINE n == Cardinality(T)
           rank == [x \in T |-> Cardinality(Lower(f, T, x))]
<1>1. n \in Nat
  BY FS_CardinalityType
<1>2. \A x \in T : IsFiniteSet(Lower(f, T, x)) /\ Cardinality(Lower(f, T, x)) \in Nat
  BY FS_Subset, FS_CardinalityType DEF Lower
<1>3. ASSUME NEW x \in T, NEW y \in T, f[x] < f[y] PROVE rank[x] < rank[y]
  <2>1. Lower(f, T, x) \cup {x} \in SUBSET Lower(f, T, y) /\ x \notin Lower(f, T, x)
    BY <1>3 DEF Lower
  <2>2. Cardinality(Lower(f, T, x) \cup {x}) = Cardinality(Lower(f, T, x)) + 1
    BY <1>2, <2>1, FS_AddElement
  <2>3. Cardinality(Lower(f, T, x) \cup {x}) <= Cardinality(Lower(f, T, y))
    BY <1>2, <2>1, FS_Subset
  <2> QED BY <1>2, <2>2, <2>3
<1>4. ASSUME NEW x \in T PROVE rank[x] \in 0..(n - 1)
  <2>1. Lower(f, T, x) \in SUBSET (T \ {x})
    BY DEF Lower
  <2>2. IsFiniteSet(T \ {x}) /\ Cardinality(T \ {x}) = n - 1
    BY FS_RemoveElement
  <2>3. Cardinality(Lower(f, T, x)) <= n - 1
    BY <2>1, <2>2, FS_Subset
  <2> QED BY <1>1, <1>2, <2>3
<1>5. ASSUME NEW x \in T, NEW y \in T, rank[x] = rank[y] PROVE x = y
  <2>1. ~(rank[x] < rank[y]) /\ ~(rank[y] < rank[x])
    BY <1>1, <1>4, <1>5
  <2>2. f[x] = f[y]
    BY <1>3, <2>1
  <2> QED BY <2>2
<1>6. rank \in Injection(T, 0..(n - 1))
  BY <1>4, <1>5 DEF Injection, IsInjective
<1>7. IsFiniteSet(0..(n - 1)) /\ Cardinality(0..(n - 1)) = n
  BY <1>1, FS_Interval
<1>8. rank \in Surjection(T, 0..(n - 1))
  BY <1>6, <1>7, FS_Injection
<1>9. \A k \in 0..(n - 1) : \E x \in T : rank[x] = k
  BY <1>8 DEF Surjection
<1> QED BY <1>1, <1>3, <1>4, <1>5, <1>9

\* Things listed by their ranks: every one has a place.
Listing(f, T, q) ==
  /\ DOMAIN q = 1..Cardinality(T)
  /\ \A k \in DOMAIN q : (\E x \in T : Cardinality(Lower(f, T, x)) = k - 1)
                          => q[k] \in T /\ Cardinality(Lower(f, T, q[k])) = k - 1

LEMMA Ranked ==
  ASSUME NEW T, IsFiniteSet(T), NEW f \in [T -> Int], \A x, y \in T : f[x] = f[y] => x = y,
         NEW q, Listing(f, T, q)
  PROVE  /\ Cardinality(T) \in Nat /\ DOMAIN q = 1..Cardinality(T) /\ \A k \in DOMAIN q : q[k] \in T
         /\ \A i, j \in DOMAIN q : q[i] = q[j] => i = j
         /\ \A x \in T : \E k \in DOMAIN q : q[k] = x
<1> DEFINE n == Cardinality(T)
           rank(x) == Cardinality(Lower(f, T, x))
<1>1. /\ n \in Nat /\ \A x \in T : rank(x) \in 0..(n - 1)
      /\ \A x, y \in T : rank(x) = rank(y) => x = y
      /\ \A k \in 0..(n - 1) : \E x \in T : rank(x) = k
  BY Ranks
<1>2. /\ DOMAIN q = 1..n
      /\ \A k \in 1..n : (\E x \in T : rank(x) = k - 1) => q[k] \in T /\ rank(q[k]) = k - 1
  BY DEF Listing
<1> HIDE DEF rank, n
<1>3. \A k \in 1..n : q[k] \in T /\ rank(q[k]) = k - 1
  <2> TAKE k \in 1..n
  <2>1. k - 1 \in 0..(n - 1)
    BY <1>1
  <2>2. \E x \in T : rank(x) = k - 1
    BY <1>1, <2>1
  <2> QED BY <1>2, <2>2
<1>4. ASSUME NEW x \in T PROVE \E k \in 1..n : q[k] = x
  <2>1. rank(x) + 1 \in 1..n /\ (rank(x) + 1) - 1 = rank(x)
    BY <1>1
  <2> QED BY <1>1, <1>3, <2>1
<1>5. ASSUME NEW i \in 1..n, NEW j \in 1..n, q[i] = q[j] PROVE i = j
  BY <1>1, <1>3, <1>5
<1> QED BY <1>1, <1>2, <1>3, <1>4, <1>5 DEF n

\* SetToSeq has every element once.
LEMMA SetToSeqAll ==
  ASSUME NEW T, IsFiniteSet(T)
  PROVE  /\ ToSet(SetToSeq(T)) = T
         /\ \A i, j \in DOMAIN SetToSeq(T) : SetToSeq(T)[i] = SetToSeq(T)[j] => i = j
<1> DEFINE n == Cardinality(T)
           q == SetToSeq(T)
<1>1. n \in Nat /\ ExistsBijection(1..n, T) /\ q \in Seq(T)
  BY FS_CardinalityType, SetToSeqOps
<1>2. q \in [1..n -> T] /\ IsInjective(q)
  <2>1. \E f \in [1..n -> T] : IsInjective(f)
    BY <1>1, Zenon DEF ExistsBijection, Bijection, Injection
  <2> QED BY <2>1, Zenon DEF SetToSeq
<1>3. IsFiniteSet(1..n) /\ Cardinality(1..n) = n
  BY <1>1, FS_Interval
<1>4. q \in Surjection(1..n, T)
  <2>1. q \in Injection(1..n, T)
    BY <1>2, Zenon DEF Injection
  <2> QED BY <1>3, <2>1, FS_Injection
<1> HIDE DEF q, n
<1>5. DOMAIN q = 1..n /\ (\A t \in T : \E i \in 1..n : q[i] = t) /\ \A i \in 1..n : q[i] \in T
  BY <1>2, <1>4 DEF Surjection
<1>6. ToSet(q) = T
  BY <1>5 DEF ToSet
<1>7. \A i, j \in DOMAIN q : q[i] = q[j] => i = j
  BY <1>2, Zenon DEF IsInjective
<1> QED BY <1>6, <1>7 DEF q

\* One for each: two sets are of the same size.
LEMMA SameSize ==
  ASSUME NEW S, IsFiniteSet(S), NEW T, NEW g, g \in [S -> T],
         \A x, y \in S : g[x] = g[y] => x = y, \A y \in T : \E x \in S : g[x] = y
  PROVE  Cardinality(S) = Cardinality(T)
<1>1. g \in Bijection(S, T)
  BY DEF Bijection, Injection, Surjection, IsInjective
<1>2. ExistsBijection(S, T)
  BY <1>1 DEF ExistsBijection
<1> QED BY <1>2, FS_Bijection

\* The prefixes put together up to n.
Joined(s, f, n) == f = [i \in 1..n |-> IF i = 1 THEN s[i] ELSE f[i-1] \o s[i]]

\* They exist, by induction on n in the form of a least counterexample.
LEMMA JoinedExists ==
  ASSUME NEW S, NEW s \in Seq(Seq(S)), NEW n \in 1..Len(s)
  PROVE  \E f : Joined(s, f, n)
<1> DEFINE B == {k \in Nat : k \in 1..Len(s) /\ ~ \E f : Joined(s, f, k)}
<1> SUFFICES ASSUME B # {} PROVE FALSE
  <2>1. n \in Nat
    OBVIOUS
  <2>2. CASE n \notin B
    BY <2>1, <2>2, Zenon
  <2> QED BY <2>2, Zenon
<1> HIDE DEF B
<1>1. B \subseteq Nat /\ Len(s) \in Nat
  BY DEF B
<1>2. PICK m \in B : \A k \in B : m <= k
  BY <1>1, Minimum, Zenon
<1>3. m \in 1..Len(s) /\ ~ \E f : Joined(s, f, m)
  BY <1>2 DEF B
<1>4. CASE m = 1
  <2>1. Joined(s, [i \in 1..1 |-> s[i]], 1)
    BY DEF Joined
  <2> QED BY <2>1, <1>3, <1>4, Zenon
<1>5. CASE m # 1
  <2>1. m - 1 \in 1..Len(s) /\ m - 1 \notin B
    BY <1>1, <1>2, <1>3, <1>5
  <2>2. PICK f : Joined(s, f, m - 1)
    BY <2>1, <1>1 DEF B
  <2> DEFINE g == [i \in 1..m |-> IF i = m THEN f[m-1] \o s[m] ELSE f[i]]
  <2>3. \A i \in 1..m : g[i] = IF i = 1 THEN s[i] ELSE g[i-1] \o s[i]
    <3> SUFFICES ASSUME NEW i \in 1..m PROVE g[i] = IF i = 1 THEN s[i] ELSE g[i-1] \o s[i]
      OBVIOUS
    <3>1. CASE i = m
      <4>1. i - 1 \in 1..m /\ i - 1 # m /\ i # 1
        BY <3>1, <1>5, <1>3, <1>1
      <4>2. g[i-1] = f[i-1] /\ g[i] = f[m-1] \o s[m]
        BY <4>1, <3>1
      <4> QED BY <4>1, <4>2, <3>1
    <3>2. CASE i # m
      <4>1. i \in 1..m-1 /\ g[i] = f[i]
        BY <3>2, <1>3, <1>1
      <4>2. f[i] = IF i = 1 THEN s[i] ELSE f[i-1] \o s[i]
        BY <4>1, <2>2 DEF Joined
      <4>3. i # 1 => i - 1 \in 1..m /\ i - 1 # m
        BY <4>1, <1>3, <1>1
      <4> QED BY <4>1, <4>2, <4>3
    <3> QED BY <3>1, <3>2
  <2>4. Joined(s, g, m)
    BY <2>3 DEF Joined
  <2> QED BY <2>4, <1>3, Zenon
<1> QED BY <1>4, <1>5

\* Putting together sequences over a set gives one over it.
LEMMA FlattenSeqType ==
  ASSUME NEW S, NEW s \in Seq(Seq(S))
  PROVE  FlattenSeq(s) \in Seq(S)
<1>1. CASE Len(s) = 0
  BY <1>1 DEF FlattenSeq
<1>2. CASE Len(s) # 0
  <2> DEFINE n == Len(s)
             f == CHOOSE g : Joined(s, g, n)
  <2>1. n \in Nat /\ n \in 1..n
    BY <1>2
  <2>2. Joined(s, f, n)
    BY <2>1, JoinedExists, Zenon
  <2>3. FlattenSeq(s) = f[n]
    BY <1>2 DEF FlattenSeq, Joined
  <2> HIDE DEF f
  <2> DEFINE B == {k \in Nat : k \in 1..n /\ f[k] \notin Seq(S)}
  <2>4. B = {}
    <3> SUFFICES ASSUME B # {} PROVE FALSE
      OBVIOUS
    <3> HIDE DEF B
    <3>1. B \subseteq Nat
      BY DEF B
    <3>2. PICK m \in B : \A k \in B : m <= k
      BY <3>1, Minimum, Zenon
    <3>3. m \in 1..n /\ f[m] \notin Seq(S) /\ m \in Nat
      BY <3>2 DEF B
    <3>4. f[m] = IF m = 1 THEN s[m] ELSE f[m-1] \o s[m]
      BY <3>3, <2>2 DEF Joined
    <3>5. s[m] \in Seq(S)
      BY <3>3
    <3>6. CASE m = 1
      BY <3>3, <3>4, <3>5, <3>6
    <3>7. CASE m # 1
      <4>1. m - 1 \in 1..n /\ m - 1 \in Nat /\ ~(m <= m - 1)
        BY <3>3, <3>7
      <4>2. m - 1 \notin B
        BY <4>1, <3>2, Zenon
      <4>3. f[m-1] \in Seq(S)
        BY <4>1, <4>2 DEF B
      <4> QED BY <3>3, <3>4, <3>5, <3>7, <4>3
    <3> QED BY <3>6, <3>7
  <2>5. n \notin B
    BY <2>4
  <2> QED BY <2>1, <2>3, <2>5
<1> QED BY <1>1, <1>2
===============================================================================
