--------------------------- MODULE VectorTheorems ---------------------------
(*****************************************************************************)
(* What the operators of Vectors return.  A list of picked elements is       *)
(* known by an increasing map from its indices onto those that were picked   *)
(* (PickedIs), which gives what it is for a longer list, for a list that     *)
(* was itself picked, and for one that an element was inserted in.           *)
(*****************************************************************************)
EXTENDS Vectors, FiniteSetTheorems, SequenceTheorems, TLAPS

\* A set of indices is finite, and no larger than the range it is of.
LEMMA SetOfIndices ==
    ASSUME NEW m \in Nat, NEW K \in SUBSET (1..m)
    PROVE  IsFiniteSet(K) /\ Cardinality(K) \in 0..m
<1>1. IsFiniteSet(1..m) /\ Cardinality(1..m) = m
  BY FS_Interval
<1>2. IsFiniteSet(K) /\ Cardinality(K) <= m
  BY <1>1, FS_Subset
<1>3. Cardinality(K) \in Nat
  BY <1>2, FS_CardinalityType
<1>. QED
  BY <1>2, <1>3

\* How many of K are not above k: more for a larger k.
LEMMA Ranks ==
    ASSUME NEW m \in Nat, NEW K \in SUBSET (1..m), NEW k \in K
    PROVE  /\ Cardinality({j \in K : j <= k}) \in 1..Cardinality(K)
           /\ \A l \in K : k < l =>
                 Cardinality({j \in K : j <= k}) < Cardinality({j \in K : j <= l})
<1>. DEFINE R(l) == {j \in K : j <= l}
<1>1. IsFiniteSet(K) /\ Cardinality(K) \in Nat
  BY SetOfIndices
<1>2. \A l \in K : /\ IsFiniteSet(R(l)) /\ Cardinality(R(l)) \in Nat
                   /\ Cardinality(R(l)) <= Cardinality(K)
  BY <1>1, FS_Subset, FS_CardinalityType
<1>3. Cardinality(R(k)) # 0
  <2>1. k \in R(k)
    OBVIOUS
  <2>. QED
    BY <1>2, <2>1, FS_EmptySet
<1>4. ASSUME NEW l \in K, k < l PROVE Cardinality(R(k)) < Cardinality(R(l))
  <2>1. R(k) \subseteq R(l) /\ R(k) # R(l)
    <3>1. l \in R(l) /\ l \notin R(k)
      BY <1>4
    <3>2. k \in 1..m /\ l \in 1..m /\ \A j \in K : j \in 1..m
      OBVIOUS
    <3>3. \A j \in K : j <= k => j <= l
      BY <1>4, <3>2
    <3>4. R(k) \subseteq R(l)
      BY <3>3
    <3>. QED
      BY <3>1, <3>4
  <2>2. Cardinality(R(k)) <= Cardinality(R(l)) /\ Cardinality(R(k)) # Cardinality(R(l))
    <3>. HIDE DEF R
    <3>. QED
      BY <1>2, <2>1, FS_Subset
  <2>. QED
    BY <1>2, <2>2
<1>. QED
  BY <1>1, <1>2, <1>3, <1>4

\* The i-th least is there for every i up to the size, and every element is one.
LEMMA NthOfSet ==
    ASSUME NEW m \in Nat, NEW K \in SUBSET (1..m)
    PROVE  /\ \A i \in 1..Cardinality(K) :
                 Nth(K, i) \in K /\ Cardinality({j \in K : j <= Nth(K, i)}) = i
           /\ \A i, j \in 1..Cardinality(K) : i < j => Nth(K, i) < Nth(K, j)
           /\ \A k \in K : \E i \in 1..Cardinality(K) : k = Nth(K, i)
<1>. DEFINE r == [k \in K |-> Cardinality({j \in K : j <= k})]
<1>1. IsFiniteSet(K) /\ Cardinality(K) \in Nat
  BY SetOfIndices
<1>2. r \in [K -> 1..Cardinality(K)]
  BY Ranks
<1>3. \A k, l \in K : k < l => r[k] < r[l]
  BY Ranks
<1>4. \A k, l \in K : r[k] = r[l] => k = l
  <2>. HIDE DEF r
  <2>. QED
    BY <1>2, <1>3
<1>5. r \in Surjection(K, 1..Cardinality(K))
  <2>1. r \in Injection(K, 1..Cardinality(K))
    BY <1>2, <1>4 DEF Injection, IsInjective
  <2>2. IsFiniteSet(1..Cardinality(K)) /\ Cardinality(1..Cardinality(K)) = Cardinality(K)
    BY <1>1, FS_Interval
  <2>. QED
    BY <2>1, <2>2, FS_Injection
<1>6. \A i \in 1..Cardinality(K) : \E k \in K : r[k] = i
  BY <1>5 DEF Surjection
<1>7. \A i \in 1..Cardinality(K) : Nth(K, i) \in K /\ r[Nth(K, i)] = i
  BY <1>6 DEF Nth
<1>8. ASSUME NEW i \in 1..Cardinality(K), NEW j \in 1..Cardinality(K), i < j
      PROVE  Nth(K, i) < Nth(K, j)
  <2>1. Nth(K, i) \in K /\ Nth(K, j) \in K /\ r[Nth(K, i)] = i /\ r[Nth(K, j)] = j
    BY <1>7
  <2>2. PICK a \in 1..m, b \in 1..m : a = Nth(K, i) /\ b = Nth(K, j)
    BY <2>1
  <2>3. ~(b < a) /\ a # b
    BY <1>3, <1>8, <2>1, <2>2
  <2>. QED
    BY <2>2, <2>3
<1>9. ASSUME NEW k \in K PROVE \E i \in 1..Cardinality(K) : k = Nth(K, i)
  <2>1. r[k] \in 1..Cardinality(K)
    BY <1>2
  <2>2. Nth(K, r[k]) = k
    BY <1>4, <1>7, <2>1
  <2>. QED
    BY <2>1, <2>2
<1>. QED
  BY <1>7, <1>8, <1>9

\* An increasing map onto K is Nth.
LEMMA NthIs ==
    ASSUME NEW m \in Nat, NEW K \in SUBSET (1..m), NEW n \in Nat, NEW g \in [1..n -> K],
           \A i, j \in 1..n : i < j => g[i] < g[j],
           \A k \in K : \E i \in 1..n : k = g[i]
    PROVE  n = Cardinality(K) /\ \A i \in 1..n : g[i] = Nth(K, i)
<1>1. \A i, j \in 1..n : g[i] = g[j] => i = j
  <2>1. SUFFICES ASSUME NEW i \in 1..n, NEW j \in 1..n, i # j PROVE g[i] # g[j]
    OBVIOUS
  <2>2. g[i] \in 1..m /\ g[j] \in 1..m
    OBVIOUS
  <2>3. i < j \/ j < i
    BY <2>1
  <2>. QED
    BY <2>2, <2>3
<1>2. \A i, j \in 1..n : g[j] <= g[i] <=> j <= i
  <2>1. SUFFICES ASSUME NEW i \in 1..n, NEW j \in 1..n PROVE g[j] <= g[i] <=> j <= i
    OBVIOUS
  <2>2. g[i] \in 1..m /\ g[j] \in 1..m
    OBVIOUS
  <2>. QED
    BY <1>1, <2>2
<1>3. ASSUME NEW i \in 1..n PROVE Cardinality({k \in K : k <= g[i]}) = i
  <2>. DEFINE h == [j \in 1..i |-> g[j]]
              R == {k \in K : k <= g[i]}
  <2>1. h \in [1..i -> R]
    BY <1>2
  <2>2. h \in Bijection(1..i, R)
    <3>1. \A a, b \in 1..i : h[a] = h[b] => a = b
      BY <1>1
    <3>2. \A k \in R : \E a \in 1..i : h[a] = k
      <4>1. SUFFICES ASSUME NEW k \in R PROVE \E a \in 1..i : h[a] = k
        OBVIOUS
      <4>2. PICK a \in 1..n : k = g[a]
        OBVIOUS
      <4>3. a \in 1..i
        BY <1>2, <4>2
      <4>. QED
        BY <4>2, <4>3
    <3>. HIDE DEF h, R
    <3>. QED
      BY <2>1, <3>1, <3>2 DEF Bijection, Injection, Surjection, IsInjective
  <2>3. IsFiniteSet(1..i) /\ Cardinality(1..i) = i
    BY FS_Interval
  <2>. HIDE DEF h, R
  <2>4. Cardinality(R) = i
    BY <2>2, <2>3, FS_Bijection DEF ExistsBijection
  <2>. QED
    BY <2>4 DEF R
<1>4. n = Cardinality(K)
  <2>1. g \in Bijection(1..n, K)
    BY <1>1 DEF Bijection, Injection, Surjection, IsInjective
  <2>2. IsFiniteSet(1..n) /\ Cardinality(1..n) = n
    BY FS_Interval
  <2>. QED
    BY <2>1, <2>2, FS_Bijection DEF ExistsBijection
<1>5. ASSUME NEW i \in 1..n PROVE g[i] = Nth(K, i)
  <2>1. Nth(K, i) \in K /\ Cardinality({j \in K : j <= Nth(K, i)}) = i
    BY <1>4, <1>5, NthOfSet
  <2>2. PICK a \in 1..n : Nth(K, i) = g[a]
    BY <2>1
  <2>3. a = i
    BY <1>3, <2>1, <2>2
  <2>. QED
    BY <2>2, <2>3
<1>. QED
  BY <1>4, <1>5

\* A list of picked elements has as many as were picked, in the order of their indices.
LEMMA PickedOf ==
    ASSUME NEW S, NEW s \in Seq(S), NEW K \in SUBSET (1..Len(s))
    PROVE  /\ Picked(s, K) \in Seq(S)
           /\ Len(Picked(s, K)) = Cardinality(K)
           /\ Cardinality(K) \in 0..Len(s)
           /\ \A i \in 1..Cardinality(K) : Nth(K, i) \in K /\ Picked(s, K)[i] = s[Nth(K, i)]
           /\ \A i, j \in 1..Cardinality(K) : i < j => Nth(K, i) < Nth(K, j)
           /\ \A k \in K : \E i \in 1..Cardinality(K) : k = Nth(K, i)
<1>1. Len(s) \in Nat /\ \A k \in 1..Len(s) : s[k] \in S
  OBVIOUS
<1>2. Cardinality(K) \in 0..Len(s)
  BY <1>1, SetOfIndices
<1>3. /\ \A i \in 1..Cardinality(K) : Nth(K, i) \in K
      /\ \A i, j \in 1..Cardinality(K) : i < j => Nth(K, i) < Nth(K, j)
      /\ \A k \in K : \E i \in 1..Cardinality(K) : k = Nth(K, i)
  BY <1>1, NthOfSet
<1>4. \A i \in 1..Cardinality(K) : s[Nth(K, i)] \in S
  <2>1. \A k \in K : s[k] \in S
    BY <1>1
  <2>. QED
    BY <1>3, <2>1
<1>5. Picked(s, K) \in [1..Cardinality(K) -> S]
  BY <1>4 DEF Picked
<1>6. Picked(s, K) \in Seq(S) /\ Len(Picked(s, K)) = Cardinality(K)
  BY <1>2, <1>5
<1>. QED
  BY <1>2, <1>3, <1>6 DEF Picked

\* The list t takes the elements of s at the indices K, one after another, by g.
Takes(t, s, K, g) ==
    /\ g \in [1..Len(t) -> K]
    /\ \A i, j \in 1..Len(t) : i < j => g[i] < g[j]
    /\ \A k \in K : \E i \in 1..Len(t) : k = g[i]
    /\ \A i \in 1..Len(t) : t[i] = s[g[i]]

\* Then it is the list of those elements.
LEMMA PickedIs ==
    ASSUME NEW S, NEW s \in Seq(S), NEW K \in SUBSET (1..Len(s)), NEW t \in Seq(S), NEW g,
           Takes(t, s, K, g)
    PROVE  t = Picked(s, K)
<1>1. PICK n \in Nat : n = Len(t)
  OBVIOUS
<1>4. \A i \in 1..n : t[i] = s[g[i]]
  BY <1>1 DEF Takes
<1>2. n = Cardinality(K) /\ \A i \in 1..n : g[i] = Nth(K, i)
  <2>1. PICK m \in Nat : m = Len(s)
    OBVIOUS
  <2>2. /\ K \in SUBSET (1..m) /\ g \in [1..n -> K]
        /\ \A i, j \in 1..n : i < j => g[i] < g[j]
        /\ \A k \in K : \E i \in 1..n : k = g[i]
    BY <1>1, <2>1 DEF Takes
  <2>. QED
    BY <2>2, NthIs
<1>3. t = [i \in 1..n |-> t[i]]
  BY <1>1
<1>. QED
  BY <1>1, <1>2, <1>3, <1>4 DEF Picked

\* The elements of the list are those that were picked.
LEMMA PickedRange ==
    ASSUME NEW S, NEW s \in Seq(S), NEW K \in SUBSET (1..Len(s))
    PROVE  {Picked(s, K)[i] : i \in 1..Len(Picked(s, K))} = {s[k] : k \in K}
<1>0. Cardinality(K) \in 0..Len(s)
  BY PickedOf
<1>1. PICK c \in Nat : c = Cardinality(K)
  BY <1>0
<1>2. /\ Len(Picked(s, K)) = c
      /\ \A i \in 1..c : Nth(K, i) \in K /\ Picked(s, K)[i] = s[Nth(K, i)]
      /\ \A k \in K : \E i \in 1..c : k = Nth(K, i)
  BY <1>1, PickedOf
<1>3. \A i \in 1..c : \E k \in K : Picked(s, K)[i] = s[k]
  BY <1>2
<1>4. \A k \in K : \E i \in 1..c : Picked(s, K)[i] = s[k]
  BY <1>2
<1>5. {Picked(s, K)[i] : i \in 1..c} = {s[k] : k \in K}
  <2>1. SUFFICES ASSUME NEW e
                 PROVE  e \in {Picked(s, K)[i] : i \in 1..c} <=> e \in {s[k] : k \in K}
    BY Zenon
  <2>2. e \in {Picked(s, K)[i] : i \in 1..c} <=> \E i \in 1..c : e = Picked(s, K)[i]
    BY Zenon
  <2>3. e \in {s[k] : k \in K} <=> \E k \in K : e = s[k]
    BY Zenon
  <2>. QED
    BY <1>3, <1>4, <2>2, <2>3, Zenon
<1>. QED
  BY <1>2, <1>5

\* All elements are picked.
LEMMA PickedAll ==
    ASSUME NEW S, NEW s \in Seq(S)
    PROVE  Picked(s, 1..Len(s)) = s
<1>. DEFINE g == [i \in 1..Len(s) |-> i]
<1>1. g \in [1..Len(s) -> 1..Len(s)]
  OBVIOUS
<1>2. \A i \in 1..Len(s) : g[i] = i
  OBVIOUS
<1>. HIDE DEF g
<1>3. Takes(s, s, 1..Len(s), g)
  BY <1>1, <1>2 DEF Takes
<1>. QED
  BY <1>3, PickedIs

\* Nothing is picked.
LEMMA PickedNone == ASSUME NEW s PROVE Picked(s, {}) = <<>>
<1>1. Cardinality({}) = 0
  BY FS_EmptySet
<1>. QED
  BY <1>1 DEF Picked

\* What is picked of a list with one element more.
LEMMA PickedAppend ==
    ASSUME NEW S, NEW s \in Seq(S), NEW e \in S, NEW K \in SUBSET (1..Len(s))
    PROVE  /\ Picked(Append(s, e), K) = Picked(s, K)
           /\ Picked(Append(s, e), K \union {Len(s) + 1}) = Append(Picked(s, K), e)
<1>1. PICK n \in Nat : n = Len(s)
  OBVIOUS
<1>2. /\ Append(s, e) \in Seq(S) /\ Len(Append(s, e)) = n + 1
      /\ \A i \in 1..n : Append(s, e)[i] = s[i]
      /\ Append(s, e)[n + 1] = e
  BY <1>1
<1>3. Picked(Append(s, e), K) = Picked(s, K)
  <2>1. \A i \in 1..Cardinality(K) : Append(s, e)[Nth(K, i)] = s[Nth(K, i)]
    BY <1>1, <1>2, PickedOf
  <2>. QED
    BY <2>1 DEF Picked
<1>4. Picked(Append(s, e), K \union {n + 1}) = Append(Picked(s, K), e)
  <2>0. Cardinality(K) \in 0..Len(s)
    BY PickedOf
  <2>1. PICK c \in Nat : c = Cardinality(K) /\ c <= n
    BY <1>1, <2>0
  <2>2. /\ Picked(s, K) \in Seq(S) /\ Len(Picked(s, K)) = c
        /\ \A i \in 1..c : Nth(K, i) \in K /\ Picked(s, K)[i] = s[Nth(K, i)]
        /\ \A i, j \in 1..c : i < j => Nth(K, i) < Nth(K, j)
        /\ \A k \in K : \E i \in 1..c : k = Nth(K, i)
    BY <2>1, PickedOf
  <2>. DEFINE t == Append(Picked(s, K), e)
              g == [i \in 1..(c + 1) |-> IF i = c + 1 THEN n + 1 ELSE Nth(K, i)]
  <2>3. /\ t \in Seq(S) /\ Len(t) = c + 1
        /\ \A i \in 1..c : t[i] = Picked(s, K)[i]
        /\ t[c + 1] = e
    BY <2>2
  <2>4. g \in [1..(c + 1) -> K \union {n + 1}]
    BY <2>2
  <2>5. (\A i \in 1..c : g[i] = Nth(K, i)) /\ g[c + 1] = n + 1
    OBVIOUS
  <2>. HIDE DEF t, g
  <2>6. \A i, j \in 1..(c + 1) : i < j => g[i] < g[j]
    <3>1. SUFFICES ASSUME NEW i \in 1..(c + 1), NEW j \in 1..(c + 1), i < j PROVE g[i] < g[j]
      OBVIOUS
    <3>0. \A k \in K : k \in 1..n
      BY <1>1
    <3>2. i \in 1..c /\ g[i] = Nth(K, i) /\ Nth(K, i) \in 1..n
      <4>1. i \in 1..c
        BY <2>1, <3>1
      <4>. QED
        BY <2>2, <2>5, <3>0, <4>1
    <3>3. CASE j = c + 1
      BY <2>5, <3>2, <3>3
    <3>4. CASE j # c + 1
      BY <2>2, <2>5, <3>1, <3>2, <3>4
    <3>. QED
      BY <3>3, <3>4
  <2>7. \A k \in K \union {n + 1} : \E i \in 1..(c + 1) : k = g[i]
    <3>1. c + 1 \in 1..(c + 1) /\ 1..c \subseteq 1..(c + 1)
      BY <2>1
    <3>. QED
      BY <2>2, <2>5, <3>1
  <2>8. \A i \in 1..(c + 1) : t[i] = Append(s, e)[g[i]]
    <3>1. SUFFICES ASSUME NEW i \in 1..(c + 1) PROVE t[i] = Append(s, e)[g[i]]
      OBVIOUS
    <3>2. CASE i = c + 1
      BY <1>2, <2>3, <2>5, <3>2
    <3>3. CASE i # c + 1
      <4>1. i \in 1..c
        BY <2>1, <3>3
      <4>2. Nth(K, i) \in 1..n
        BY <1>1, <2>2, <4>1
      <4>3. t[i] = s[Nth(K, i)] /\ g[i] = Nth(K, i)
        BY <2>2, <2>3, <2>5, <4>1
      <4>. QED
        BY <1>2, <4>2, <4>3
    <3>. QED
      BY <3>2, <3>3
  <2>9. K \union {n + 1} \in SUBSET (1..Len(Append(s, e)))
    <3>1. K \in SUBSET (1..n)
      BY <1>1
    <3>2. 1..n \subseteq 1..(n + 1) /\ n + 1 \in 1..(n + 1)
      OBVIOUS
    <3>3. K \union {n + 1} \in SUBSET (1..(n + 1))
      BY <3>1, <3>2
    <3>. QED
      BY <1>2, <3>3
  <2>10. t = Picked(Append(s, e), K \union {n + 1})
    <3>1. Takes(t, Append(s, e), K \union {n + 1}, g)
      BY <2>3, <2>4, <2>6, <2>7, <2>8 DEF Takes
    <3>. QED
      BY <1>2, <2>3, <2>9, <3>1, PickedIs
  <2>. QED
    BY <2>10 DEF t
<1>. QED
  BY <1>1, <1>3, <1>4

\* The list t is s with e after it, and K are indices of s.
OneMore(t, s, e, K) == t = Append(s, e) /\ K \in SUBSET (1..Len(s))

\* What is picked of t may have e after it.
PickedMore(t, s, e, K) ==
    /\ Picked(t, K) = Picked(s, K)
    /\ Picked(t, K \union {Len(s) + 1}) = Append(Picked(s, K), e)

\* The same of a list that has a name, for provers to find.
LEMMA PickedOneMore ==
    ASSUME NEW S, NEW s \in Seq(S), NEW e \in S, NEW t, NEW K, OneMore(t, s, e, K)
    PROVE  PickedMore(t, s, e, K)
<1>1. t = Append(s, e) /\ K \in SUBSET (1..Len(s))
  BY DEF OneMore
<1>. QED
  BY <1>1, PickedAppend DEF PickedMore

\* Elements picked of a list of picked elements, as of the first list.
LEMMA PickedOfPicked ==
    ASSUME NEW S, NEW s \in Seq(S), NEW K \in SUBSET (1..Len(s)), NEW L \in SUBSET K
    PROVE  Picked(Picked(s, K), {i \in 1..Cardinality(K) : Nth(K, i) \in L}) = Picked(s, L)
<1>. DEFINE p == Picked(s, K)
            I == {i \in 1..Cardinality(K) : Nth(K, i) \in L}
            t == Picked(p, I)
            g == [i \in 1..Cardinality(I) |-> Nth(K, Nth(I, i))]
<1>0. Cardinality(K) \in 0..Len(s)
  BY PickedOf
<1>1. PICK c \in Nat : c = Cardinality(K)
  BY <1>0
<1>2. /\ p \in Seq(S) /\ Len(p) = c
      /\ \A i \in 1..c : Nth(K, i) \in K /\ p[i] = s[Nth(K, i)]
      /\ \A i, j \in 1..c : i < j => Nth(K, i) < Nth(K, j)
      /\ \A k \in K : \E i \in 1..c : k = Nth(K, i)
  BY <1>1, PickedOf
<1>3. I \in SUBSET (1..c) /\ \A i \in 1..c : i \in I <=> Nth(K, i) \in L
  BY <1>1
<1>. HIDE DEF p, I
<1>4. PICK d \in Nat : d = Cardinality(I)
  BY <1>2, <1>3, PickedOf
<1>5. /\ t \in Seq(S) /\ Len(t) = d
      /\ \A i \in 1..d : Nth(I, i) \in I /\ t[i] = p[Nth(I, i)]
      /\ \A i, j \in 1..d : i < j => Nth(I, i) < Nth(I, j)
      /\ \A k \in I : \E i \in 1..d : k = Nth(I, i)
  BY <1>2, <1>3, <1>4, PickedOf
<1>6. g \in [1..d -> L] /\ \A i \in 1..d : g[i] = Nth(K, Nth(I, i))
  BY <1>3, <1>4, <1>5
<1>. HIDE DEF g, t
<1>7. \A i, j \in 1..d : i < j => g[i] < g[j]
  <2>1. SUFFICES ASSUME NEW i \in 1..d, NEW j \in 1..d, i < j PROVE g[i] < g[j]
    OBVIOUS
  <2>2. Nth(I, i) \in 1..c /\ Nth(I, j) \in 1..c /\ Nth(I, i) < Nth(I, j)
    BY <1>3, <1>5, <2>1
  <2>. QED
    BY <1>2, <1>6, <2>2
<1>8. \A k \in L : \E i \in 1..d : k = g[i]
  <2>1. SUFFICES ASSUME NEW k \in L PROVE \E i \in 1..d : k = g[i]
    OBVIOUS
  <2>2. PICK a \in 1..c : k = Nth(K, a)
    BY <1>2
  <2>3. a \in I
    BY <1>3, <2>2
  <2>4. PICK i \in 1..d : a = Nth(I, i)
    BY <1>5, <2>3
  <2>. QED
    BY <1>6, <2>2, <2>4
<1>9. \A i \in 1..d : t[i] = s[g[i]]
  <2>1. SUFFICES ASSUME NEW i \in 1..d PROVE t[i] = s[g[i]]
    OBVIOUS
  <2>2. Nth(I, i) \in 1..c
    BY <1>3, <1>5
  <2>3. g[i] = Nth(K, Nth(I, i))
    BY <1>6
  <2>. QED
    BY <1>2, <1>5, <2>2, <2>3
<1>10. t = Picked(s, L)
  <2>1. L \in SUBSET (1..Len(s))
    OBVIOUS
  <2>. QED
    <3>1. Takes(t, s, L, g)
      BY <1>5, <1>6, <1>7, <1>8, <1>9 DEF Takes
    <3>. QED
      BY <1>5, <2>1, <3>1, PickedIs
<1>. QED
  BY <1>10 DEF t, p, I

\* A set of numbers that is not empty has a least element.
LEMMA LeastNumber ==
    ASSUME NEW n \in Nat, NEW T \in SUBSET (1..n), T # {}
    PROVE  \E k \in T : \A j \in T : k <= j
<1>1. PICK i \in 1..Cardinality(T) : i = 1
  <2>1. IsFiniteSet(T) /\ Cardinality(T) \in Nat
    BY SetOfIndices
  <2>2. Cardinality(T) # 0
    BY <2>1, FS_EmptySet
  <2>. QED
    BY <2>1, <2>2
<1>2. /\ Nth(T, 1) \in T
      /\ \A a, b \in 1..Cardinality(T) : a < b => Nth(T, a) < Nth(T, b)
      /\ \A k \in T : \E a \in 1..Cardinality(T) : k = Nth(T, a)
  BY <1>1, NthOfSet
<1>3. ASSUME NEW j \in T PROVE Nth(T, 1) <= j
  <2>1. PICK a \in 1..Cardinality(T) : j = Nth(T, a)
    BY <1>2
  <2>2. a = 1 \/ 1 < a
    OBVIOUS
  <2>3. Nth(T, 1) \in 1..n /\ j \in 1..n
    BY <1>2
  <2>. QED
    BY <1>1, <1>2, <2>1, <2>2, <2>3
<1>. QED
  BY <1>2, <1>3

\* An element inserted behind the first k of a list.
InsertedAfter(s, k, e) == SubSeq(s, 1, k) \o <<e>> \o SubSeq(s, k + 1, Len(s))

\* What is where in a list with an element inserted.
LEMMA Inserted ==
    ASSUME NEW S, NEW s \in Seq(S), NEW e \in S, NEW k \in 0..Len(s), NEW t,
           t = InsertedAfter(s, k, e)
    PROVE  /\ t \in Seq(S) /\ Len(t) = Len(s) + 1
           /\ \A i \in 1..k : t[i] = s[i]
           /\ t[k + 1] = e
           /\ \A i \in (k + 1)..Len(s) : t[i + 1] = s[i]
<1>1. PICK n \in Nat : n = Len(s)
  OBVIOUS
<1>2. k \in Nat /\ k <= n
  BY <1>1
<1>. DEFINE a == SubSeq(s, 1, k)
            b == SubSeq(s, k + 1, n)
<1>3. a \in Seq(S) /\ Len(a) = k /\ \A i \in 1..k : a[i] = s[i]
  <2>1. \A i \in 1..k : s[i] \in S
    BY <1>1, <1>2
  <2>2. a = [i \in 1..k |-> s[i]]
    BY <1>1, <1>2
  <2>. QED
    BY <1>2, <2>1, <2>2
<1>4. b \in Seq(S) /\ Len(b) = n - k /\ \A i \in 1..(n - k) : b[i] = s[k + i]
  <2>1. \A i \in (k + 1)..n : s[i] \in S
    BY <1>1, <1>2
  <2>2. b = [i \in 1..(n - k) |-> s[k + i]]
    BY <1>1, <1>2, SubSeqProperties
  <2>. QED
    BY <1>2, <2>1, <2>2
<1>5. <<e>> \in Seq(S) /\ Len(<<e>>) = 1 /\ <<e>>[1] = e
  OBVIOUS
<1>. HIDE DEF a, b
<1>. DEFINE c == a \o <<e>>
<1>6. /\ c \in Seq(S) /\ Len(c) = k + 1
      /\ \A i \in 1..k : c[i] = a[i]
      /\ c[k + 1] = e
  BY <1>2, <1>3, <1>5
<1>. HIDE DEF c
<1>7. /\ c \o b \in Seq(S) /\ Len(c \o b) = n + 1
      /\ \A i \in 1..(k + 1) : (c \o b)[i] = c[i]
      /\ \A i \in 1..(n - k) : (c \o b)[k + 1 + i] = b[i]
  <2>1. c \o b \in Seq(S) /\ Len(c \o b) = n + 1
    <3>1. c \o b \in Seq(S) /\ Len(c \o b) = Len(c) + Len(b)
      BY <1>4, <1>6, ConcatProperties
    <3>2. Len(c) + Len(b) = n + 1
      BY <1>2, <1>4, <1>6
    <3>. QED
      BY <3>1, <3>2
  <2>2. \A i \in 1..(k + 1) : (c \o b)[i] = c[i]
    BY <1>2, <1>4, <1>6, ConcatProperties
  <2>3. ASSUME NEW i \in 1..(n - k) PROVE (c \o b)[k + 1 + i] = b[i]
    <3>1. k + 1 + i \in 1..(n + 1) /\ k + 1 + i > k + 1 /\ k + 1 + i - (k + 1) = i
      BY <1>2
    <3>2. (c \o b)[k + 1 + i] = b[k + 1 + i - (k + 1)]
      BY <1>2, <1>4, <1>6, <3>1, ConcatProperties
    <3>. QED
      BY <3>1, <3>2
  <2>. QED
    BY <2>1, <2>2, <2>3
<1>8. t = c \o b
  BY <1>1 DEF a, b, c, InsertedAfter
<1>9. \A i \in (k + 1)..n : i - k \in 1..(n - k) /\ k + 1 + (i - k) = i + 1 /\ k + (i - k) = i
  BY <1>2
<1>10. \A i \in (k + 1)..n : t[i + 1] = s[i]
  <2>1. SUFFICES ASSUME NEW i \in (k + 1)..n PROVE t[i + 1] = s[i]
    OBVIOUS
  <2>2. PICK j \in 1..(n - k) : k + 1 + j = i + 1 /\ k + j = i
    BY <1>9
  <2>3. (c \o b)[k + 1 + j] = b[j] /\ b[j] = s[k + j]
    BY <1>4, <1>7
  <2>. QED
    BY <1>8, <2>2, <2>3
<1>11. \A i \in 1..k : t[i] = s[i]
  <2>1. \A i \in 1..k : i \in 1..(k + 1)
    BY <1>2
  <2>. QED
    BY <1>3, <1>6, <1>7, <1>8, <2>1
<1>12. t[k + 1] = e
  <2>1. k + 1 \in 1..(k + 1)
    BY <1>2
  <2>. QED
    BY <1>6, <1>7, <1>8, <2>1
<1>. QED
  BY <1>1, <1>7, <1>8, <1>10, <1>11, <1>12
=============================================================================
