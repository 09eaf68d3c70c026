---------------------------- MODULE PromiseProofs ---------------------------
(***************************************************************************)
(* Proofs about Promise for every set of workers and every number of       *)
(* records, promises, continuations and nested calls of Dispatch: Inv is   *)
(* inductive, and with it every count is the number of those who use the   *)
(* promise, no request for a dispatch is lost, and each continuation is    *)
(* called in order with its promise alive.                                 *)
(*                                                                         *)
(* The count of a handle is the sum of five sets of users: the references  *)
(* of the threads, the references a thread has still to give back, the     *)
(* closures that own it, its place in the queue, the rounds of Dispatch    *)
(* that have it. Each step moves one or a few elements between them.       *)
(***************************************************************************)
EXTENDS Promise, VectorTheorems

-----------------------------------------------------------------------------
(* Counting                                                                  *)

\* What two disjoint sets hold together.
LEMMA DisjointUnion ==
    ASSUME NEW A, NEW B, IsFiniteSet(A), IsFiniteSet(B), A \intersect B = {}
    PROVE  /\ IsFiniteSet(A \union B) /\ Cardinality(A) \in Nat /\ Cardinality(B) \in Nat
           /\ Cardinality(A \union B) = Cardinality(A) + Cardinality(B)
<1>1. Cardinality(A) \in Nat /\ Cardinality(B) \in Nat
  BY FS_CardinalityType
<1>2. Cardinality(A \intersect B) = 0
  BY FS_EmptySet
<1>3. /\ IsFiniteSet(A \union B)
      /\ Cardinality(A \union B) = Cardinality(A) + Cardinality(B) - Cardinality(A \intersect B)
  BY FS_Union
<1>. QED
  BY <1>1, <1>2, <1>3

\* The pairs of one thread.
PairsOf(t, K) == {<<t, i>> : i \in K}

\* They are as many as its numbers.
LEMMA PairsOfFinite ==
    ASSUME NEW t, NEW K, IsFiniteSet(K)
    PROVE  IsFiniteSet(PairsOf(t, K)) /\ Cardinality(PairsOf(t, K)) = Cardinality(K)
<1>. DEFINE b == [i \in K |-> <<t, i>>]
<1>1. b \in Bijection(K, PairsOf(t, K))
  BY DEF PairsOf, Bijection, Injection, Surjection, IsInjective
<1>2. ExistsBijection(K, PairsOf(t, K))
  BY <1>1 DEF ExistsBijection
<1>. QED
  BY <1>2, FS_Bijection

\* One thread has other pairs than before.
Repairs(F, G, t, K) ==
    /\ t \in Threads /\ G = [F EXCEPT ![t] = K] /\ DOMAIN F = Threads
    /\ IsFiniteSet(Pairs(F)) /\ IsFiniteSet(F[t]) /\ IsFiniteSet(K)

\* There are as many more as it has more.
LEMMA PairsChange ==
    ASSUME NEW F, NEW G, NEW t, NEW K, Repairs(F, G, t, K)
    PROVE  /\ IsFiniteSet(Pairs(G))
           /\ Cardinality(Pairs(F)) \in Nat /\ Cardinality(Pairs(G)) \in Nat
           /\ Cardinality(F[t]) \in Nat /\ Cardinality(K) \in Nat
           /\ Cardinality(Pairs(G)) + Cardinality(F[t]) = Cardinality(Pairs(F)) + Cardinality(K)
<1>. USE DEF Repairs
<1>1. PICK R : R = UNION {{<<u, i>> : i \in F[u]} : u \in Threads \ {t}}
  OBVIOUS
<1>2. Pairs(F) = R \union PairsOf(t, F[t]) /\ R \intersect PairsOf(t, F[t]) = {}
  BY <1>1 DEF Pairs, PairsOf
<1>3. \A u \in Threads \ {t} : G[u] = F[u]
  OBVIOUS
<1>4. G[t] = K
  OBVIOUS
<1>5. Pairs(G) = R \union PairsOf(t, K) /\ R \intersect PairsOf(t, K) = {}
  BY <1>1, <1>3, <1>4 DEF Pairs, PairsOf
<1>6. IsFiniteSet(R)
  BY <1>2, FS_Subset
<1>7. /\ IsFiniteSet(PairsOf(t, F[t])) /\ Cardinality(PairsOf(t, F[t])) = Cardinality(F[t])
      /\ IsFiniteSet(PairsOf(t, K)) /\ Cardinality(PairsOf(t, K)) = Cardinality(K)
  BY PairsOfFinite
<1>8. /\ Cardinality(R) \in Nat /\ Cardinality(F[t]) \in Nat /\ Cardinality(K) \in Nat
      /\ Cardinality(Pairs(F)) \in Nat
  BY <1>6, FS_CardinalityType
<1>9. Cardinality(Pairs(F)) = Cardinality(R) + Cardinality(F[t])
  BY <1>2, <1>6, <1>7, DisjointUnion
<1>10. IsFiniteSet(Pairs(G)) /\ Cardinality(Pairs(G)) = Cardinality(R) + Cardinality(K)
  BY <1>5, <1>6, <1>7, DisjointUnion, ZenonT(30)
<1>11. Cardinality(Pairs(G)) \in Nat
  BY <1>8, <1>10
<1>. HIDE DEF Repairs
<1>. QED
  BY <1>8, <1>9, <1>10, <1>11

\* How often x occurs in a sequence.
Places(q, x) == {i \in DOMAIN q : q[i] = x}
Count(q, x) == Cardinality(Places(q, x))

\* It is a number.
LEMMA CountType ==
    ASSUME NEW S, NEW q \in Seq(S), NEW x
    PROVE  IsFiniteSet(Places(q, x)) /\ Count(q, x) \in Nat
<1>1. Len(q) \in Nat /\ Places(q, x) \in SUBSET (1..Len(q))
  BY DEF Places
<1>. QED
  BY <1>1, SetOfIndices DEF Count

\* Nothing occurs in the empty sequence.
LEMMA CountNothing == \A x : Count(<<>>, x) = 0
  BY FS_EmptySet DEF Count, Places

\* What occurs in two sequences together.
LEMMA CountConcat ==
    ASSUME NEW S, NEW p \in Seq(S), NEW q \in Seq(S), NEW x
    PROVE  p \o q \in Seq(S) /\ Count(p \o q, x) = Count(p, x) + Count(q, x)
<1>1. PICK m \in Nat : m = Len(p) /\ DOMAIN p = 1..m
  OBVIOUS
<1>2. PICK n \in Nat : n = Len(q) /\ DOMAIN q = 1..n
  OBVIOUS
<1>3. PICK s : s = p \o q
  OBVIOUS
<1>4. /\ DOMAIN s = 1..(m + n)
      /\ (\A i \in 1..m : s[i] = p[i]) /\ \A i \in 1..n : s[m + i] = q[i]
  BY <1>1, <1>2, <1>3
<1>5. PICK moved : moved = {m + i : i \in Places(q, x)}
  OBVIOUS
<1>6. Places(s, x) = Places(p, x) \union moved
  <2>1. ASSUME NEW i \in 1..(m + n), s[i] = x PROVE i \in Places(p, x) \union moved
    <3>1. CASE i \in 1..m
      BY <1>1, <1>4, <2>1, <3>1 DEF Places
    <3>2. CASE i \notin 1..m
      <4>1. i - m \in 1..n /\ m + (i - m) = i
        BY <3>2
      <4>2. i - m \in Places(q, x)
        BY <1>2, <1>4, <2>1, <4>1 DEF Places
      <4>. QED
        BY <1>5, <4>1, <4>2
    <3>. QED
      BY <3>1, <3>2
  <2>2. Places(p, x) \subseteq Places(s, x)
    BY <1>1, <1>4 DEF Places
  <2>3. ASSUME NEW i \in Places(q, x) PROVE m + i \in Places(s, x)
    <3>1. i \in 1..n /\ q[i] = x
      BY <1>2 DEF Places
    <3>2. m + i \in 1..(m + n) /\ s[m + i] = x
      BY <1>4, <3>1
    <3>. QED
      BY <1>4, <3>2 DEF Places
  <2>. QED
    BY <1>4, <1>5, <2>1, <2>2, <2>3 DEF Places
<1>7. Places(p, x) \intersect moved = {}
  BY <1>1, <1>2, <1>5 DEF Places
<1>8. IsFiniteSet(moved) /\ Cardinality(moved) = Count(q, x)
  <2>. DEFINE b == [i \in Places(q, x) |-> m + i]
  <2>1. b \in Bijection(Places(q, x), moved)
    <3>1. \A i \in Places(q, x) : i \in Nat
      BY <1>2 DEF Places
    <3>. QED
      BY <1>5, <3>1 DEF Bijection, Injection, Surjection, IsInjective
  <2>2. ExistsBijection(Places(q, x), moved)
    BY <2>1 DEF ExistsBijection
  <2>. QED
    BY <2>2, CountType, FS_Bijection DEF Count
<1>9. IsFiniteSet(Places(p, x)) /\ Count(p, x) \in Nat /\ Count(q, x) \in Nat
  BY CountType
<1>10. Count(s, x) = Count(p, x) + Count(q, x)
  <2>1. Cardinality(Places(s, x)) = Cardinality(Places(p, x)) + Cardinality(moved)
    BY <1>6, <1>7, <1>8, <1>9, DisjointUnion
  <2>. QED
    BY <1>8, <2>1 DEF Count
<1>11. p \o q \in Seq(S)
  OBVIOUS
<1>. QED
  BY <1>3, <1>10, <1>11

\* What occurs in a sequence of one.
LEMMA CountOne == \A x, y : Count(<<y>>, x) = IF x = y THEN 1 ELSE 0
<1>. SUFFICES ASSUME NEW x, NEW y PROVE Count(<<y>>, x) = IF x = y THEN 1 ELSE 0
  OBVIOUS
<1>1. Places(<<y>>, x) = IF x = y THEN {1} ELSE {}
  BY DEF Places
<1>. QED
  BY <1>1, FS_EmptySet, FS_Singleton DEF Count

\* The first occurs once more than in the rest.
LEMMA CountHead ==
    ASSUME NEW S, NEW q \in Seq(S), q # <<>>, NEW x
    PROVE  /\ Head(q) \in S /\ Tail(q) \in Seq(S)
           /\ Count(q, x) = Count(Tail(q), x) + IF x = Head(q) THEN 1 ELSE 0
<1>1. Head(q) \in S /\ Tail(q) \in Seq(S) /\ q = <<Head(q)>> \o Tail(q)
  OBVIOUS
<1>2. <<Head(q)>> \in Seq(S)
  BY <1>1
<1>3. Count(q, x) = Count(<<Head(q)>>, x) + Count(Tail(q), x)
  <2>1. PICK a, b : a = <<Head(q)>> /\ b = Tail(q)
    OBVIOUS
  <2>2. a \in Seq(S) /\ b \in Seq(S) /\ q = a \o b
    BY <1>1, <1>2, <2>1
  <2>3. Count(a \o b, x) = Count(a, x) + Count(b, x)
    BY <2>2, CountConcat
  <2>. QED
    BY <2>1, <2>2, <2>3
<1>4. Count(Tail(q), x) \in Nat
  BY <1>1, CountType
<1>. QED
  BY <1>1, <1>3, <1>4, CountOne
-----------------------------------------------------------------------------
(* The inductive invariant.                                                  *)

\* The free list holds dead records, each once; a dead record is blank but for
\* its generation, and a live one has had one.
FreeSound ==
    /\ IsInjective(free)
    /\ \A s \in Range(free) : s <= size /\ records[s].references = 0
    /\ \A s \in Slots : ~Live(s) => records[s].first = <<>> /\ ~records[s].ready
    /\ \A s \in Slots : Live(s) => records[s].generation # 0

\* A continuation waits exactly if it is in the list of the promise it was
\* registered with, and those lists are in the order of registration.
Lists(c) == {s \in Slots : c \in Range(records[s].first)}
ListsSound ==
    /\ \A c \in DOMAIN fate : fate[c] = "waiting" <=> Lists(c) # {}
    /\ \A s \in Slots : \A c \in Range(records[s].first) :
        c \in DOMAIN fate /\ continuations[c].promise = HandleOf(s)
    /\ \A s \in Slots : \A i, j \in DOMAIN records[s].first :
        i < j => records[s].first[i] < records[s].first[j]

\* A round that calls a continuation is not the last of its Dispatch, took the
\* continuation itself, and knows the result of its promise.
FramesSound ==
    /\ \A i \in DOMAIN frames : frames[i].calling # 0 =>
        /\ frames[i].round < limit
        /\ frames[i].calling \in DOMAIN fate /\ fate[frames[i].calling] = "called"
        /\ frames[i].handle \in Handles
        /\ frames[i].state # "Pending"
        /\ frames[i].state = records[frames[i].handle.slot].state
    /\ \A i, j \in DOMAIN frames :
        frames[i].calling # 0 /\ frames[i].calling = frames[j].calling => i = j

\* How far the shutdown has come.
ShutdownSound ==
    /\ released <=> shutdown # "up"
    /\ stopping <=> shutdown \in {"drain", "retire", "down"}
    /\ stopping => \A s \in Slots : Live(s) => records[s].state # "Pending"
    /\ shutdown \in {"retire", "down"} => ready = <<>> /\ frames = <<>>
    /\ shutdown = "down" => size = 0 /\ \A s \in Slots : records[s] = Blank

\* The references of the record a handle names.
Owned(h) == IF Live(h.slot) /\ h = HandleOf(h.slot) THEN records[h.slot].references ELSE 0

\* Few enough threads hold a handle to count them.
Countable == \A h \in Handles : IsFiniteSet(HeldBy(h)) /\ IsFiniteSet(DroppedBy(h))

\* No continuation was lost.
NoneLost == \A c \in DOMAIN fate : fate[c] # "lost"

\* All of it is inductive.
Inv ==
    /\ TypeOK /\ QueueSound /\ NoLostDispatch
    /\ FreeSound /\ ListsSound /\ FramesSound /\ ShutdownSound
    /\ CalledInOrder /\ NoneLost
    /\ Countable /\ ReferencesAccounted

-----------------------------------------------------------------------------
(* How the users of a handle change.                                         *)

\* Whatever a thread holds, the references of all keep their type.
LEMMA HeldTyped ==
    ASSUME NEW t \in Threads, NEW h \in Handles, NEW k \in 0 .. MaxHeld, TypeOK
    PROVE  [held EXCEPT ![t][h] = k] \in [Threads -> [Handles -> 0 .. MaxHeld]]
<1>1. held \in [Threads -> [Handles -> 0 .. MaxHeld]]
  BY DEF TypeOK
<1>2. [held[t] EXCEPT ![h] = k] \in [Handles -> 0 .. MaxHeld]
  BY <1>1
<1>. QED
  BY <1>1, <1>2

\* A set that loses or gains one.
LEMMA OneLess ==
    ASSUME NEW A, NEW a, IsFiniteSet(A)
    PROVE  /\ IsFiniteSet(A \ {a}) /\ Cardinality(A) \in Nat /\ Cardinality(A \ {a}) \in Nat
           /\ Cardinality(A \ {a}) = Cardinality(A) - IF a \in A THEN 1 ELSE 0
BY FS_RemoveElement, FS_CardinalityType

\* The same of one more.
LEMMA OneMoreIn ==
    ASSUME NEW A, NEW a, IsFiniteSet(A)
    PROVE  /\ IsFiniteSet(A \union {a}) /\ Cardinality(A) \in Nat
           /\ Cardinality(A \union {a}) \in Nat
           /\ Cardinality(A \union {a}) = Cardinality(A) + IF a \in A THEN 0 ELSE 1
BY FS_AddElement, FS_CardinalityType

\* A set of one, if it is there.
LEMMA AtMostOne ==
    ASSUME NEW A, NEW a, NEW P \in BOOLEAN, A = IF P THEN {a} ELSE {}
    PROVE  IsFiniteSet(A) /\ Cardinality(A) = IF P THEN 1 ELSE 0
BY FS_EmptySet, FS_Singleton

\* A thread has k references to h now.
Holds(t, h, k) ==
    t \in Threads /\ h \in Handles /\ k \in Nat /\ held' = [held EXCEPT ![t][h] = k]

\* So many more or less hold h, and as many
\* as before any other.
LEMMA HeldChange ==
    ASSUME TypeOK, Countable, NEW t, NEW h, NEW k, Holds(t, h, k), NEW g \in Handles
    PROVE  /\ IsFiniteSet(HeldBy(g)')
           /\ Cardinality(HeldBy(g)) \in Nat /\ Cardinality(HeldBy(g)') \in Nat
           /\ held[t][h] \in Nat
           /\ Cardinality(HeldBy(g)') =
                Cardinality(HeldBy(g)) + (IF g = h THEN k - held[t][h] ELSE 0)
<1>. USE DEF Holds
<1>. DEFINE F == [u \in Threads |-> 1 .. held[u][g]]
            G == [u \in Threads |-> 1 .. held'[u][g]]
<1>1. HeldBy(g) = Pairs(F) /\ HeldBy(g)' = Pairs(G)
  BY DEF HeldBy, Pairs
<1>2. IsFiniteSet(Pairs(F)) /\ Cardinality(Pairs(F)) \in Nat
  BY <1>1, FS_CardinalityType DEF Countable
<1>3. held[t][h] \in Nat /\ held \in [Threads -> [Handles -> 0 .. MaxHeld]]
  BY DEF TypeOK
<1>4. CASE g = h
  <2>1. F[t] = 1 .. held[t][h] /\ G = [F EXCEPT ![t] = 1 .. k] /\ DOMAIN F = Threads
    BY <1>3, <1>4
  <2>2. /\ IsFiniteSet(1 .. held[t][h]) /\ Cardinality(1 .. held[t][h]) = held[t][h]
        /\ IsFiniteSet(1 .. k) /\ Cardinality(1 .. k) = k
    <3>1. \A n \in Nat : IsFiniteSet(1 .. n) /\ Cardinality(1 .. n) = n
      BY FS_Interval
    <3>. QED
      BY <1>3, <3>1
  <2>3. Repairs(F, G, t, 1 .. k)
    BY <1>2, <2>1, <2>2, Zenon DEF Repairs
  <2>4. /\ IsFiniteSet(Pairs(G)) /\ Cardinality(Pairs(G)) \in Nat
        /\ Cardinality(Pairs(G)) + Cardinality(F[t]) = Cardinality(Pairs(F)) + Cardinality(1 .. k)
    BY <2>3, PairsChange
  <2>5. Cardinality(F[t]) = held[t][h]
    BY <2>1, <2>2, Zenon
  <2>. HIDE DEF F, G
  <2>. QED
    BY <1>1, <1>2, <1>3, <1>4, <2>2, <2>4, <2>5
<1>5. CASE g # h
  <2>1. G = F
    BY <1>3, <1>5
  <2>. HIDE DEF F, G
  <2>. QED
    BY <1>1, <1>2, <1>3, <1>5, <2>1
<1>. QED
  BY <1>4, <1>5

\* A thread has other references to release now.
Drops(t, q) == t \in Threads /\ q \in Seq(Handles) /\ dropping' = [dropping EXCEPT ![t] = q]

\* So they use their handles, each as often as it is listed.
LEMMA DroppedChange ==
    ASSUME TypeOK, Countable, NEW t, NEW q, Drops(t, q), NEW g \in Handles
    PROVE  /\ IsFiniteSet(DroppedBy(g)')
           /\ Cardinality(DroppedBy(g)) \in Nat /\ Cardinality(DroppedBy(g)') \in Nat
           /\ Count(dropping[t], g) \in Nat /\ Count(q, g) \in Nat
           /\ Cardinality(DroppedBy(g)') =
                Cardinality(DroppedBy(g)) + Count(q, g) - Count(dropping[t], g)
<1>. USE DEF Drops
<1>. DEFINE F == [u \in Threads |-> {i \in DOMAIN dropping[u] : dropping[u][i] = g}]
            G == [u \in Threads |-> {i \in DOMAIN dropping'[u] : dropping'[u][i] = g}]
<1>1. DroppedBy(g) = Pairs(F) /\ DroppedBy(g)' = Pairs(G)
  BY DEF DroppedBy, Pairs
<1>2. IsFiniteSet(Pairs(F)) /\ Cardinality(Pairs(F)) \in Nat
  BY <1>1, FS_CardinalityType DEF Countable
<1>3. dropping \in [Threads -> Seq(Handles)] /\ dropping[t] \in Seq(Handles)
  BY DEF TypeOK
<1>4. /\ IsFiniteSet(Places(dropping[t], g)) /\ Count(dropping[t], g) \in Nat
      /\ IsFiniteSet(Places(q, g)) /\ Count(q, g) \in Nat
  BY <1>3, CountType
<1>5. /\ F[t] = Places(dropping[t], g) /\ DOMAIN F = Threads
      /\ G = [F EXCEPT ![t] = Places(q, g)]
  BY <1>3 DEF Places
<1>6. Repairs(F, G, t, Places(q, g))
  BY <1>2, <1>4, <1>5, Zenon DEF Repairs
<1>7. /\ IsFiniteSet(Pairs(G)) /\ Cardinality(Pairs(G)) \in Nat
      /\ Cardinality(Pairs(G)) + Cardinality(F[t])
            = Cardinality(Pairs(F)) + Cardinality(Places(q, g))
  BY <1>6, PairsChange, ZenonT(30)
<1>8. Cardinality(F[t]) = Count(dropping[t], g) /\ Cardinality(Places(q, g)) = Count(q, g)
  BY <1>5, Zenon DEF Count
<1>. HIDE DEF F, G
<1>. QED
  BY <1>1, <1>2, <1>4, <1>7, <1>8

\* A round that calls a continuation of h.
Calls(frame, h) == frame.calling # 0 /\ frame.handle = h

\* The innermost round is another now.
LEMMA RoundsChange ==
    ASSUME TypeOK, frames # <<>>, NEW frame, frames' = [frames EXCEPT ![Len(frames)] = frame],
           NEW h
    PROVE  /\ IsFiniteSet(RoundsOf(h))
           /\ Cardinality(RoundsOf(h)) \in Nat /\ Cardinality(RoundsOf(h)') \in Nat
           /\ Cardinality(RoundsOf(h)') = Cardinality(RoundsOf(h))
                + (IF Calls(frame, h) THEN 1 ELSE 0) - (IF Calls(Top, h) THEN 1 ELSE 0)
<1>1. PICK n \in Nat : n = Len(frames) /\ n # 0 /\ DOMAIN frames = 1 .. n
  BY DEF TypeOK
<1>2. DOMAIN frames' = 1 .. n /\ frames'[n] = frame /\ Top = frames[n]
      /\ \A i \in 1 .. n : i # n => frames'[i] = frames[i]
  BY <1>1 DEF Top
<1>3. RoundsOf(h) \in SUBSET (1 .. n)
  BY <1>1 DEF RoundsOf
<1>4. IsFiniteSet(RoundsOf(h))
  BY <1>3, SetOfIndices
<1>5. n \in RoundsOf(h) <=> Calls(Top, h)
  BY <1>1, <1>2 DEF RoundsOf, Calls
<1>6. RoundsOf(h)' = IF Calls(frame, h) THEN (RoundsOf(h) \ {n}) \union {n}
                     ELSE RoundsOf(h) \ {n}
  BY <1>1, <1>2 DEF RoundsOf, Calls
<1>7. /\ IsFiniteSet(RoundsOf(h) \ {n}) /\ Cardinality(RoundsOf(h)) \in Nat
      /\ Cardinality(RoundsOf(h) \ {n}) \in Nat
      /\ Cardinality(RoundsOf(h) \ {n}) = Cardinality(RoundsOf(h))
            - (IF Calls(Top, h) THEN 1 ELSE 0)
  BY <1>4, <1>5, OneLess
<1>8. /\ Cardinality((RoundsOf(h) \ {n}) \union {n}) \in Nat
      /\ Cardinality((RoundsOf(h) \ {n}) \union {n}) = Cardinality(RoundsOf(h) \ {n}) + 1
  BY <1>7, OneMoreIn
<1>. QED
  BY <1>4, <1>6, <1>7, <1>8

\* The queue uses a handle once or not.
QueuedWith(h) == h.slot \in Range(ready) /\ h = HandleOf(h.slot)

\* As the count of its users has it.
LEMMA QueuedCount ==
    ASSUME NEW h
    PROVE  IsFiniteSet(QueuedAs(h)) /\ Cardinality(QueuedAs(h)) = IF QueuedWith(h) THEN 1 ELSE 0
<1>1. QueuedAs(h) = IF QueuedWith(h) THEN {h.slot} ELSE {}
  BY DEF QueuedAs, QueuedWith, HandleOf
<1>2. QueuedWith(h) \in BOOLEAN
  BY DEF QueuedWith
<1>. QED
  BY <1>1, <1>2, AtMostOne

\* The number of users is a sum of numbers.
Numbers(h) ==
    /\ Cardinality(HeldBy(h)) \in Nat /\ Cardinality(DroppedBy(h)) \in Nat
    /\ IsFiniteSet(CapturedIn(h)) /\ Cardinality(CapturedIn(h)) \in Nat
    /\ IsFiniteSet(RoundsOf(h)) /\ Cardinality(RoundsOf(h)) \in Nat
    /\ Cardinality(QueuedAs(h)) = (IF QueuedWith(h) THEN 1 ELSE 0)
    /\ Cardinality(QueuedAs(h)) \in Nat /\ Users(h) \in Nat

\* It is.
LEMMA UsersAreNumbers ==
    ASSUME TypeOK, Countable, NEW h \in Handles
    PROVE  Numbers(h)
<1>1. Cardinality(HeldBy(h)) \in Nat /\ Cardinality(DroppedBy(h)) \in Nat
  BY FS_CardinalityType DEF Countable
<1>2. CapturedIn(h) \in SUBSET (1 .. Len(continuations)) /\ Len(continuations) \in Nat
  BY DEF CapturedIn, TypeOK
<1>3. RoundsOf(h) \in SUBSET (1 .. Len(frames)) /\ Len(frames) \in Nat
  BY DEF RoundsOf, TypeOK
<1>4. IsFiniteSet(CapturedIn(h)) /\ IsFiniteSet(RoundsOf(h))
  BY <1>2, <1>3, SetOfIndices
<1>5. Cardinality(QueuedAs(h)) = (IF QueuedWith(h) THEN 1 ELSE 0)
  BY QueuedCount
<1>6. Cardinality(QueuedAs(h)) \in Nat
  BY <1>5
<1>7. Cardinality(CapturedIn(h)) \in Nat /\ Cardinality(RoundsOf(h)) \in Nat
  BY <1>4, FS_CardinalityType
<1>8. Users(h) \in Nat
  BY <1>1, <1>6, <1>7 DEF Users
<1>. QED
  BY <1>1, <1>4, <1>5, <1>6, <1>7, <1>8 DEF Numbers

\* A user makes the sum positive.
LEMMA SomeUser ==
    ASSUME NEW h, Numbers(h),
           \/ Cardinality(HeldBy(h)) # 0 \/ Cardinality(DroppedBy(h)) # 0
           \/ Cardinality(CapturedIn(h)) # 0 \/ Cardinality(QueuedAs(h)) # 0
           \/ Cardinality(RoundsOf(h)) # 0
    PROVE  Users(h) # 0
<1>1. PICK a \in Nat, b \in Nat, c \in Nat, d \in Nat, e \in Nat :
        /\ a = Cardinality(HeldBy(h)) /\ b = Cardinality(DroppedBy(h))
        /\ c = Cardinality(CapturedIn(h)) /\ d = Cardinality(QueuedAs(h))
        /\ e = Cardinality(RoundsOf(h))
  BY DEF Numbers
<1>2. Users(h) = a + b + c + d + e
  BY <1>1 DEF Users
<1>3. a # 0 \/ b # 0 \/ c # 0 \/ d # 0 \/ e # 0
  BY <1>1
<1>. QED
  BY <1>2, <1>3

\* What the entries of the tables are.
LEMMA Entries ==
    ASSUME TypeOK
    PROVE  /\ DOMAIN continuations = 1 .. Len(continuations) /\ Len(continuations) \in Nat
           /\ \A c \in DOMAIN continuations : /\ continuations[c].promise \in Handles
                                             /\ continuations[c].captured \in HandlesOrNothing
           /\ DOMAIN frames = 1 .. Len(frames) /\ Len(frames) \in Nat
           /\ \A i \in DOMAIN frames :
                /\ frames[i].round \in 0 .. limit /\ frames[i].calling \in 0 .. MaxContinuations
                /\ frames[i].handle \in HandlesOrNothing
           /\ Nothing \notin Handles
<1>. DEFINE C == [promise : Handles, captured : HandlesOrNothing]
            F == [round : 0 .. limit, calling : 0 .. MaxContinuations,
                  handle : HandlesOrNothing, state : {"Pending", "Fulfilled", "Rejected"}]
<1>1. continuations \in Seq(C) /\ frames \in Seq(F)
  BY DEF TypeOK
<1>2. \A x \in C : x.promise \in Handles /\ x.captured \in HandlesOrNothing
  OBVIOUS
<1>3. \A x \in F : /\ x.round \in 0 .. limit /\ x.calling \in 0 .. MaxContinuations
                  /\ x.handle \in HandlesOrNothing
  OBVIOUS
<1>. HIDE DEF C, F
<1>4. /\ DOMAIN continuations = 1 .. Len(continuations) /\ Len(continuations) \in Nat
      /\ \A c \in DOMAIN continuations : continuations[c] \in C
  BY <1>1
<1>5. /\ DOMAIN frames = 1 .. Len(frames) /\ Len(frames) \in Nat
      /\ \A i \in DOMAIN frames : frames[i] \in F
  BY <1>1
<1>6. Nothing \notin Handles
  BY DEF Nothing, Handles, Slots
<1>. QED
  BY <1>2, <1>3, <1>4, <1>5, <1>6

\* The handle a continuation captured, as a list of at most one.
LEMMA CapturedOne ==
    ASSUME TypeOK, NEW c \in DOMAIN continuations
    PROVE  /\ Captured(c) \in Seq(Handles)
           /\ \A g \in Handles :
                Count(Captured(c), g) = IF continuations[c].captured = g THEN 1 ELSE 0
<1>1. continuations[c].captured \in HandlesOrNothing
  BY Entries
<1>2. Nothing \notin Handles
  BY Entries
<1>3. CASE continuations[c].captured = Nothing
  BY <1>2, <1>3, CountNothing DEF Captured
<1>4. CASE continuations[c].captured # Nothing
  <2>1. PICK h \in Handles : h = continuations[c].captured
    BY <1>1, <1>4 DEF HandlesOrNothing
  <2>2. Captured(c) = <<h>>
    BY <1>4, <2>1 DEF Captured
  <2>3. \A g \in Handles : Count(<<h>>, g) = IF g = h THEN 1 ELSE 0
    BY CountOne
  <2>. QED
    BY <2>1, <2>2, <2>3
<1>. QED
  BY <1>3, <1>4

\* The handles that different continuations captured: a handle is among them as
\* often as it was captured.
LEMMA CapturedByAll ==
    ASSUME TypeOK, NEW cs \in Seq(DOMAIN continuations), IsInjective(cs), NEW g \in Handles
    PROVE  /\ CapturedBy(cs) \in Seq(Handles)
           /\ Count(CapturedBy(cs), g)
                = Cardinality({c \in Range(cs) : continuations[c].captured = g})
<1>. DEFINE s == [i \in DOMAIN cs |-> continuations[cs[i]].captured]
            K == {i \in 1 .. Len(s) : s[i] # Nothing}
            p == Picked(s, K)
<1>1. PICK n \in Nat : n = Len(cs) /\ DOMAIN cs = 1 .. n
  OBVIOUS
<1>2. \A c \in DOMAIN continuations : continuations[c].captured \in HandlesOrNothing
  BY Entries
<1>3. \A i \in 1 .. n : cs[i] \in DOMAIN continuations
  BY <1>1
<1>4. s \in Seq(HandlesOrNothing) /\ Len(s) = n
  <2>1. s \in [1 .. n -> HandlesOrNothing]
    BY <1>1, <1>2, <1>3
  <2>. HIDE DEF s
  <2>. QED
    BY <2>1
<1>5. CapturedBy(cs) = p
  BY DEF CapturedBy, Filter
<1>6. K \in SUBSET (1 .. Len(s))
  OBVIOUS
<1>7. PICK m \in Nat : m = Cardinality(K)
  <2>. HIDE DEF s, K
  <2>1. Cardinality(K) \in 0 .. Len(s)
    BY <1>4, <1>6, PickedOf
  <2>. QED
    BY <1>4, <2>1
<1>8. /\ Len(p) = m /\ DOMAIN p = 1 .. m
      /\ \A i \in 1 .. m : Nth(K, i) \in K /\ p[i] = s[Nth(K, i)]
      /\ \A i, j \in 1 .. m : i < j => Nth(K, i) < Nth(K, j)
      /\ \A k \in K : \E i \in 1 .. m : k = Nth(K, i)
  <2>. HIDE DEF s, K
  <2>1. /\ p \in Seq(HandlesOrNothing) /\ Len(p) = Cardinality(K)
        /\ \A i \in 1 .. Cardinality(K) : Nth(K, i) \in K /\ p[i] = s[Nth(K, i)]
        /\ \A i, j \in 1 .. Cardinality(K) : i < j => Nth(K, i) < Nth(K, j)
        /\ \A k \in K : \E i \in 1 .. Cardinality(K) : k = Nth(K, i)
    BY <1>4, <1>6, PickedOf
  <2>. HIDE DEF p
  <2>2. DOMAIN p = 1 .. Len(p)
    BY <2>1
  <2>. QED
    BY <1>7, <2>1, <2>2
<1>9. \A k \in K : k \in 1 .. n /\ s[k] \in Handles /\ s[k] = continuations[cs[k]].captured
  BY <1>1, <1>2, <1>3, <1>4 DEF HandlesOrNothing
<1>10. p \in Seq(Handles)
  <2>. HIDE DEF s, K, p
  <2>1. p = [i \in 1 .. m |-> p[i]]
    BY <1>8, <1>4, <1>6, PickedOf DEF p
  <2>2. \A i \in 1 .. m : p[i] \in Handles
    BY <1>8, <1>9
  <2>3. p \in [1 .. m -> Handles]
    BY <2>1, <2>2
  <2>. QED
    BY <2>3
<1>11. \A i \in 1 .. m : p[i] = g <=> continuations[cs[Nth(K, i)]].captured = g
  <2>. HIDE DEF s, K, p
  <2>. QED
    BY <1>8, <1>9
<1>12. Cardinality(Places(p, g)) = Cardinality({c \in Range(cs) : continuations[c].captured = g})
  <2>. DEFINE T == {c \in Range(cs) : continuations[c].captured = g}
              b == [i \in Places(p, g) |-> cs[Nth(K, i)]]
  <2>. HIDE DEF s, K, p
  <2>1. \A i \in Places(p, g) : i \in 1 .. m /\ Nth(K, i) \in 1 .. n /\ cs[Nth(K, i)] \in T
    BY <1>1, <1>8, <1>9, <1>11 DEF Places, Range
  <2>2. \A i, j \in Places(p, g) : cs[Nth(K, i)] = cs[Nth(K, j)] => i = j
    <3>1. SUFFICES ASSUME NEW i \in Places(p, g), NEW j \in Places(p, g),
                          cs[Nth(K, i)] = cs[Nth(K, j)]
                   PROVE  i = j
      OBVIOUS
    <3>2. Nth(K, i) = Nth(K, j)
      BY <1>1, <2>1, <3>1 DEF IsInjective
    <3>3. PICK x \in 1 .. n : x = Nth(K, i)
      BY <2>1
    <3>. QED
      BY <1>8, <2>1, <3>2, <3>3
  <2>3. \A c \in T : \E i \in Places(p, g) : cs[Nth(K, i)] = c
    <3>1. SUFFICES ASSUME NEW c \in T PROVE \E i \in Places(p, g) : cs[Nth(K, i)] = c
      OBVIOUS
    <3>2. PICK k \in 1 .. n : cs[k] = c
      BY <1>1 DEF Range
    <3>3. s[k] = g /\ g # Nothing
      BY <1>1, <3>2 DEF s, Handles, Nothing, Slots
    <3>4. k \in K
      BY <1>4, <3>3 DEF K
    <3>5. PICK i \in 1 .. m : k = Nth(K, i)
      BY <1>8, <3>4
    <3>. QED
      BY <1>8, <1>11, <3>2, <3>5 DEF Places
  <2>4. b \in Bijection(Places(p, g), T)
    <3>1. b \in [Places(p, g) -> T]
      BY <2>1
    <3>. HIDE DEF T
    <3>. QED
      BY <2>2, <2>3, <3>1 DEF Bijection, Injection, Surjection, IsInjective
  <2>5. ExistsBijection(Places(p, g), T)
    <3>. HIDE DEF b, T
    <3>. QED
      BY <2>4 DEF ExistsBijection
  <2>6. IsFiniteSet(Places(p, g))
    BY <1>10, CountType
  <2>. HIDE DEF b, T
  <2>7. Cardinality(Places(p, g)) = Cardinality(T)
    BY <2>5, <2>6, FS_Bijection
  <2>. QED
    BY <2>7 DEF T
<1>. HIDE DEF s, K, p
<1>. QED
  BY <1>5, <1>10, <1>12 DEF Count

-----------------------------------------------------------------------------
(* What a handle that is used names.                                         *)

\* Before the end, a handle somebody uses names a live record of its generation,
\* whose count is the number of its users.
Names(h) ==
    /\ h.slot \in Slots /\ h.slot \in 1 .. size
    /\ Live(h.slot) /\ h = HandleOf(h.slot) /\ Find(h)
    /\ records[h.slot].references = Users(h)

\* That is what the accounting says.
LEMMA UsedNames ==
    ASSUME TypeOK, ReferencesAccounted, NEW h \in Handles, shutdown # "down", Users(h) # 0
    PROVE  Names(h)
<1>1. h.slot \in Slots
  BY DEF Handles
<1>2. Live(h.slot) /\ h = HandleOf(h.slot) /\ records[h.slot].references = Users(h)
  BY DEF ReferencesAccounted
<1>3. h.slot \in 1 .. size
  BY <1>1, <1>2 DEF Live, TypeOK, Slots
<1>4. h.generation = records[h.slot].generation
  BY <1>2 DEF HandleOf
<1>5. Find(h)
  BY <1>2, <1>3, <1>4 DEF Find, Same, Live
<1>. QED
  BY <1>1, <1>2, <1>3, <1>5 DEF Names

\* A thread that holds a handle is one of its users.
LEMMA HolderNames ==
    ASSUME TypeOK, Countable, ReferencesAccounted, NEW t \in Threads, NEW h \in Handles,
           held[t][h] > 0
    PROVE  shutdown # "down" => Names(h)
<1>1. held[t][h] \in Nat
  BY DEF TypeOK
<1>2. <<t, 1>> \in HeldBy(h)
  BY <1>1 DEF HeldBy, Pairs
<1>3. Cardinality(HeldBy(h)) # 0
  BY <1>2, FS_EmptySet DEF Countable
<1>4. Users(h) # 0
  BY <1>3, UsersAreNumbers, SomeUser
<1>. QED
  BY <1>4, UsedNames

\* So is one that is about to release it.
LEMMA DropperNames ==
    ASSUME TypeOK, Countable, ReferencesAccounted, NEW t \in Threads, dropping[t] # <<>>
    PROVE  /\ Head(dropping[t]) \in Handles /\ Tail(dropping[t]) \in Seq(Handles)
           /\ shutdown # "down" => Names(Head(dropping[t]))
<1>1. PICK h : h = Head(dropping[t])
  OBVIOUS
<1>2. dropping[t] \in Seq(Handles)
  BY DEF TypeOK
<1>3. h \in Handles /\ Tail(dropping[t]) \in Seq(Handles) /\ 1 \in DOMAIN dropping[t]
      /\ dropping[t][1] = h
  BY <1>1, <1>2
<1>4. <<t, 1>> \in DroppedBy(h)
  BY <1>3 DEF DroppedBy, Pairs
<1>5. Cardinality(DroppedBy(h)) # 0
  BY <1>3, <1>4, FS_EmptySet DEF Countable
<1>6. Users(h) # 0
  BY <1>3, <1>5, UsersAreNumbers, SomeUser
<1>. QED
  BY <1>1, <1>3, <1>6, UsedNames

\* So is a round that calls a continuation.
LEMMA CallerNames ==
    ASSUME TypeOK, Countable, ReferencesAccounted, FramesSound, NEW i \in DOMAIN frames,
           frames[i].calling # 0
    PROVE  /\ frames[i].handle \in Handles
           /\ shutdown # "down" => Names(frames[i].handle)
<1>1. PICK h \in Handles : h = frames[i].handle
  BY DEF FramesSound
<1>2. i \in RoundsOf(h)
  BY <1>1 DEF RoundsOf
<1>3. Cardinality(RoundsOf(h)) # 0
  BY <1>2, UsersAreNumbers, FS_EmptySet DEF Numbers
<1>4. Users(h) # 0
  BY <1>3, UsersAreNumbers, SomeUser
<1>. QED
  BY <1>1, <1>4, UsedNames

\* At the end a handle finds nothing.
LEMMA NothingFound ==
    ASSUME ShutdownSound, shutdown = "down", NEW h
    PROVE  ~Find(h)
BY DEF ShutdownSound, Find

-----------------------------------------------------------------------------
(* Steps that leave the records and the references alone.                    *)

\* What a record may be.
RecordType == [generation : 0 .. MaxCreates, references : Nat,
               state : {"Pending", "Fulfilled", "Rejected"}, first : Seq(Ids), ready : BOOLEAN]

\* The records, entry by entry.
LEMMA RecordFields ==
    ASSUME TypeOK
    PROVE  /\ records \in [Slots -> RecordType]
           /\ \A s \in Slots :
                /\ records[s] \in RecordType
                /\ records[s].generation \in 0 .. MaxCreates /\ records[s].references \in Nat
                /\ records[s].state \in {"Pending", "Fulfilled", "Rejected"}
                /\ records[s].first \in Seq(Ids) /\ records[s].ready \in BOOLEAN
<1>1. records \in [Slots -> RecordType]
  BY DEF TypeOK, RecordType
<1>2. \A r \in RecordType :
        /\ r.generation \in 0 .. MaxCreates /\ r.references \in Nat
        /\ r.state \in {"Pending", "Fulfilled", "Rejected"}
        /\ r.first \in Seq(Ids) /\ r.ready \in BOOLEAN
  BY DEF RecordType
<1>. QED
  BY <1>1, <1>2

\* What those steps leave alone.
still == <<limit, records, size, free, ready, held, dropping, continuations, fate>>

\* The calls of Dispatch that are running a continuation stay where they are.
SameRounds ==
    /\ frames' \in Seq([round : 0 .. limit, calling : 0 .. MaxContinuations,
                        handle : HandlesOrNothing,
                        state : {"Pending", "Fulfilled", "Rejected"}])
    /\ \A i : /\ i \in DOMAIN frames /\ frames[i].calling # 0
                <=> i \in DOMAIN frames' /\ frames'[i].calling # 0
              /\ i \in DOMAIN frames /\ frames[i].calling # 0 => frames'[i] = frames[i]

\* A call of Dispatch begins, or one between two rounds returns.
LEMMA FramesMove ==
    ASSUME TypeOK,
           \/ frames' = frames
           \/ frames' = Append(frames, Loop)
           \/ frames' = <<Loop>> /\ frames = <<>>
           \/ frames # <<>> /\ Top.calling = 0 /\ frames' = Front(frames)
    PROVE  SameRounds
<1>. DEFINE F == [round : 0 .. limit, calling : 0 .. MaxContinuations,
                  handle : HandlesOrNothing, state : {"Pending", "Fulfilled", "Rejected"}]
<1>1. frames \in Seq(F)
  BY DEF TypeOK
<1>2. Loop \in F /\ Loop.calling = 0
  <2>1. limit \in Nat
    BY PromiseAssumption DEF TypeOK
  <2>. QED
    BY <2>1, PromiseAssumption DEF Loop, HandlesOrNothing
<1>3. SameRounds <=>
        /\ frames' \in Seq(F)
        /\ \A i : /\ i \in DOMAIN frames /\ frames[i].calling # 0
                    <=> i \in DOMAIN frames' /\ frames'[i].calling # 0
                  /\ i \in DOMAIN frames /\ frames[i].calling # 0 => frames'[i] = frames[i]
  BY DEF SameRounds
<1>. HIDE DEF F
<1>4. CASE frames' = frames
  BY <1>1, <1>3, <1>4
<1>5. CASE frames' = Append(frames, Loop)
  BY <1>1, <1>2, <1>3, <1>5
<1>6. CASE frames' = <<Loop>> /\ frames = <<>>
  <2>1. frames' \in Seq(F) /\ DOMAIN frames' = {1} /\ frames'[1] = Loop /\ DOMAIN frames = {}
    BY <1>2, <1>6
  <2>. QED
    BY <1>2, <1>3, <2>1
<1>7. CASE frames # <<>> /\ Top.calling = 0 /\ frames' = Front(frames)
  <2>1. PICK n \in Nat : n = Len(frames) /\ n # 0 /\ DOMAIN frames = 1 .. n
    BY <1>1, <1>7
  <2>2. /\ frames' \in Seq(F) /\ DOMAIN frames' = 1 .. (n - 1)
        /\ \A i \in 1 .. (n - 1) : frames'[i] = frames[i]
    BY <1>1, <1>7, <2>1 DEF Front
  <2>3. frames[n].calling = 0
    BY <1>7, <2>1 DEF Top
  <2>. QED
    BY <1>3, <2>1, <2>2, <2>3
<1>. QED
  BY <1>4, <1>5, <1>6, <1>7

\* Then every part of the invariant that is about records, lists, rounds and
\* references stays.
LEMMA StillStep ==
    ASSUME Inv, UNCHANGED still, SameRounds,
           shutdown' = "down" <=> shutdown = "down"
    PROVE  /\ QueueSound' /\ FreeSound' /\ ListsSound' /\ FramesSound' /\ CalledInOrder'
           /\ NoneLost' /\ Countable' /\ ReferencesAccounted'
           /\ \A s : Live(s)' <=> Live(s)
<1>1. UNCHANGED <<limit, records, size, free, ready, held, dropping, continuations, fate>>
  BY DEF still
<1>2. \A s : (Live(s)' <=> Live(s)) /\ HandleOf(s)' = HandleOf(s)
  BY <1>1 DEF Live, HandleOf
<1>3. QueueSound'
  BY <1>1, <1>2 DEF Inv, QueueSound
<1>4. FreeSound'
  BY <1>1, <1>2 DEF Inv, FreeSound
<1>5. ListsSound'
  BY <1>1, <1>2 DEF Inv, ListsSound, Lists
<1>6. FramesSound'
  BY <1>1 DEF Inv, FramesSound, SameRounds
<1>7. CalledInOrder' /\ NoneLost'
  BY <1>1 DEF Inv, CalledInOrder, NoneLost
<1>8. \A h : HeldBy(h)' = HeldBy(h) /\ DroppedBy(h)' = DroppedBy(h) /\ QueuedAs(h)' = QueuedAs(h)
  BY <1>1, <1>2 DEF HeldBy, DroppedBy, QueuedAs
<1>9. Countable'
  BY <1>8 DEF Inv, Countable
<1>10. \A h : RoundsOf(h)' = RoundsOf(h)
  BY DEF RoundsOf, SameRounds
<1>11. \A c \in DOMAIN continuations : Alive(c)' <=> Alive(c)
  <2>1. \A c \in DOMAIN continuations : c # 0
    BY Entries DEF Inv
  <2>. QED
    BY <1>1, <2>1 DEF Alive, SameRounds
<1>12. \A h : CapturedIn(h)' = CapturedIn(h)
  BY <1>1, <1>11 DEF CapturedIn
<1>13. \A h : Users(h)' = Users(h)
  BY <1>8, <1>10, <1>12 DEF Users
<1>14. ReferencesAccounted'
  BY <1>1, <1>2, <1>13 DEF Inv, ReferencesAccounted
<1>. QED
  BY <1>2, <1>3, <1>4, <1>5, <1>6, <1>7, <1>9, <1>14

\* Finish_Event begins a Dispatch.
LEMMA EventStep ==
    ASSUME Inv, Event
    PROVE  Inv'
<1>1. /\ shutdown = "up" /\ frames' = Append(frames, Loop)
      /\ UNCHANGED <<tables, host, shutdown, held, dropping, continuations, fate>>
  BY DEF Event
<1>2. SameRounds
  BY <1>1, FramesMove DEF Inv
<1>3. UNCHANGED still
  BY <1>1 DEF still, tables, host
<1>4. TypeOK'
  BY <1>1, <1>2 DEF Inv, TypeOK, SameRounds, tables, host
<1>5. ShutdownSound'
  BY <1>1 DEF Inv, ShutdownSound, tables, host, Live
<1>6. NoLostDispatch'
  <2>1. frames' # <<>>
    BY <1>1 DEF Inv, TypeOK
  <2>. QED
    BY <2>1 DEF NoLostDispatch
<1>. QED
  BY <1>1, <1>2, <1>3, <1>4, <1>5, <1>6, StillStep DEF Inv

\* Dispatch_Pending forgets the request and begins one.
LEMMA HostDispatchStep ==
    ASSUME Inv, HostDispatch
    PROVE  Inv'
<1>1. /\ ~released /\ frames = <<>> /\ frames' = <<Loop>> /\ requested' = FALSE
      /\ UNCHANGED <<limit, tables, released, shutdown, held, dropping, continuations, fate>>
  BY DEF HostDispatch
<1>2. SameRounds
  BY <1>1, FramesMove DEF Inv
<1>3. UNCHANGED still
  BY <1>1 DEF still, tables
<1>4. TypeOK'
  BY <1>1, <1>2 DEF Inv, TypeOK, SameRounds, tables
<1>5. ShutdownSound'
  BY <1>1 DEF Inv, ShutdownSound, tables, Live
<1>6. NoLostDispatch'
  BY <1>1 DEF NoLostDispatch
<1>. QED
  BY <1>1, <1>2, <1>3, <1>4, <1>5, <1>6, StillStep DEF Inv

\* Dispatch returns because the queue is empty.
LEMMA FinishedStep ==
    ASSUME Inv, Finished
    PROVE  Inv'
<1>1. /\ frames # <<>> /\ Top.calling = 0 /\ ready = <<>> /\ frames' = Front(frames)
      /\ UNCHANGED <<tables, host, shutdown, held, dropping, continuations, fate>>
  BY DEF Finished, Looping
<1>2. SameRounds
  BY <1>1, FramesMove DEF Inv
<1>3. UNCHANGED still
  BY <1>1 DEF still, tables, host
<1>4. TypeOK'
  BY <1>1, <1>2 DEF Inv, TypeOK, SameRounds, tables, host
<1>5. ShutdownSound'
  BY <1>1 DEF Inv, ShutdownSound, tables, host, Live
<1>6. NoLostDispatch'
  BY <1>1 DEF NoLostDispatch, tables
<1>. QED
  BY <1>1, <1>2, <1>3, <1>4, <1>5, <1>6, StillStep DEF Inv

\* Dispatch returns because it has had its rounds, and asks for another.
LEMMA LimitedStep ==
    ASSUME Inv, Limited
    PROVE  Inv'
<1>1. /\ frames # <<>> /\ Top.calling = 0 /\ frames' = Front(frames)
      /\ requested' = (requested \/ ~released)
      /\ UNCHANGED <<limit, tables, released, shutdown, held, dropping, continuations, fate>>
  BY DEF Limited, Looping, AskAgain, Request, Accepts
<1>2. SameRounds
  BY <1>1, FramesMove DEF Inv
<1>3. UNCHANGED still
  BY <1>1 DEF still, tables
<1>4. TypeOK'
  BY <1>1, <1>2 DEF Inv, TypeOK, SameRounds, tables
<1>5. ShutdownSound'
  BY <1>1 DEF Inv, ShutdownSound, tables, Live
<1>6. NoLostDispatch'
  BY <1>1 DEF NoLostDispatch
<1>. QED
  BY <1>1, <1>2, <1>3, <1>4, <1>5, <1>6, StillStep DEF Inv

\* The shutdown begins.
LEMMA ShutdownStep ==
    ASSUME Inv, Shutdown
    PROVE  Inv'
<1>1. /\ shutdown = "up" /\ shutdown' = "flush" /\ released' = TRUE
      /\ frames = <<>> /\ frames' = <<Loop>>
      /\ UNCHANGED <<limit, tables, requested, held, dropping, continuations, fate>>
  BY DEF Shutdown
<1>2. SameRounds
  BY <1>1, FramesMove DEF Inv
<1>3. UNCHANGED still
  BY <1>1 DEF still, tables
<1>4. TypeOK'
  BY <1>1, <1>2 DEF Inv, TypeOK, SameRounds, tables
<1>5. ShutdownSound'
  BY <1>1 DEF Inv, ShutdownSound, tables, Live
<1>6. NoLostDispatch'
  BY <1>1 DEF NoLostDispatch
<1>. QED
  BY <1>1, <1>2, <1>3, <1>4, <1>5, <1>6, StillStep DEF Inv

\* It goes on until the queue is empty.
LEMMA DrainStep ==
    ASSUME Inv, Drain
    PROVE  Inv'
<1>1. /\ shutdown = "drain" /\ frames = <<>>
      /\ \/ ready = <<>> /\ shutdown' = "retire" /\ frames' = frames
         \/ frames' = <<Loop>> /\ shutdown' = shutdown
      /\ UNCHANGED <<tables, host, held, dropping, continuations, fate>>
  BY DEF Drain, Drained
<1>2. SameRounds
  BY <1>1, FramesMove DEF Inv
<1>3. UNCHANGED still
  BY <1>1 DEF still, tables, host
<1>4. TypeOK'
  BY <1>1, <1>2 DEF Inv, TypeOK, SameRounds, tables, host
<1>5. ShutdownSound'
  BY <1>1 DEF Inv, ShutdownSound, tables, host, Live
<1>6. NoLostDispatch'
  BY <1>1 DEF NoLostDispatch, Inv, ShutdownSound, host
<1>. QED
  BY <1>1, <1>2, <1>3, <1>4, <1>5, <1>6, StillStep DEF Inv

-----------------------------------------------------------------------------
(* Taking and releasing references.                                          *)

\* The records differ in nothing but their counts, and none is freed.
Alike ==
    \A s \in Slots :
        /\ records'[s].generation = records[s].generation
        /\ records'[s].state = records[s].state /\ records'[s].first = records[s].first
        /\ records'[s].ready = records[s].ready
        /\ records'[s].references = 0 <=> records[s].references = 0

\* Then the queue, the free list, the lists and the rounds are as sound as before.
LEMMA AlikeStep ==
    ASSUME Inv, Alike, shutdown # "down",
           UNCHANGED <<limit, size, free, ready, stopping, released, shutdown, frames,
                       continuations, fate>>
    PROVE  /\ QueueSound' /\ FreeSound' /\ ListsSound' /\ FramesSound' /\ ShutdownSound'
           /\ CalledInOrder' /\ NoneLost'
           /\ \A s \in Slots : (Live(s)' <=> Live(s)) /\ HandleOf(s)' = HandleOf(s)
<1>1. \A s \in Slots : (Live(s)' <=> Live(s)) /\ HandleOf(s)' = HandleOf(s)
  BY DEF Live, HandleOf, Alike
<1>2. QueueSound'
  BY <1>1 DEF Inv, QueueSound, Alike
<1>3. FreeSound'
  <2>1. \A s \in Range(free) : s \in Slots
    BY DEF Inv, TypeOK, Range
  <2>. QED
    BY <1>1, <2>1 DEF Inv, FreeSound, Alike
<1>4. ListsSound'
  BY <1>1 DEF Inv, ListsSound, Lists, Alike
<1>5. FramesSound'
  <2>1. \A h \in Handles : h.slot \in Slots
    BY DEF Handles
  <2>. QED
    BY <2>1 DEF Inv, FramesSound, Alike
<1>6. ShutdownSound'
  BY <1>1 DEF Inv, ShutdownSound, Alike
<1>7. CalledInOrder' /\ NoneLost'
  BY DEF Inv, CalledInOrder, NoneLost
<1>. QED
  BY <1>1, <1>2, <1>3, <1>4, <1>5, <1>6, <1>7

\* Closures and rounds use what they used.
LEMMA SameClosures ==
    ASSUME UNCHANGED <<frames, continuations, fate>>
    PROVE  \A g : CapturedIn(g)' = CapturedIn(g) /\ RoundsOf(g)' = RoundsOf(g)
BY DEF CapturedIn, RoundsOf, Alive

\* So does the queue, if the records keep their generations.
LEMMA SameQueue ==
    ASSUME TypeOK, UNCHANGED ready, \A s \in Slots : HandleOf(s)' = HandleOf(s)
    PROVE  \A g : QueuedAs(g)' = QueuedAs(g)
<1>1. \A s \in Range(ready) : s \in Slots
  BY DEF TypeOK, Range
<1>. QED
  BY <1>1 DEF QueuedAs

\* A handle that names a record is the only one that does.
LEMMA OneName ==
    ASSUME NEW h \in Handles, NEW g \in Handles, h = HandleOf(h.slot), g = HandleOf(g.slot),
           g.slot = h.slot
    PROVE  g = h
BY DEF Handles

\* One record has another count now: its owner has another number of references,
\* and all others what they had.
LEMMA OwnedChange ==
    ASSUME TypeOK, NEW h \in Handles, Names(h), NEW n \in Nat, size' = size,
           records'[h.slot].references = n,
           records'[h.slot].generation = records[h.slot].generation,
           \A s \in Slots : s # h.slot => records'[s] = records[s]
    PROVE  /\ \A s \in Slots : HandleOf(s)' = HandleOf(s)
           /\ \A g \in Handles :
                /\ Owned(g) \in Nat
                /\ Owned(g)' = Owned(g)
                        + (IF g = h THEN n - records[h.slot].references ELSE 0)
<1>1. \A s \in Slots : HandleOf(s)' = HandleOf(s)
  BY DEF HandleOf
<1>2. \A g \in Handles : g.slot \in Slots
  BY DEF Handles
<1>3. ASSUME NEW g \in Handles
      PROVE  /\ Owned(g) \in Nat
             /\ Owned(g)' = Owned(g) + (IF g = h THEN n - records[h.slot].references ELSE 0)
  <2>1. Owned(g) \in Nat
    BY <1>2, RecordFields DEF Owned
  <2>2. CASE g = h
    <3>1. Owned(g) = records[h.slot].references /\ Owned(g) \in Nat
      BY <2>1, <2>2 DEF Owned, Names
    <3>2. Owned(g)' = n
      <4>1. h.slot <= size /\ h = HandleOf(h.slot)'
        BY <1>1, <1>2 DEF Names, Live
      <4>. QED
        BY <2>2, <4>1 DEF Owned, Live
    <3>. QED
      BY <2>2, <3>1, <3>2
  <2>3. CASE g # h
    <3>1. g = HandleOf(g.slot) => g.slot # h.slot
      BY <2>3, OneName DEF Names
    <3>2. g = HandleOf(g.slot) => records'[g.slot] = records[g.slot]
      BY <1>2, <3>1
    <3>3. HandleOf(g.slot)' = HandleOf(g.slot)
      BY <1>1, <1>2
    <3>4. Owned(g)' = Owned(g)
      BY <3>2, <3>3 DEF Owned, Live
    <3>. QED
      BY <2>1, <2>3, <3>4
  <2>. QED
    BY <2>2, <2>3
<1>. QED
  BY <1>1, <1>3

\* A reference is copied.
LEMMA RetainStep ==
    ASSUME Inv, NEW t \in Threads, Retain(t)
    PROVE  Inv'
<1>1. PICK h \in Handles, u \in Threads :
        /\ held[t][h] > 0 /\ held[u][h] < MaxHeld
        /\ records' = IF Find(h) THEN [records EXCEPT ![h.slot].references = @ + 1] ELSE records
        /\ held' = [held EXCEPT ![u][h] = @ + 1]
  BY DEF Retain
<1>2. UNCHANGED <<size, free, ready, stopping, limit, requested, released, shutdown, frames,
                  dropping, continuations, fate>>
  BY DEF Retain, host
<1>3. TypeOK /\ Countable /\ ReferencesAccounted
  BY DEF Inv
<1>4. PICK k \in Nat : k = held[u][h] + 1 /\ k <= MaxHeld
  <2>1. held[u][h] \in Nat /\ MaxHeld \in Nat
    BY <1>3, PromiseAssumption DEF TypeOK
  <2>. QED
    BY <1>1, <2>1
<1>5. held' = [held EXCEPT ![u][h] = k] /\ held' \in [Threads -> [Handles -> 0 .. MaxHeld]]
  <2>1. k \in 0 .. MaxHeld
    BY <1>4, PromiseAssumption
  <2>2. held' = [held EXCEPT ![u][h] = k]
    BY <1>1, <1>4
  <2>. QED
    BY <1>3, <2>1, <2>2, HeldTyped
<1>6. \A g \in Handles :
        /\ IsFiniteSet(HeldBy(g)')
        /\ Cardinality(HeldBy(g)) \in Nat
        /\ Cardinality(HeldBy(g)') = Cardinality(HeldBy(g)) + (IF g = h THEN 1 ELSE 0)
  <2>1. SUFFICES ASSUME NEW g \in Handles
                 PROVE  /\ IsFiniteSet(HeldBy(g)')
                        /\ Cardinality(HeldBy(g)) \in Nat
                        /\ Cardinality(HeldBy(g)')
                            = Cardinality(HeldBy(g)) + (IF g = h THEN 1 ELSE 0)
    OBVIOUS
  <2>2. /\ IsFiniteSet(HeldBy(g)') /\ Cardinality(HeldBy(g)) \in Nat
        /\ held[u][h] \in Nat
        /\ Cardinality(HeldBy(g)') =
             Cardinality(HeldBy(g)) + (IF g = h THEN k - held[u][h] ELSE 0)
    <3>1. Holds(u, h, k)
      BY <1>1, <1>4, <1>5 DEF Holds
    <3>. QED
      BY <1>3, <3>1, HeldChange
  <2>. QED
    BY <1>4, <2>2
<1>7. \A g : DroppedBy(g)' = DroppedBy(g)
  BY <1>2 DEF DroppedBy
<1>8. Countable'
  BY <1>3, <1>6, <1>7 DEF Countable
<1>9. NoLostDispatch'
  BY <1>2 DEF Inv, NoLostDispatch
<1>10. CASE shutdown = "down"
  <2>1. records' = records
    BY <1>1, <1>10, NothingFound DEF Inv
  <2>2. TypeOK'
    BY <1>2, <1>3, <1>5, <2>1 DEF TypeOK
  <2>3. \A s : (Live(s)' <=> Live(s)) /\ HandleOf(s)' = HandleOf(s)
    BY <1>2, <2>1 DEF Live, HandleOf
  <2>4. QueueSound' /\ FreeSound' /\ ListsSound' /\ FramesSound' /\ ShutdownSound'
    BY <1>2, <2>1, <2>3 DEF Inv, QueueSound, FreeSound, ListsSound, Lists, FramesSound,
                            ShutdownSound
  <2>5. CalledInOrder' /\ NoneLost' /\ ReferencesAccounted'
    BY <1>2, <1>10 DEF Inv, CalledInOrder, NoneLost, ReferencesAccounted
  <2>. QED
    BY <1>8, <1>9, <2>2, <2>4, <2>5 DEF Inv
<1>11. CASE shutdown # "down"
  <2>1. Names(h)
    BY <1>1, <1>3, <1>11, HolderNames
  <2>2. records' = [records EXCEPT ![h.slot].references = @ + 1] /\ h.slot \in Slots
        /\ records[h.slot].references # 0
    BY <1>1, <2>1 DEF Names, Live
  <2>3. Alike
    BY <1>3, <2>2, RecordFields DEF Alike
  <2>4. records' \in [Slots -> RecordType]
        /\ records'[h.slot].references = records[h.slot].references + 1
        /\ \A s \in Slots : s # h.slot => records'[s] = records[s]
    <3>0. PICK q \in RecordType : q = records[h.slot]
      BY <1>3, <2>2, RecordFields
    <3>1. PICK r : r = [q EXCEPT !.references = @ + 1]
      OBVIOUS
    <3>2. r \in RecordType /\ r.references = q.references + 1
      BY <3>0, <3>1 DEF RecordType
    <3>3. records' = [records EXCEPT ![h.slot] = r]
      BY <2>2, <3>0, <3>1
    <3>. QED
      BY <1>3, <2>2, <3>0, <3>2, <3>3, RecordFields
  <2>5. TypeOK'
    BY <1>2, <1>3, <1>5, <2>4 DEF TypeOK, RecordType
  <2>6. /\ QueueSound' /\ FreeSound' /\ ListsSound' /\ FramesSound' /\ ShutdownSound'
        /\ CalledInOrder' /\ NoneLost'
        /\ \A s \in Slots : (Live(s)' <=> Live(s)) /\ HandleOf(s)' = HandleOf(s)
    BY <1>2, <1>11, <2>3, AlikeStep
  <2>7. ASSUME NEW g \in Handles
        PROVE  Users(g)' = Owned(g)'
    <3>1. Numbers(g) /\ Users(g) = Owned(g)
      BY <1>3, <1>11, UsersAreNumbers DEF ReferencesAccounted, Owned
    <3>2. Users(g)' = Users(g) + (IF g = h THEN 1 ELSE 0)
      <4>1. CapturedIn(g)' = CapturedIn(g) /\ RoundsOf(g)' = RoundsOf(g)
        BY <1>2, SameClosures
      <4>2. QueuedAs(g)' = QueuedAs(g) /\ DroppedBy(g)' = DroppedBy(g)
        BY <1>2, <1>3, <1>7, <2>6, SameQueue
      <4>. QED
        BY <1>6, <3>1, <4>1, <4>2 DEF Users, Numbers
    <3>3. Owned(g)' = Owned(g) + (IF g = h THEN 1 ELSE 0)
      <4>1. PICK n \in Nat, m \in Nat :
                n = records'[h.slot].references /\ m = records[h.slot].references /\ n = m + 1
        <5>1. records[h.slot].references \in Nat
          BY <1>3, <2>2, RecordFields
        <5>2. records'[h.slot].references = records[h.slot].references + 1
          BY <2>4
        <5>3. records'[h.slot].references \in Nat
          BY <5>1, <5>2
        <5>. QED
          BY <5>1, <5>2, <5>3
      <4>2. /\ Owned(g) \in Nat
            /\ Owned(g)' = Owned(g)
                    + (IF g = h THEN n - records[h.slot].references ELSE 0)
        BY <1>2, <1>3, <2>1, <2>3, <2>2, <2>4, <4>1, OwnedChange DEF Alike
      <4>. QED
        BY <4>1, <4>2
    <3>. QED
      BY <3>1, <3>2, <3>3
  <2>8. ReferencesAccounted'
    BY <2>7 DEF ReferencesAccounted, Owned
  <2>. QED
    BY <1>8, <1>9, <2>5, <2>6, <2>8 DEF Inv
<1>. QED
  BY <1>10, <1>11

\* A thread releases h, which it holds or was about to release, before it
\* releases others later.
Lets(t, h, later) ==
    /\ t \in Threads /\ h \in Handles /\ later \in Seq(Handles) /\ Names(h)
    /\ Release(t, h, later)
    /\ Cardinality(HeldBy(h)) # 0 \/ Cardinality(DroppedBy(h)) # 0
    /\ held' \in [Threads -> [Handles -> 0 .. MaxHeld]]
    /\ \A g \in Handles :
        /\ IsFiniteSet(HeldBy(g)') /\ Cardinality(HeldBy(g)') \in Nat
        /\ Cardinality(HeldBy(g)') + Count(later, g)
            = Cardinality(HeldBy(g)) + Count(dropping[t], g) - (IF g = h THEN 1 ELSE 0)
    /\ UNCHANGED <<size, ready, stopping, limit, requested, released, shutdown, frames,
                   continuations>>
    /\ shutdown # "down"

\* Others use the record still.
LEMMA ReleaseSome ==
    ASSUME Inv, NEW t, NEW h, NEW later, Lets(t, h, later), ~FreedBy(records[h.slot])
    PROVE  Inv'
<1>0. /\ t \in Threads /\ h \in Handles /\ later \in Seq(Handles) /\ Names(h)
      /\ Release(t, h, later)
      /\ Cardinality(HeldBy(h)) # 0 \/ Cardinality(DroppedBy(h)) # 0
      /\ held' \in [Threads -> [Handles -> 0 .. MaxHeld]]
      /\ UNCHANGED <<size, ready, stopping, limit, requested, released, shutdown, frames,
                     continuations>>
      /\ shutdown # "down"
  BY DEF Lets
<1>1. TypeOK /\ Countable /\ ReferencesAccounted
  BY DEF Inv
<1>H. ASSUME NEW g \in Handles
      PROVE  /\ IsFiniteSet(HeldBy(g)') /\ Cardinality(HeldBy(g)') \in Nat
             /\ Cardinality(HeldBy(g)') + Count(later, g)
                 = Cardinality(HeldBy(g)) + Count(dropping[t], g) - (IF g = h THEN 1 ELSE 0)
  BY DEF Lets
<1>2. /\ h.slot \in Slots /\ Find(h) /\ Live(h.slot)
      /\ records[h.slot] \in RecordType /\ records \in [Slots -> RecordType]
  BY <1>0, <1>1, RecordFields DEF Names
<1>3. /\ records' = [records EXCEPT ![h.slot].references = @ - 1]
      /\ dropping' = [dropping EXCEPT ![t] = later]
      /\ free' = free /\ fate' = fate
  BY <1>0, <1>2 DEF Release
<1>4. PICK n \in Nat : n # 0 /\ records[h.slot].references = n + 1
  <2>1. records[h.slot].references \in Nat /\ records[h.slot].references # 0
    BY <1>0, <1>1, <1>2, RecordFields DEF Live
  <2>2. records[h.slot].references # 1
    BY <1>0 DEF FreedBy
  <2>3. records[h.slot].references - 1 \in Nat /\ records[h.slot].references - 1 # 0
    BY <1>0, <2>1, <2>2
  <2>. QED
    <3>1. PICK n \in Nat : n = records[h.slot].references - 1
      BY <2>3
    <3>. QED
      BY <2>1, <2>3, <3>1
<1>5. PICK r \in RecordType :
        /\ records' = [records EXCEPT ![h.slot] = r]
        /\ r = [records[h.slot] EXCEPT !.references = n]
  <2>1. PICK q \in RecordType : q = records[h.slot] /\ q.references = n + 1
    BY <1>0, <1>2, <1>4
  <2>2. PICK r : r = [q EXCEPT !.references = n]
    OBVIOUS
  <2>3. r \in RecordType
    BY <1>0, <1>4, <2>1, <2>2 DEF RecordType
  <2>4. records' = [records EXCEPT ![h.slot] = r]
    <3>1. q.references - 1 = n
      BY <1>4, <2>1
    <3>. QED
      BY <1>3, <2>1, <2>2, <3>1
  <2>. QED
    BY <1>0, <2>1, <2>2, <2>3, <2>4
<1>6. /\ r.references = n /\ r.generation = records[h.slot].generation
      /\ r.state = records[h.slot].state /\ r.first = records[h.slot].first
      /\ r.ready = records[h.slot].ready
  BY <1>0, <1>2, <1>5 DEF RecordType
<1>7. /\ records'[h.slot] = r /\ records' \in [Slots -> RecordType]
      /\ \A s \in Slots : s # h.slot => records'[s] = records[s]
  BY <1>0, <1>2, <1>5
<1>8. Alike
  BY <1>0, <1>4, <1>6, <1>7 DEF Alike
<1>9. dropping' \in [Threads -> Seq(Handles)]
  BY <1>0, <1>1, <1>3 DEF TypeOK
<1>10. TypeOK'
  BY <1>0, <1>1, <1>3, <1>7, <1>9 DEF TypeOK, RecordType
<1>11. /\ QueueSound' /\ FreeSound' /\ ListsSound' /\ FramesSound' /\ ShutdownSound'
       /\ CalledInOrder' /\ NoneLost'
       /\ \A s \in Slots : (Live(s)' <=> Live(s)) /\ HandleOf(s)' = HandleOf(s)
  BY <1>0, <1>3, <1>8, AlikeStep
<1>12. NoLostDispatch'
  BY <1>0 DEF Inv, NoLostDispatch
<1>13. Drops(t, later)
  BY <1>0, <1>3 DEF Drops
<1>14. ASSUME NEW g \in Handles
       PROVE  IsFiniteSet(DroppedBy(g)') /\ Users(g)' = Owned(g)'
  <2>1. Numbers(g) /\ Users(g) = Owned(g)
    BY <1>0, <1>1, UsersAreNumbers DEF ReferencesAccounted, Owned
  <2>2. /\ IsFiniteSet(DroppedBy(g)')
        /\ Cardinality(DroppedBy(g)) \in Nat /\ Cardinality(DroppedBy(g)') \in Nat
        /\ Count(dropping[t], g) \in Nat /\ Count(later, g) \in Nat
        /\ Cardinality(DroppedBy(g)') =
             Cardinality(DroppedBy(g)) + Count(later, g) - Count(dropping[t], g)
    BY <1>0, <1>1, <1>13, DroppedChange
  <2>3. CapturedIn(g)' = CapturedIn(g) /\ RoundsOf(g)' = RoundsOf(g)
    BY <1>0, <1>3, SameClosures
  <2>4. QueuedAs(g)' = QueuedAs(g)
    BY <1>0, <1>1, <1>11, SameQueue
  <2>5. Users(g)' = Users(g) - (IF g = h THEN 1 ELSE 0)
    BY <1>H, <2>1, <2>2, <2>3, <2>4 DEF Users, Numbers
  <2>6. /\ Owned(g) \in Nat
        /\ Owned(g)' = Owned(g) + (IF g = h THEN n - records[h.slot].references ELSE 0)
    BY <1>0, <1>1, <1>6, <1>7, OwnedChange
  <2>. QED
    BY <1>0, <1>4, <2>1, <2>2, <2>5, <2>6
<1>15. Countable' /\ ReferencesAccounted'
  BY <1>H, <1>14 DEF Countable, ReferencesAccounted, Owned
<1>. QED
  BY <1>0, <1>10, <1>11, <1>12, <1>15 DEF Inv

\* A list of continuations is a list of different ones, which no round calls.
LEMMA ListOf ==
    ASSUME TypeOK, ListsSound, NEW s \in Slots
    PROVE  /\ records[s].first \in Seq(DOMAIN continuations) /\ IsInjective(records[s].first)
           /\ \A c \in Range(records[s].first) :
                c \in DOMAIN fate /\ fate[c] = "waiting" /\ Lists(c) = {s}
<1>1. PICK q \in Seq(Ids) : q = records[s].first
  BY RecordFields
<1>2. DOMAIN fate = DOMAIN continuations
  BY DEF TypeOK
<1>3. \A c \in Range(q) : c \in DOMAIN fate /\ continuations[c].promise = HandleOf(s)
  BY <1>1 DEF ListsSound
<1>4. q \in Seq(DOMAIN continuations)
  <2>1. \A i \in 1 .. Len(q) : q[i] \in DOMAIN continuations
    BY <1>2, <1>3 DEF Range
  <2>2. q \in [1 .. Len(q) -> DOMAIN continuations] /\ Len(q) \in Nat
    BY <2>1
  <2>. QED
    BY <2>2
<1>5. IsInjective(q)
  <2>1. SUFFICES ASSUME NEW i \in DOMAIN q, NEW j \in DOMAIN q, q[i] = q[j] PROVE i = j
    BY DEF IsInjective
  <2>2. i \in Nat /\ j \in Nat /\ q[i] \in Nat /\ q[j] \in Nat
    <3>1. \A k \in DOMAIN q : k \in Nat /\ q[k] \in Ids
      BY <1>1
    <3>2. \A k \in Ids : k \in Nat
      BY DEF Ids
    <3>. QED
      BY <2>1, <3>1, <3>2
  <2>3. (i < j => q[i] < q[j]) /\ (j < i => q[j] < q[i])
    BY <1>1 DEF ListsSound
  <2>. QED
    BY <2>1, <2>2, <2>3
<1>6. ASSUME NEW c \in Range(q) PROVE fate[c] = "waiting" /\ Lists(c) = {s}
  <2>1. s \in Lists(c)
    BY <1>1, <1>6 DEF Lists
  <2>2. ASSUME NEW u \in Lists(c) PROVE u = s
    <3>1. HandleOf(u) = HandleOf(s)
      BY <1>3, <1>6, <2>2 DEF Lists, ListsSound
    <3>. QED
      BY <3>1 DEF HandleOf
  <2>3. Lists(c) = {s}
    BY <2>1, <2>2
  <2>. QED
    BY <1>3, <1>6, <2>3 DEF ListsSound
<1>. QED
  BY <1>1, <1>3, <1>4, <1>5, <1>6

\* The last reference goes, and the continuations with it.
LEMMA ReleaseLast ==
    ASSUME Inv, NEW t, NEW h, NEW later, Lets(t, h, later), FreedBy(records[h.slot])
    PROVE  Inv'
<1>0. /\ t \in Threads /\ h \in Handles /\ later \in Seq(Handles) /\ Names(h)
      /\ Release(t, h, later)
      /\ Cardinality(HeldBy(h)) # 0 \/ Cardinality(DroppedBy(h)) # 0
      /\ held' \in [Threads -> [Handles -> 0 .. MaxHeld]]
      /\ UNCHANGED <<size, ready, stopping, limit, requested, released, shutdown, frames,
                     continuations>>
      /\ shutdown # "down"
  BY DEF Lets
<1>1. TypeOK /\ Countable /\ ReferencesAccounted /\ ListsSound
  BY DEF Inv
<1>H. ASSUME NEW g \in Handles
      PROVE  /\ IsFiniteSet(HeldBy(g)') /\ Cardinality(HeldBy(g)') \in Nat
             /\ Cardinality(HeldBy(g)') + Count(later, g)
                 = Cardinality(HeldBy(g)) + Count(dropping[t], g) - (IF g = h THEN 1 ELSE 0)
  BY DEF Lets
<1>2. PICK s \in Slots : s = h.slot
  BY <1>0 DEF Names
<1>3. /\ Find(h) /\ Live(s) /\ h = HandleOf(s) /\ s \in 1 .. size
      /\ records[s].references = Users(h)
      /\ records[s] \in RecordType /\ records \in [Slots -> RecordType]
  BY <1>0, <1>1, <1>2, RecordFields DEF Names
<1>4. PICK orphans : orphans = records[s].first
  OBVIOUS
<1>5. /\ records' = [records EXCEPT ![s].references = 0, ![s].first = <<>>]
      /\ free' = <<s>> \o free
      /\ dropping' = [dropping EXCEPT ![t] = CapturedBy(orphans) \o later]
      /\ fate' = [c \in DOMAIN fate |-> IF c \in Range(orphans) THEN "orphaned" ELSE fate[c]]
  BY <1>0, <1>2, <1>3, <1>4 DEF Release
<1>6. /\ orphans \in Seq(DOMAIN continuations) /\ IsInjective(orphans)
      /\ \A c \in Range(orphans) : c \in DOMAIN fate /\ fate[c] = "waiting" /\ Lists(c) = {s}
  BY <1>0, <1>1, <1>4, ListOf
<1>7. PICK r \in RecordType :
        /\ records' = [records EXCEPT ![s] = r]
        /\ r.references = 0 /\ r.first = <<>> /\ r.generation = records[s].generation
        /\ r.state = records[s].state /\ r.ready = records[s].ready
  <2>1. PICK q \in RecordType : q = records[s]
    BY <1>0, <1>3
  <2>2. PICK r : r = [q EXCEPT !.references = 0, !.first = <<>>]
    OBVIOUS
  <2>3. /\ r \in RecordType /\ r.references = 0 /\ r.first = <<>>
        /\ r.generation = q.generation /\ r.state = q.state /\ r.ready = q.ready
    <3>1. <<>> \in Seq(Ids)
      OBVIOUS
    <3>. QED
      BY <1>0, <2>1, <2>2, <3>1 DEF RecordType
  <2>4. records' = [records EXCEPT ![s] = r]
    BY <1>0, <1>3, <1>5, <2>1, <2>2
  <2>. QED
    BY <1>0, <2>1, <2>3, <2>4
<1>8. /\ records'[s] = r /\ records' \in [Slots -> RecordType]
      /\ \A u \in Slots : u # s => records'[u] = records[u]
  BY <1>0, <1>3, <1>7
<1>9. Users(h) = 1 /\ Numbers(h)
  BY <1>0, <1>1, <1>2, <1>3, UsersAreNumbers DEF FreedBy
<1>10. ~QueuedWith(h) /\ Cardinality(RoundsOf(h)) = 0
  BY <1>0, <1>9 DEF Users, Numbers
<1>11. s \notin Range(ready) /\ ~records[s].ready
  BY <1>0, <1>2, <1>3, <1>10 DEF QueuedWith, Inv, QueueSound
<1>12. \A u \in Slots : HandleOf(u)' = HandleOf(u)
  BY <1>0, <1>7, <1>8 DEF HandleOf
<1>13. ~Live(s)' /\ \A u \in Slots : u # s => (Live(u)' <=> Live(u))
  BY <1>0, <1>7, <1>8 DEF Live
<1>14. QueueSound'
  BY <1>0, <1>7, <1>8, <1>11, <1>13 DEF Inv, QueueSound
<1>15. FreeSound' /\ free' \in Seq(Slots)
  <2>1. PICK m \in Nat : m = Len(free) /\ DOMAIN free = 1 .. m
    BY <1>0, <1>1 DEF TypeOK
  <2>2. /\ free' \in Seq(Slots) /\ DOMAIN free' = 1 .. (m + 1) /\ free'[1] = s
        /\ \A i \in 1 .. m : free'[i + 1] = free[i]
    <3>1. free \in Seq(Slots) /\ <<s>> \in Seq(Slots) /\ free' = <<s>> \o free
      BY <1>1, <1>5 DEF TypeOK
    <3>. QED
      BY <2>1, <3>1
  <2>3. s \notin Range(free) /\ IsInjective(free)
    BY <1>0, <1>3 DEF Inv, FreeSound, Live
  <2>4. \A i \in 1 .. (m + 1) : i # 1 => i - 1 \in 1 .. m /\ free'[i] = free[i - 1]
    <3>1. SUFFICES ASSUME NEW i \in 1 .. (m + 1), i # 1
                   PROVE  i - 1 \in 1 .. m /\ free'[i] = free[i - 1]
      OBVIOUS
    <3>2. i - 1 \in 1 .. m /\ (i - 1) + 1 = i
      BY <1>0, <3>1
    <3>. QED
      BY <1>0, <2>2, <3>2
  <2>5. \A i \in 1 .. m : free[i] # s
    BY <1>0, <2>1, <2>3 DEF Range
  <2>6. IsInjective(free')
    <3>1. SUFFICES ASSUME NEW i \in 1 .. (m + 1), NEW j \in 1 .. (m + 1), free'[i] = free'[j]
                   PROVE  i = j
      BY <1>0, <2>2 DEF IsInjective
    <3>2. i = 1 <=> j = 1
      BY <1>0, <2>2, <2>4, <2>5, <3>1
    <3>3. i # 1 /\ j # 1 => i - 1 = j - 1
      <4>1. SUFFICES ASSUME i # 1, j # 1 PROVE i - 1 = j - 1
        OBVIOUS
      <4>2. PICK a \in 1 .. m, b \in 1 .. m : a = i - 1 /\ b = j - 1
        BY <2>4, <4>1
      <4>3. free[a] = free[b]
        BY <2>4, <3>1, <4>1, <4>2
      <4>4. a = b
        BY <2>1, <2>3, <4>2, <4>3 DEF IsInjective
      <4>. QED
        BY <4>2, <4>4
    <3>. QED
      BY <1>0, <3>2, <3>3
  <2>7. \A u \in Range(free') : u = s \/ u \in Range(free)
    <3>1. SUFFICES ASSUME NEW u \in Range(free') PROVE u = s \/ u \in Range(free)
      OBVIOUS
    <3>2. PICK i \in 1 .. (m + 1) : u = free'[i]
      BY <2>2 DEF Range
    <3>3. i # 1 => i - 1 \in 1 .. m /\ u = free[i - 1]
      BY <2>4, <3>2
    <3>. QED
      BY <2>1, <2>2, <3>2, <3>3 DEF Range
  <2>8. \A u \in Range(free) : u \in Slots /\ u # s /\ u <= size /\ records[u].references = 0
    <3>1. \A u \in Range(free) : u \in Slots
      BY <1>1 DEF TypeOK, Range
    <3>. QED
      BY <2>3, <3>1 DEF Inv, FreeSound
  <2>9. \A u \in Range(free') : u <= size' /\ records'[u].references = 0
    BY <1>0, <1>3, <1>7, <1>8, <2>7, <2>8 DEF Live
  <2>10. \A u \in Slots : ~Live(u)' => records'[u].first = <<>> /\ ~records'[u].ready
    BY <1>0, <1>7, <1>8, <1>11, <1>13 DEF Inv, FreeSound
  <2>11. \A u \in Slots : Live(u)' => records'[u].generation # 0
    BY <1>0, <1>8, <1>13 DEF Inv, FreeSound
  <2>. QED
    BY <1>0, <2>2, <2>6, <2>9, <2>10, <2>11 DEF FreeSound
<1>16. /\ DOMAIN fate' = DOMAIN fate /\ DOMAIN fate = DOMAIN continuations
       /\ \A c \in DOMAIN fate : fate'[c] = IF c \in Range(orphans) THEN "orphaned" ELSE fate[c]
  BY <1>0, <1>1, <1>5 DEF TypeOK
<1>17. ListsSound'
  <2>1. \A c \in DOMAIN fate : Lists(c)' = Lists(c) \ {s}
    BY <1>0, <1>7, <1>8 DEF Lists, Range
  <2>2. \A c \in DOMAIN fate : s \in Lists(c) <=> c \in Range(orphans)
    BY <1>0, <1>4 DEF Lists
  <2>3. \A c \in DOMAIN fate' : fate'[c] = "waiting" <=> Lists(c)' # {}
    BY <1>0, <1>1, <1>6, <1>16, <2>1, <2>2 DEF ListsSound
  <2>4. \A u \in Slots : records'[u].first = records[u].first \/ records'[u].first = <<>>
    BY <1>0, <1>7, <1>8
  <2>5. \A u \in Slots : \A c \in Range(records'[u].first) :
            c \in DOMAIN fate' /\ continuations'[c].promise = HandleOf(u)'
    <3>1. SUFFICES ASSUME NEW u \in Slots, NEW c \in Range(records'[u].first)
                   PROVE  c \in DOMAIN fate' /\ continuations'[c].promise = HandleOf(u)'
      OBVIOUS
    <3>2. c \in Range(records[u].first)
      BY <2>4, <3>1 DEF Range
    <3>. QED
      BY <1>0, <1>1, <1>12, <1>16, <3>2 DEF ListsSound
  <2>6. \A u \in Slots : \A i, j \in DOMAIN records'[u].first :
            i < j => records'[u].first[i] < records'[u].first[j]
    BY <1>0, <1>1, <2>4, SMTT(30) DEF ListsSound
  <2>. QED
    BY <1>0, <2>3, <2>5, <2>6 DEF ListsSound
<1>18. FramesSound'
  <2>1. \A i \in DOMAIN frames : frames[i].calling # 0 =>
            fate[frames[i].calling] = "called" /\ frames[i].calling \in DOMAIN fate
    BY <1>0 DEF Inv, FramesSound
  <2>2. \A u \in Slots : records'[u].state = records[u].state
    BY <1>0, <1>7, <1>8
  <2>3. \A g \in Handles : g.slot \in Slots
    BY <1>0 DEF Handles
  <2>. QED
    BY <1>0, <1>6, <1>16, <2>1, <2>2, <2>3 DEF Inv, FramesSound
<1>19. ShutdownSound'
  BY <1>0, <1>7, <1>8, <1>13 DEF Inv, ShutdownSound
<1>20. CalledInOrder' /\ NoneLost'
  BY <1>0, <1>16 DEF Inv, CalledInOrder, NoneLost
<1>21. NoLostDispatch'
  BY <1>0 DEF Inv, NoLostDispatch
<1>22. \A g \in Handles :
        /\ CapturedBy(orphans) \in Seq(Handles)
        /\ Count(CapturedBy(orphans), g)
             = Cardinality({c \in Range(orphans) : continuations[c].captured = g})
  BY <1>0, <1>1, <1>6, CapturedByAll
<1>23. PICK q \in Seq(Handles) : q = CapturedBy(orphans) \o later
  <2>1. h \in Handles
    BY <1>0
  <2>. QED
    <3>1. CapturedBy(orphans) \in Seq(Handles) /\ later \in Seq(Handles)
      BY <1>0, <1>22, <2>1
    <3>2. CapturedBy(orphans) \o later \in Seq(Handles)
      BY <3>1
    <3>. QED
      BY <3>2
<1>24. Drops(t, q)
  BY <1>0, <1>5, <1>23 DEF Drops
<1>25. TypeOK'
  <2>1. dropping' \in [Threads -> Seq(Handles)]
    BY <1>0, <1>1, <1>24 DEF TypeOK, Drops
  <2>2. fate' \in [DOMAIN continuations -> Fates]
    BY <1>0, <1>1, <1>5, <1>16 DEF TypeOK, Fates
  <2>. QED
    BY <1>0, <1>1, <1>8, <1>15, <2>1, <2>2 DEF TypeOK, RecordType
<1>26. ASSUME NEW g \in Handles
       PROVE  IsFiniteSet(DroppedBy(g)') /\ Users(g)' = Owned(g)'
  <2>. DEFINE G == {c \in Range(orphans) : continuations[c].captured = g}
  <2>1. Numbers(g) /\ Users(g) = Owned(g)
    BY <1>0, <1>1, UsersAreNumbers DEF ReferencesAccounted, Owned
  <2>2. /\ IsFiniteSet(DroppedBy(g)')
        /\ Cardinality(DroppedBy(g)) \in Nat /\ Cardinality(DroppedBy(g)') \in Nat
        /\ Count(dropping[t], g) \in Nat /\ Count(q, g) \in Nat
        /\ Cardinality(DroppedBy(g)') =
             Cardinality(DroppedBy(g)) + Count(q, g) - Count(dropping[t], g)
    BY <1>0, <1>1, <1>24, DroppedChange
  <2>3. RoundsOf(g)' = RoundsOf(g)
    BY <1>0 DEF RoundsOf
  <2>4. QueuedAs(g)' = QueuedAs(g)
    BY <1>0, <1>1, <1>12, SameQueue
  <2>5. \A c \in DOMAIN continuations : Alive(c)' <=> Alive(c) /\ c \notin Range(orphans)
    <3>1. \A i \in DOMAIN frames : frames[i].calling # 0 => frames[i].calling \notin Range(orphans)
      BY <1>0, <1>6 DEF Inv, FramesSound
    <3>2. 0 \notin DOMAIN continuations
      BY <1>0, <1>1, Entries
    <3>. QED
      BY <1>0, <1>16, <3>1, <3>2 DEF Alive
  <2>6. CapturedIn(g)' = CapturedIn(g) \ G
    BY <1>0, <1>6, <1>16, <2>5 DEF CapturedIn
  <2>7. G \subseteq CapturedIn(g)
    BY <1>0, <1>6, <1>16 DEF CapturedIn, Alive
  <2>8. /\ IsFiniteSet(CapturedIn(g)') /\ IsFiniteSet(G)
        /\ Cardinality(CapturedIn(g)') \in Nat /\ Cardinality(G) \in Nat
        /\ Cardinality(CapturedIn(g)) = Cardinality(CapturedIn(g)') + Cardinality(G)
    <3>. HIDE DEF G
    <3>1. IsFiniteSet(CapturedIn(g) \ G) /\ IsFiniteSet(G)
      BY <1>0, <2>1, <2>7, FS_Subset DEF Numbers
    <3>2. (CapturedIn(g) \ G) \union G = CapturedIn(g) /\ (CapturedIn(g) \ G) \intersect G = {}
      BY <1>0, <2>7
    <3>3. /\ Cardinality(CapturedIn(g) \ G) \in Nat /\ Cardinality(G) \in Nat
          /\ Cardinality(CapturedIn(g)) = Cardinality(CapturedIn(g) \ G) + Cardinality(G)
      BY <1>0, <3>1, <3>2, DisjointUnion
    <3>. QED
      BY <1>0, <2>6, <3>1, <3>3
  <2>9. Count(q, g) = Cardinality(G) + Count(later, g) /\ Count(later, g) \in Nat
    <3>1. Count(CapturedBy(orphans), g) = Cardinality(G)
      BY <1>0, <1>22
    <3>2. PICK p \in Seq(Handles) : p = CapturedBy(orphans)
      BY <1>0, <1>22, <2>1
    <3>3. Count(p \o later, g) = Count(p, g) + Count(later, g)
      BY <1>0, CountConcat
    <3>4. Count(later, g) \in Nat
      BY <1>0, CountType
    <3>. QED
      BY <1>0, <1>23, <3>1, <3>2, <3>3, <3>4
  <2>. HIDE DEF G
  <2>10. Users(g)' = Users(g) - (IF g = h THEN 1 ELSE 0)
    <3>1. PICK a \in Nat, d \in Nat, c \in Nat, k \in Nat, l \in Nat, n \in Nat,
               e \in Nat, f \in Nat :
            /\ e = Cardinality(QueuedAs(g)) /\ f = Cardinality(RoundsOf(g))
            /\ a = Cardinality(HeldBy(g)) /\ d = Cardinality(DroppedBy(g))
            /\ c = Cardinality(CapturedIn(g)') /\ k = Cardinality(G)
            /\ l = Count(later, g) /\ n = Count(dropping[t], g)
      BY <2>1, <2>2, <2>8, <2>9 DEF Numbers
    <3>2. PICK b \in Nat : /\ b = Cardinality(HeldBy(g)')
                           /\ b + l = a + n - (IF g = h THEN 1 ELSE 0)
      BY <1>H, <3>1
    <3>3. /\ Cardinality(DroppedBy(g)') = d + (k + l) - n
          /\ Cardinality(CapturedIn(g)) = c + k
      BY <2>2, <2>8, <2>9, <3>1
    <3>4. Users(g) = a + d + (c + k) + e + f /\ Users(g)' = b + (d + (k + l) - n) + c + e + f
      BY <2>3, <2>4, <3>1, <3>2, <3>3 DEF Users
    <3>5. PICK z \in Nat : z = IF g = h THEN 1 ELSE 0
      OBVIOUS
    <3>6. b + l = a + n - z
      BY <3>2, <3>5
    <3>7. b + (d + (k + l) - n) + c + e + f = a + d + (c + k) + e + f - z
      <4>1. /\ a \in Nat /\ b \in Nat /\ c \in Nat /\ d \in Nat /\ e \in Nat /\ f \in Nat
            /\ k \in Nat /\ l \in Nat /\ n \in Nat /\ z \in Nat
        BY <3>1, <3>2, <3>5
      <4>2. b + (d + (k + l) - n) = (b + l) + (d + k) - n
        BY <4>1
      <4>3. (a + n - z) + (d + k) - n = a + d + k - z
        BY <4>1
      <4>4. b + (d + (k + l) - n) = a + d + k - z
        BY <3>6, <4>2, <4>3
      <4>5. PICK x : x = b + (d + (k + l) - n)
        OBVIOUS
      <4>6. x = a + d + k - z
        BY <4>4, <4>5
      <4>7. x + c + e + f = a + d + (c + k) + e + f - z
        BY <4>1, <4>6
      <4>. QED
        BY <4>5, <4>7
    <3>. QED
      BY <3>4, <3>5, <3>7
  <2>11. /\ Owned(g) \in Nat
         /\ Owned(g)' = Owned(g) + (IF g = h THEN 0 - records[h.slot].references ELSE 0)
    BY <1>0, <1>1, <1>2, <1>7, <1>8, OwnedChange
  <2>. QED
    BY <1>0, <1>2, <1>3, <1>9, <2>1, <2>2, <2>10, <2>11
<1>27. Countable' /\ ReferencesAccounted'
  BY <1>H, <1>26 DEF Countable, ReferencesAccounted, Owned
<1>. QED
  BY <1>0, <1>14, <1>15, <1>17, <1>18, <1>19, <1>20, <1>21, <1>25, <1>27 DEF Inv

\* At the end, references only come and go.
LEMMA LateStep ==
    ASSUME Inv, shutdown = "down",
           UNCHANGED <<limit, records, size, free, ready, stopping, requested, released,
                       shutdown, frames, continuations, fate>>,
           held' \in [Threads -> [Handles -> 0 .. MaxHeld]],
           dropping' \in [Threads -> Seq(Handles)], Countable'
    PROVE  Inv'
<1>1. TypeOK'
  BY DEF Inv, TypeOK
<1>2. \A s : (Live(s)' <=> Live(s)) /\ HandleOf(s)' = HandleOf(s)
  BY DEF Live, HandleOf
<1>3. QueueSound' /\ FreeSound' /\ ListsSound' /\ FramesSound' /\ ShutdownSound'
  BY <1>2 DEF Inv, QueueSound, FreeSound, ListsSound, Lists, FramesSound, ShutdownSound
<1>4. CalledInOrder' /\ NoneLost' /\ ReferencesAccounted' /\ NoLostDispatch'
  BY DEF Inv, CalledInOrder, NoneLost, ReferencesAccounted, NoLostDispatch
<1>. QED
  BY <1>1, <1>3, <1>4 DEF Inv

\* A thread lets a reference go.
LEMMA ForgetStep ==
    ASSUME Inv, NEW t \in Threads, Forget(t)
    PROVE  Inv'
<1>1. PICK h \in Handles :
        /\ held[t][h] > 0 /\ held' = [held EXCEPT ![t][h] = @ - 1] /\ Release(t, h, <<>>)
  BY DEF Forget
<1>2. /\ dropping[t] = <<>>
      /\ UNCHANGED <<size, ready, stopping, limit, requested, released, shutdown, frames,
                     continuations>>
  BY DEF Forget, InModule, host
<1>3. TypeOK /\ Countable /\ ReferencesAccounted
  BY DEF Inv
<1>4. PICK k \in Nat : held[t][h] = k + 1 /\ k <= MaxHeld
  <2>1. held[t][h] \in Nat /\ held[t][h] <= MaxHeld /\ MaxHeld \in Nat
    BY <1>1, <1>3, PromiseAssumption DEF TypeOK
  <2>2. PICK k \in Nat : k = held[t][h] - 1
    BY <1>1, <2>1
  <2>. QED
    BY <2>1, <2>2
<1>5. Holds(t, h, k) /\ held' \in [Threads -> [Handles -> 0 .. MaxHeld]]
  <2>1. held' = [held EXCEPT ![t][h] = k]
    <3>1. held[t][h] - 1 = k
      BY <1>4
    <3>. QED
      BY <1>1, <3>1
  <2>. QED
    <3>1. /\ held \in [Threads -> [Handles -> 0 .. MaxHeld]] /\ k \in 0 .. MaxHeld
          /\ held[t][h] = k + 1
      BY <1>3, <1>4, PromiseAssumption DEF TypeOK
    <3>2. [held[t] EXCEPT ![h] = k] \in [Handles -> 0 .. MaxHeld]
      BY <3>1
    <3>3. held' \in [Threads -> [Handles -> 0 .. MaxHeld]]
      BY <2>1, <3>1, <3>2
    <3>. QED
      BY <2>1, <3>1, <3>3 DEF Holds
<1>6. <<>> \in Seq(Handles)
  OBVIOUS
<1>7. ASSUME NEW g \in Handles
      PROVE  /\ IsFiniteSet(HeldBy(g)') /\ Cardinality(HeldBy(g)') \in Nat
             /\ Cardinality(HeldBy(g)') + Count(<<>>, g)
                 = Cardinality(HeldBy(g)) + Count(dropping[t], g) - (IF g = h THEN 1 ELSE 0)
  <2>1. /\ IsFiniteSet(HeldBy(g)')
        /\ Cardinality(HeldBy(g)) \in Nat /\ Cardinality(HeldBy(g)') \in Nat
        /\ Cardinality(HeldBy(g)') =
             Cardinality(HeldBy(g)) + (IF g = h THEN k - held[t][h] ELSE 0)
    BY <1>3, <1>5, HeldChange
  <2>2. Count(<<>>, g) = 0 /\ Count(dropping[t], g) = 0
    BY <1>2, CountNothing
  <2>. QED
    BY <1>4, <2>1, <2>2
<1>8. CASE shutdown # "down"
  <2>1. Names(h)
    BY <1>1, <1>3, <1>8, HolderNames
  <2>2. Cardinality(HeldBy(h)) # 0
    <3>1. <<t, 1>> \in HeldBy(h)
      BY <1>1, <1>4 DEF HeldBy, Pairs
    <3>. QED
      BY <1>1, <1>3, <3>1, FS_EmptySet DEF Countable
  <2>3. Lets(t, h, <<>>)
    BY <1>1, <1>2, <1>5, <1>6, <1>7, <1>8, <2>1, <2>2 DEF Lets
  <2>. QED
    BY <2>3, ReleaseSome, ReleaseLast
<1>9. CASE shutdown = "down"
  <2>1. ~Find(h)
    BY <1>9, NothingFound DEF Inv
  <2>2. dropping' = [dropping EXCEPT ![t] = <<>>] /\ UNCHANGED <<records, free, fate>>
    BY <1>1, <2>1 DEF Release
  <2>3. dropping' \in [Threads -> Seq(Handles)] /\ dropping' = dropping
    BY <1>2, <1>3, <1>6, <2>2 DEF TypeOK
  <2>4. Countable'
    BY <1>3, <1>7, <2>3 DEF Countable, DroppedBy
  <2>. QED
    BY <1>2, <1>5, <1>9, <2>2, <2>3, <2>4, LateStep
<1>. QED
  BY <1>8, <1>9

\* A closure or a round lets one go.
LEMMA DropStep ==
    ASSUME Inv, NEW t \in Threads, Drop(t)
    PROVE  Inv'
<1>1. /\ dropping[t] # <<>> /\ Release(t, Head(dropping[t]), Tail(dropping[t]))
      /\ UNCHANGED <<size, ready, stopping, limit, requested, released, shutdown, frames,
                     held, continuations>>
  BY DEF Drop, host
<1>2. TypeOK /\ Countable /\ ReferencesAccounted
  BY DEF Inv
<1>3. PICK h \in Handles, later \in Seq(Handles) :
        h = Head(dropping[t]) /\ later = Tail(dropping[t])
  BY <1>1, <1>2, DropperNames
<1>4. dropping[t] \in Seq(Handles)
  BY <1>2 DEF TypeOK
<1>5. ASSUME NEW g \in Handles
      PROVE  /\ IsFiniteSet(HeldBy(g)') /\ Cardinality(HeldBy(g)') \in Nat
             /\ Cardinality(HeldBy(g)') + Count(later, g)
                 = Cardinality(HeldBy(g)) + Count(dropping[t], g) - (IF g = h THEN 1 ELSE 0)
  <2>1. HeldBy(g)' = HeldBy(g)
    BY <1>1 DEF HeldBy
  <2>2. IsFiniteSet(HeldBy(g)) /\ Cardinality(HeldBy(g)) \in Nat
    BY <1>2, FS_CardinalityType DEF Countable
  <2>3. Count(dropping[t], g) = Count(later, g) + IF g = h THEN 1 ELSE 0
    BY <1>1, <1>3, <1>4, CountHead
  <2>4. Count(later, g) \in Nat
    BY <1>3, CountType
  <2>. QED
    BY <2>1, <2>2, <2>3, <2>4
<1>6. held' \in [Threads -> [Handles -> 0 .. MaxHeld]]
  BY <1>1, <1>2 DEF TypeOK
<1>7. CASE shutdown # "down"
  <2>1. Names(h)
    BY <1>1, <1>2, <1>3, <1>7, DropperNames
  <2>2. Cardinality(DroppedBy(h)) # 0
    <3>1. 1 \in DOMAIN dropping[t] /\ dropping[t][1] = h
      BY <1>1, <1>3, <1>4
    <3>2. <<t, 1>> \in DroppedBy(h)
      BY <3>1 DEF DroppedBy, Pairs
    <3>. QED
      BY <1>2, <1>3, <3>2, FS_EmptySet DEF Countable
  <2>3. Lets(t, h, later)
    BY <1>1, <1>3, <1>5, <1>6, <1>7, <2>1, <2>2 DEF Lets
  <2>. QED
    BY <2>3, ReleaseSome, ReleaseLast
<1>8. CASE shutdown = "down"
  <2>1. ~Find(h)
    BY <1>8, NothingFound DEF Inv
  <2>2. dropping' = [dropping EXCEPT ![t] = later] /\ UNCHANGED <<records, free, fate>>
    BY <1>1, <1>3, <2>1 DEF Release
  <2>3. dropping' \in [Threads -> Seq(Handles)]
    BY <1>2, <1>3, <2>2 DEF TypeOK
  <2>4. Countable'
    <3>1. Drops(t, later)
      BY <1>3, <2>2 DEF Drops
    <3>2. \A g \in Handles : IsFiniteSet(DroppedBy(g)')
      BY <1>2, <3>1, DroppedChange
    <3>. QED
      BY <1>5, <3>2 DEF Countable
  <2>. QED
    BY <1>1, <1>6, <1>8, <2>2, <2>3, <2>4, LateStep
<1>. QED
  BY <1>7, <1>8

-----------------------------------------------------------------------------
(* A promise is created.                                                     *)

\* The bound on creations bounds every generation.
LEMMA CreationsBound ==
    ASSUME TypeOK, NEW s \in Slots, Cardinality(Creations) < MaxCreates
    PROVE  records[s].generation < MaxCreates
<1>1. MaxRecords \in Nat /\ MaxCreates \in Nat
  BY PromiseAssumption
<1>2. PICK n \in 0 .. MaxCreates : n = records[s].generation
  BY RecordFields
<1>3. PairsOf(s, 1 .. n) \subseteq Creations
  BY <1>1, <1>2 DEF PairsOf, Creations
<1>4. IsFiniteSet(Creations)
  <2>1. IsFiniteSet(1 .. MaxRecords) /\ IsFiniteSet(1 .. MaxCreates)
    BY <1>1, FS_Interval
  <2>2. IsFiniteSet(Slots \X (1 .. MaxCreates))
    BY <2>1, FS_Product DEF Slots
  <2>. QED
    BY <2>2, FS_Subset DEF Creations
<1>5. /\ IsFiniteSet(1 .. n) /\ Cardinality(1 .. n) = n
  <2>1. \A k \in Nat : IsFiniteSet(1 .. k) /\ Cardinality(1 .. k) = k
    BY FS_Interval
  <2>. QED
    BY <1>1, <1>2, <2>1
<1>6. Cardinality(PairsOf(s, 1 .. n)) = n
  BY <1>5, PairsOfFinite
<1>7. n <= Cardinality(Creations) /\ Cardinality(Creations) \in Nat
  BY <1>3, <1>4, <1>6, FS_Subset, FS_CardinalityType
<1>. QED
  BY <1>1, <1>2, <1>7

\* The record a new promise gets.
LEMMA Fresh ==
    ASSUME Inv, NEW s \in Slots, s = Reusable
    PROVE  /\ ~Live(s) /\ records[s].first = <<>> /\ s \notin Range(ready)
           /\ \A i \in DOMAIN frames : frames[i].calling # 0 /\ shutdown # "down" =>
                frames[i].handle \in Handles /\ frames[i].handle.slot # s
           /\ shutdown # "down" => \A g \in Handles : g.slot = s => Users(g) = 0
<1>1. TypeOK /\ Countable /\ ReferencesAccounted /\ FramesSound
  BY DEF Inv
<1>2. ~Live(s)
  <2>1. CASE free # <<>>
    <3>1. s \in Range(free)
      <4>1. free \in Seq(Slots)
        BY <1>1 DEF TypeOK
      <4>2. 1 \in DOMAIN free /\ free[1] = s
        BY <2>1, <4>1 DEF Reusable
      <4>. QED
        BY <4>2 DEF Range
    <3>. QED
      BY <3>1 DEF Inv, FreeSound, Live
  <2>2. CASE free = <<>>
    <3>1. s = size + 1 /\ size \in Nat
      BY <1>1, <2>2, PromiseAssumption DEF Reusable, TypeOK
    <3>. QED
      BY <3>1 DEF Live
  <2>. QED
    BY <2>1, <2>2
<1>3. records[s].first = <<>>
  BY <1>2 DEF Inv, FreeSound
<1>4. s \notin Range(ready)
  BY <1>2 DEF Inv, QueueSound
<1>5. ASSUME NEW i \in DOMAIN frames, frames[i].calling # 0, shutdown # "down"
      PROVE  frames[i].handle \in Handles /\ frames[i].handle.slot # s
  BY <1>1, <1>2, <1>5, CallerNames DEF Names
<1>6. ASSUME NEW g \in Handles, g.slot = s, shutdown # "down" PROVE Users(g) = 0
  BY <1>1, <1>2, <1>6 DEF ReferencesAccounted
<1>. QED
  BY <1>2, <1>3, <1>4, <1>5, <1>6

\* A promise is created.
LEMMA CreateStep ==
    ASSUME Inv, NEW t \in Threads, Create(t)
    PROVE  Inv'
<1>1. PICK s \in Slots :
        /\ s = Reusable /\ Cardinality(Creations) < MaxCreates
        /\ records' = [records EXCEPT ![s] = Created(s)]
        /\ size' = IF free # <<>> THEN size ELSE s
        /\ free' = IF free # <<>> THEN Tail(free) ELSE free
        /\ held' = [held EXCEPT ![t][HandleOf(s)'] = @ + 1]
  BY DEF Create
<1>2. /\ ~stopping
      /\ UNCHANGED <<ready, stopping, limit, requested, released, shutdown, frames, dropping,
                     continuations, fate>>
  BY DEF Create, host
<1>3. TypeOK /\ Countable /\ ReferencesAccounted /\ shutdown # "down"
  BY <1>2 DEF Inv, ShutdownSound
<1>4. /\ ~Live(s) /\ records[s].first = <<>> /\ s \notin Range(ready)
      /\ \A i \in DOMAIN frames : frames[i].calling # 0 =>
            frames[i].handle \in Handles /\ frames[i].handle.slot # s
      /\ \A g \in Handles : g.slot = s => Users(g) = 0
  BY <1>1, <1>3, Fresh
<1>5. PICK n \in 1 .. MaxCreates : n = records[s].generation + 1
  <2>1. records[s].generation < MaxCreates /\ records[s].generation \in Nat /\ MaxCreates \in Nat
    BY <1>1, <1>3, CreationsBound, RecordFields, PromiseAssumption
  <2>2. records[s].generation + 1 \in 1 .. MaxCreates
    BY <2>1
  <2>. QED
    BY <2>2
<1>6. PICK r \in RecordType :
        /\ r = Created(s) /\ r.generation = n /\ r.references = 1 /\ r.state = "Pending"
        /\ r.first = <<>> /\ ~r.ready
  <2>1. PICK b \in RecordType : b = Blank /\ b.state = "Pending" /\ b.first = <<>> /\ ~b.ready
    <3>1. <<>> \in Seq(Ids) /\ 0 \in Nat /\ 0 \in 0 .. MaxCreates
      BY PromiseAssumption
    <3>2. Blank \in RecordType
      BY <3>1 DEF Blank, RecordType
    <3>3. Blank.state = "Pending" /\ Blank.first = <<>> /\ ~Blank.ready
      BY DEF Blank
    <3>. QED
      BY <3>2, <3>3
  <2>2. PICK r : r = [b EXCEPT !.generation = n, !.references = 1]
    OBVIOUS
  <2>3. /\ r \in RecordType /\ r.generation = n /\ r.references = 1
        /\ r.state = b.state /\ r.first = b.first /\ r.ready = b.ready
    <3>1. n \in 0 .. MaxCreates
      BY <1>5
    <3>. QED
      BY <2>1, <2>2, <3>1 DEF RecordType
  <2>4. r = Created(s)
    BY <1>5, <2>1, <2>2 DEF Created
  <2>. QED
    BY <2>1, <2>3, <2>4
<1>7. /\ records'[s] = r /\ records' \in [Slots -> RecordType]
      /\ \A u \in Slots : u # s => records'[u] = records[u]
  BY <1>1, <1>3, <1>6, RecordFields
<1>8. PICK h \in Handles : h = HandleOf(s)' /\ h.slot = s /\ h.generation = n
  BY <1>1, <1>5, <1>6, <1>7 DEF HandleOf, Handles
<1>9. /\ size' \in 0 .. MaxRecords /\ s <= size'
      /\ \A u \in Slots : u # s => (u <= size' <=> u <= size)
  <2>1. size \in 0 .. MaxRecords /\ MaxRecords \in Nat
    BY <1>3, PromiseAssumption DEF TypeOK
  <2>2. CASE free # <<>>
    <3>1. free \in Seq(Slots)
      BY <1>3 DEF TypeOK
    <3>2. 1 \in DOMAIN free /\ free[1] = s
      BY <1>1, <2>2, <3>1 DEF Reusable
    <3>3. s \in Range(free)
      BY <3>2 DEF Range
    <3>4. s <= size
      BY <3>3 DEF Inv, FreeSound
    <3>. QED
      BY <1>1, <2>1, <2>2, <3>4
  <2>3. CASE free = <<>>
    <3>1. s = size + 1 /\ size' = s
      BY <1>1, <2>3 DEF Reusable
    <3>2. \A u \in Slots : u \in Nat
      BY DEF Slots
    <3>. QED
      BY <1>1, <2>1, <3>1, <3>2 DEF Slots
  <2>. QED
    BY <2>2, <2>3
<1>10. /\ Live(s)' /\ \A u \in Slots : u # s => (Live(u)' <=> Live(u))
       /\ \A u \in Slots : u # s => HandleOf(u)' = HandleOf(u)
  BY <1>6, <1>7, <1>9 DEF Live, HandleOf
<1>11. held[t][h] = 0
  <2>1. held[t][h] \in Nat
    BY <1>3, <1>8 DEF TypeOK
  <2>2. ~(held[t][h] > 0)
    BY <1>3, <1>4, <1>8, HolderNames DEF Names
  <2>. QED
    BY <2>1, <2>2
<1>12. Holds(t, h, 1) /\ held' \in [Threads -> [Handles -> 0 .. MaxHeld]]
  <2>1. held' = [held EXCEPT ![t][h] = 1]
    BY <1>1, <1>8, <1>11
  <2>2. 1 \in 0 .. MaxHeld
    BY PromiseAssumption
  <2>. QED
    BY <1>3, <1>8, <2>1, <2>2 DEF Holds, TypeOK
<1>13. FreeSound' /\ free' \in Seq(Slots)
  <2>1. free \in Seq(Slots) /\ IsInjective(free)
    BY <1>3 DEF TypeOK, Inv, FreeSound
  <2>2. \A u \in Slots : ~Live(u)' => records'[u].first = <<>> /\ ~records'[u].ready
    BY <1>7, <1>10 DEF Inv, FreeSound
  <2>0. \A u \in Slots : Live(u)' => records'[u].generation # 0
    <3>1. n # 0
      BY <1>5
    <3>. QED
      BY <1>6, <1>7, <1>10, <3>1 DEF Inv, FreeSound
  <2>3. CASE free = <<>>
    <3>1. free' = free /\ Range(free) = {}
      BY <1>1, <2>3 DEF Range
    <3>. QED
      BY <2>0, <2>1, <2>2, <3>1 DEF FreeSound
  <2>4. CASE free # <<>>
    <3>1. PICK m \in Nat : m = Len(free) /\ m # 0 /\ DOMAIN free = 1 .. m
      BY <2>1, <2>4
    <3>2. /\ free' \in Seq(Slots) /\ DOMAIN free' = 1 .. (m - 1) /\ free[1] = s
          /\ \A i \in 1 .. (m - 1) : free'[i] = free[i + 1]
      BY <1>1, <2>1, <2>4, <3>1 DEF Reusable
    <3>3. \A i \in 1 .. (m - 1) : i + 1 \in 1 .. m
      BY <3>1
    <3>4. IsInjective(free')
      <4>1. SUFFICES ASSUME NEW i \in 1 .. (m - 1), NEW j \in 1 .. (m - 1), free'[i] = free'[j]
                     PROVE  i = j
        BY <3>2 DEF IsInjective
      <4>2. i + 1 = j + 1
        BY <2>1, <3>1, <3>2, <3>3, <4>1 DEF IsInjective
      <4>. QED
        BY <4>2
    <3>5. \A u \in Range(free') : u \in Range(free) /\ u # s
      <4>1. SUFFICES ASSUME NEW i \in 1 .. (m - 1)
                     PROVE  free'[i] \in Range(free) /\ free'[i] # s
        BY <3>2 DEF Range
      <4>2. free'[i] \in Range(free)
        BY <3>1, <3>2, <3>3, <4>1 DEF Range
      <4>3. free[i + 1] # free[1]
        <5>1. i + 1 # 1 /\ 1 \in 1 .. m /\ i + 1 \in 1 .. m
          BY <3>1, <3>3, <4>1
        <5>. QED
          BY <2>1, <3>1, <5>1 DEF IsInjective
      <4>. QED
        BY <3>2, <4>1, <4>2, <4>3
    <3>6. \A u \in Range(free) : u \in Slots
      BY <2>1 DEF Range
    <3>7. \A u \in Range(free') : u <= size' /\ records'[u].references = 0
      BY <1>7, <1>9, <3>5, <3>6 DEF Inv, FreeSound
    <3>. QED
      BY <2>0, <2>2, <3>2, <3>4, <3>7 DEF FreeSound
  <2>. QED
    BY <2>3, <2>4
<1>14. TypeOK'
  BY <1>2, <1>3, <1>7, <1>9, <1>12, <1>13 DEF TypeOK, RecordType
<1>15. QueueSound'
  BY <1>2, <1>4, <1>6, <1>7, <1>10 DEF Inv, QueueSound
<1>16. ListsSound'
  <2>1. \A u \in Slots : records'[u].first = records[u].first
    BY <1>4, <1>6, <1>7
  <2>2. Range(records[s].first) = {}
    BY <1>4 DEF Range
  <2>. QED
    BY <1>2, <1>10, <2>1, <2>2 DEF Inv, ListsSound, Lists
<1>17. FramesSound'
  <2>1. \A g \in Handles : g.slot \in Slots
    BY DEF Handles
  <2>. QED
    BY <1>2, <1>4, <1>7, <2>1 DEF Inv, FramesSound
<1>18. ShutdownSound'
  BY <1>2, <1>3 DEF Inv, ShutdownSound
<1>19. CalledInOrder' /\ NoneLost' /\ NoLostDispatch'
  BY <1>2 DEF Inv, CalledInOrder, NoneLost, NoLostDispatch
<1>20. ASSUME NEW g \in Handles
       PROVE  /\ IsFiniteSet(HeldBy(g)') /\ IsFiniteSet(DroppedBy(g)')
              /\ Users(g)' = Owned(g)'
  <2>1. Numbers(g) /\ Users(g) = Owned(g)
    BY <1>3, UsersAreNumbers DEF ReferencesAccounted, Owned
  <2>2. /\ IsFiniteSet(HeldBy(g)')
        /\ Cardinality(HeldBy(g)') = Cardinality(HeldBy(g)) + (IF g = h THEN 1 - 0 ELSE 0)
    BY <1>3, <1>11, <1>12, HeldChange
  <2>3. DroppedBy(g)' = DroppedBy(g)
    BY <1>2 DEF DroppedBy
  <2>4. CapturedIn(g)' = CapturedIn(g) /\ RoundsOf(g)' = RoundsOf(g)
    BY <1>2, SameClosures
  <2>5. QueuedAs(g)' = QueuedAs(g)
    <3>1. \A u \in Range(ready) : u \in Slots
      BY <1>3 DEF TypeOK, Range
    <3>. QED
      BY <1>2, <1>4, <1>10, <3>1 DEF QueuedAs
  <2>6. Users(g)' = Users(g) + (IF g = h THEN 1 ELSE 0)
    BY <2>1, <2>2, <2>3, <2>4, <2>5 DEF Users, Numbers
  <2>7. g.slot \in Slots
    BY DEF Handles
  <2>8. CASE g.slot # s
    <3>1. Owned(g)' = Owned(g)
      BY <1>7, <1>10, <2>7, <2>8 DEF Owned
    <3>. QED
      BY <1>3, <1>8, <2>1, <2>2, <2>3, <2>6, <2>8, <3>1 DEF Numbers, Countable
  <2>9. CASE g.slot = s
    <3>1. Users(g) = 0
      BY <1>4, <2>9
    <3>2. g = HandleOf(s)' <=> g = h
      BY <1>8
    <3>3. Owned(g)' = IF g = h THEN 1 ELSE 0
      BY <1>6, <1>7, <1>10, <2>9, <3>2 DEF Owned
    <3>. QED
      BY <1>3, <2>2, <2>3, <2>6, <3>1, <3>3 DEF Countable
  <2>. QED
    BY <2>8, <2>9
<1>21. Countable' /\ ReferencesAccounted'
  BY <1>20 DEF Countable, ReferencesAccounted, Owned
<1>. QED
  BY <1>13, <1>14, <1>15, <1>16, <1>17, <1>18, <1>19, <1>21 DEF Inv

-----------------------------------------------------------------------------
(* Continuations that are removed or have been called.                       *)

\* A list in the order of registration.
Ordered(q) == \A i, j \in DOMAIN q : i < j => q[i] < q[j]

\* The list f is q without c.
Lacking(f, q, c) == f = Filter(q, LAMBDA d : d # c)

\* It is as ordered as q.
LEMMA Without ==
    ASSUME NEW q \in Seq(Ids), Ordered(q), NEW c, NEW f, Lacking(f, q, c)
    PROVE  f \in Seq(Ids) /\ Range(f) = Range(q) \ {c} /\ Ordered(f)
<1>. DEFINE K == {i \in 1 .. Len(q) : q[i] # c}
<1>1. f = Picked(q, K)
  BY DEF Filter, Lacking
<1>2. K \in SUBSET (1 .. Len(q))
  OBVIOUS
<1>3. PICK m \in Nat : m = Cardinality(K)
  <2>. HIDE DEF K
  <2>1. Cardinality(K) \in 0 .. Len(q)
    BY <1>2, PickedOf
  <2>. QED
    BY <2>1
<1>4. /\ f \in Seq(Ids) /\ DOMAIN f = 1 .. m
      /\ \A i \in 1 .. m : Nth(K, i) \in K /\ f[i] = q[Nth(K, i)]
      /\ \A i, j \in 1 .. m : i < j => Nth(K, i) < Nth(K, j)
  <2>. HIDE DEF K
  <2>1. /\ Picked(q, K) \in Seq(Ids) /\ Len(Picked(q, K)) = Cardinality(K)
        /\ \A i \in 1 .. Cardinality(K) : Nth(K, i) \in K /\ Picked(q, K)[i] = q[Nth(K, i)]
        /\ \A i, j \in 1 .. Cardinality(K) : i < j => Nth(K, i) < Nth(K, j)
    BY <1>2, PickedOf
  <2>2. f \in Seq(Ids) /\ Len(f) = m
    BY <1>1, <1>3, <2>1
  <2>3. DOMAIN f = 1 .. m
    BY <2>2
  <2>. QED
    BY <1>1, <1>3, <2>1, <2>2, <2>3
<1>5. Ordered(f)
  <2>1. SUFFICES ASSUME NEW i \in 1 .. m, NEW j \in 1 .. m, i < j PROVE f[i] < f[j]
    BY <1>4 DEF Ordered
  <2>2. PICK a \in DOMAIN q, b \in DOMAIN q : a = Nth(K, i) /\ b = Nth(K, j) /\ a < b
    <3>. HIDE DEF K
    <3>1. DOMAIN q = 1 .. Len(q)
      OBVIOUS
    <3>2. Nth(K, i) \in 1 .. Len(q) /\ Nth(K, j) \in 1 .. Len(q) /\ Nth(K, i) < Nth(K, j)
      BY <1>2, <1>4, <2>1
    <3>. QED
      BY <3>1, <3>2
  <2>3. f[i] = q[a] /\ f[j] = q[b] /\ q[a] < q[b]
    BY <1>4, <2>1, <2>2 DEF Ordered
  <2>. QED
    BY <2>3
<1>6. Range(f) = Range(q) \ {c}
  <2>1. {Picked(q, K)[i] : i \in 1 .. Len(Picked(q, K))} = {q[k] : k \in K}
    <3>. HIDE DEF K
    <3>. QED
      BY <1>2, PickedRange
  <2>2. Range(f) = {f[i] : i \in 1 .. Len(f)}
    <3>1. DOMAIN f = 1 .. Len(f)
      BY <1>4
    <3>. QED
      BY <3>1 DEF Range
  <2>3. Range(q) \ {c} = {q[k] : k \in K}
    BY DEF Range
  <2>. QED
    BY <1>1, <2>1, <2>2, <2>3
<1>. QED
  BY <1>4, <1>5, <1>6

\* A continuation is removed.
LEMMA DetachStep ==
    ASSUME Inv, NEW t \in Threads, Detach(t)
    PROVE  Inv'
<1>1. PICK h \in Handles, c \in Ids :
        /\ held[t][h] > 0 /\ Find(h) /\ c \in Range(records[h.slot].first)
        /\ records' = [records EXCEPT ![h.slot].first = Filter(@, LAMBDA d : d # c)]
        /\ fate' = [fate EXCEPT ![c] = "removed"]
        /\ dropping' = [dropping EXCEPT ![t] = Captured(c)]
  BY DEF Detach
<1>2. /\ dropping[t] = <<>>
      /\ UNCHANGED <<size, free, ready, stopping, limit, requested, released, shutdown, frames,
                     held, continuations>>
  BY DEF Detach, InModule, host
<1>3. TypeOK /\ Countable /\ ReferencesAccounted /\ ListsSound
  BY DEF Inv
<1>4. shutdown # "down"
  BY <1>1, NothingFound DEF Inv
<1>5. Names(h)
  BY <1>1, <1>3, <1>4, HolderNames
<1>6. PICK s \in Slots : s = h.slot /\ Live(s) /\ h = HandleOf(s)
  BY <1>5 DEF Names
<1>7. PICK q \in RecordType : q = records[s] /\ records \in [Slots -> RecordType]
  BY <1>3, RecordFields
<1>8. PICK f : f = Filter(q.first, LAMBDA d : d # c)
  OBVIOUS
<1>9. /\ q.first \in Seq(Ids) /\ f \in Seq(Ids) /\ Range(f) = Range(q.first) \ {c}
      /\ Ordered(f)
  <2>1. q.first \in Seq(Ids)
    BY DEF RecordType
  <2>2. PICK l \in Seq(Ids) : l = q.first /\ Ordered(l)
    BY <1>3, <1>7, <2>1 DEF ListsSound, Ordered
  <2>3. Lacking(f, l, c)
    BY <1>8, <2>2 DEF Lacking
  <2>4. f \in Seq(Ids) /\ Range(f) = Range(l) \ {c} /\ Ordered(f)
    BY <2>2, <2>3, Without
  <2>. QED
    BY <2>1, <2>2, <2>4
<1>10. PICK r \in RecordType :
        /\ records' = [records EXCEPT ![s] = r]
        /\ r.first = f /\ r.references = q.references /\ r.generation = q.generation
        /\ r.state = q.state /\ r.ready = q.ready
  <2>1. PICK r : r = [q EXCEPT !.first = f]
    OBVIOUS
  <2>2. /\ r \in RecordType /\ r.first = f /\ r.references = q.references
        /\ r.generation = q.generation /\ r.state = q.state /\ r.ready = q.ready
    BY <1>7, <1>9, <2>1 DEF RecordType
  <2>3. records' = [records EXCEPT ![s] = r]
    BY <1>1, <1>6, <1>7, <1>8, <2>1
  <2>. QED
    BY <2>2, <2>3
<1>11. /\ records'[s] = r /\ records' \in [Slots -> RecordType]
       /\ \A u \in Slots : u # s => records'[u] = records[u]
  BY <1>7, <1>10
<1>12. \A u \in Slots : /\ HandleOf(u)' = HandleOf(u) /\ (Live(u)' <=> Live(u))
                        /\ records'[u].state = records[u].state
                        /\ records'[u].ready = records[u].ready
  BY <1>2, <1>7, <1>10, <1>11 DEF HandleOf, Live
<1>13. c \in Range(q.first) /\ c \in DOMAIN fate /\ fate[c] = "waiting" /\ Lists(c) = {s}
  BY <1>1, <1>3, <1>6, <1>7, ListOf
<1>14. /\ DOMAIN fate' = DOMAIN fate /\ DOMAIN fate = DOMAIN continuations
       /\ fate'[c] = "removed" /\ \A d \in DOMAIN fate : d # c => fate'[d] = fate[d]
  BY <1>1, <1>3, <1>13 DEF TypeOK
<1>15. q.first # <<>>
  BY <1>13 DEF Range
<1>16. QueueSound'
  BY <1>2, <1>7, <1>10, <1>11, <1>12, <1>15 DEF Inv, QueueSound
<1>17. FreeSound'
  <2>1. \A u \in Range(free) : u \in Slots
    BY <1>3 DEF TypeOK, Range
  <2>. QED
    BY <1>2, <1>6, <1>7, <1>10, <1>11, <1>12, <2>1 DEF Inv, FreeSound
<1>18. ListsSound'
  <2>1. \A d : Lists(d)' = IF d = c THEN {} ELSE Lists(d)
    <3>1. \A u \in Slots : u # s => c \notin Range(records[u].first)
      BY <1>13 DEF Lists
    <3>2. \A u \in Slots : \A d : d \in Range(records'[u].first)
                                <=> d # c /\ d \in Range(records[u].first)
      BY <1>7, <1>9, <1>10, <1>11, <3>1
    <3>. QED
      BY <3>2 DEF Lists
  <2>2. \A d \in DOMAIN fate' : fate'[d] = "waiting" <=> Lists(d)' # {}
    BY <1>3, <1>14, <2>1 DEF ListsSound
  <2>3. \A u \in Slots : Range(records'[u].first) \subseteq Range(records[u].first)
    BY <1>7, <1>9, <1>10, <1>11
  <2>4. \A u \in Slots : \A d \in Range(records'[u].first) :
            d \in DOMAIN fate' /\ continuations'[d].promise = HandleOf(u)'
    BY <1>2, <1>3, <1>12, <1>14, <2>3 DEF ListsSound
  <2>5. \A u \in Slots : \A i, j \in DOMAIN records'[u].first :
            i < j => records'[u].first[i] < records'[u].first[j]
    BY <1>3, <1>9, <1>10, <1>11 DEF ListsSound, Ordered
  <2>. QED
    BY <2>2, <2>4, <2>5 DEF ListsSound
<1>19. FramesSound'
  <2>1. \A g \in Handles : g.slot \in Slots
    BY DEF Handles
  <2>. QED
    BY <1>2, <1>12, <1>13, <1>14, <2>1 DEF Inv, FramesSound
<1>20. ShutdownSound'
  BY <1>2, <1>4, <1>12 DEF Inv, ShutdownSound
<1>21. CalledInOrder' /\ NoneLost' /\ NoLostDispatch'
  BY <1>2, <1>14 DEF Inv, CalledInOrder, NoneLost, NoLostDispatch
<1>22. Captured(c) \in Seq(Handles) /\ \A g \in Handles :
            Count(Captured(c), g) = IF continuations[c].captured = g THEN 1 ELSE 0
  BY <1>3, <1>13, <1>14, CapturedOne
<1>23. Drops(t, Captured(c))
  BY <1>1, <1>22 DEF Drops
<1>24. TypeOK'
  <2>1. dropping' \in [Threads -> Seq(Handles)]
    BY <1>3, <1>23 DEF TypeOK, Drops
  <2>2. fate' \in [DOMAIN continuations -> Fates]
    BY <1>1, <1>3 DEF TypeOK, Fates
  <2>. QED
    BY <1>2, <1>3, <1>11, <2>1, <2>2 DEF TypeOK, RecordType
<1>25. ASSUME NEW g \in Handles
       PROVE  /\ IsFiniteSet(HeldBy(g)') /\ IsFiniteSet(DroppedBy(g)')
              /\ Users(g)' = Owned(g)'
  <2>1. Numbers(g) /\ Users(g) = Owned(g)
    BY <1>3, <1>4, UsersAreNumbers DEF ReferencesAccounted, Owned
  <2>2. /\ IsFiniteSet(DroppedBy(g)')
        /\ Cardinality(DroppedBy(g)) \in Nat /\ Cardinality(DroppedBy(g)') \in Nat
        /\ Cardinality(DroppedBy(g)') =
             Cardinality(DroppedBy(g)) + Count(Captured(c), g) - Count(dropping[t], g)
    BY <1>3, <1>23, DroppedChange
  <2>3. Count(dropping[t], g) = 0
    BY <1>2, CountNothing
  <2>4. Cardinality(DroppedBy(g)') = Cardinality(DroppedBy(g))
            + IF continuations[c].captured = g THEN 1 ELSE 0
    <3>1. Count(Captured(c), g) = IF continuations[c].captured = g THEN 1 ELSE 0
      BY <1>22
    <3>. QED
      BY <2>2, <2>3, <3>1
  <2>5. HeldBy(g)' = HeldBy(g) /\ RoundsOf(g)' = RoundsOf(g)
    BY <1>2 DEF HeldBy, RoundsOf
  <2>6. QueuedAs(g)' = QueuedAs(g)
    BY <1>2, <1>3, <1>12, SameQueue
  <2>7. Cardinality(CapturedIn(g)') = Cardinality(CapturedIn(g))
            - IF continuations[c].captured = g THEN 1 ELSE 0
    <3>1. \A d \in DOMAIN continuations : Alive(d)' <=> Alive(d) /\ d # c
      <4>1. \A i \in DOMAIN frames : frames[i].calling # 0 => frames[i].calling # c
        BY <1>13 DEF Inv, FramesSound
      <4>2. c # 0
        BY <1>1 DEF Ids
      <4>. QED
        BY <1>2, <1>14, <4>1, <4>2 DEF Alive
    <3>2. CapturedIn(g)' = CapturedIn(g) \ {c}
      BY <1>2, <3>1 DEF CapturedIn
    <3>3. c \in CapturedIn(g) <=> continuations[c].captured = g
      BY <1>13, <1>14 DEF CapturedIn, Alive
    <3>4. Cardinality(CapturedIn(g) \ {c}) = Cardinality(CapturedIn(g))
            - IF c \in CapturedIn(g) THEN 1 ELSE 0
      BY <2>1, OneLess DEF Numbers
    <3>. QED
      BY <3>2, <3>3, <3>4
  <2>8. Users(g)' = Users(g)
    BY <2>1, <2>4, <2>5, <2>6, <2>7 DEF Users, Numbers
  <2>9. q.references \in Nat
    BY DEF RecordType
  <2>10. /\ Owned(g) \in Nat
         /\ Owned(g)' = Owned(g)
                + (IF g = h THEN q.references - records[h.slot].references ELSE 0)
    BY <1>2, <1>3, <1>5, <1>6, <1>7, <1>10, <1>11, <2>9, OwnedChange
  <2>11. Owned(g)' = Owned(g)
    <3>1. records[h.slot].references = q.references
      BY <1>6, <1>7
    <3>2. q.references - q.references = 0
      BY <2>9
    <3>. QED
      BY <2>10, <3>1, <3>2
  <2>. QED
    BY <1>3, <2>1, <2>2, <2>5, <2>8, <2>11 DEF Countable
<1>26. Countable' /\ ReferencesAccounted'
  BY <1>25 DEF Countable, ReferencesAccounted, Owned
<1>. QED
  BY <1>16, <1>17, <1>18, <1>19, <1>20, <1>21, <1>24, <1>26 DEF Inv

\* A continuation returns, and its closure and the round's reference go.
LEMMA ReturnStep ==
    ASSUME Inv, Return
    PROVE  Inv'
<1>1. PICK c, h, frame :
        /\ c = Top.calling /\ h = Top.handle /\ frame = [Loop EXCEPT !.round = Top.round + 1]
        /\ frames # <<>> /\ c # 0 /\ dropping[Main] = <<>>
        /\ dropping' = [dropping EXCEPT ![Main] = Captured(c) \o <<h>>]
        /\ frames' = [frames EXCEPT ![Len(frames)] = frame]
  BY DEF Return, SetTop
<1>2. UNCHANGED <<limit, records, size, free, ready, stopping, requested, released, shutdown,
                  held, continuations, fate>>
  BY DEF Return, host, tables
<1>3. TypeOK /\ Countable /\ ReferencesAccounted /\ FramesSound /\ shutdown # "down"
  BY <1>1 DEF Inv, ShutdownSound
<1>4. PICK n \in Nat : n = Len(frames) /\ n # 0 /\ DOMAIN frames = 1 .. n /\ Top = frames[n]
  BY <1>1, <1>3, Entries DEF Top
<1>5. /\ frames[n].round < limit /\ c \in DOMAIN fate /\ fate[c] = "called" /\ h \in Handles
      /\ \A i \in 1 .. n : frames[i].calling = c => i = n
  BY <1>1, <1>3, <1>4 DEF FramesSound
<1>6. DOMAIN fate = DOMAIN continuations
  BY <1>3 DEF TypeOK
<1>7. frame.calling = 0
  BY <1>1 DEF Loop
<1>8. /\ DOMAIN frames' = 1 .. n /\ frames'[n] = frame
      /\ \A i \in 1 .. n : i # n => frames'[i] = frames[i]
  BY <1>1, <1>4
<1>9. frames' \in Seq([round : 0 .. limit, calling : 0 .. MaxContinuations,
                       handle : HandlesOrNothing,
                       state : {"Pending", "Fulfilled", "Rejected"}])
  <2>. DEFINE F == [round : 0 .. limit, calling : 0 .. MaxContinuations,
                    handle : HandlesOrNothing, state : {"Pending", "Fulfilled", "Rejected"}]
  <2>1. frames \in Seq(F)
    BY <1>3 DEF TypeOK
  <2>2. frame \in F
    <3>1. limit \in Nat /\ frames[n].round \in 0 .. limit
      BY <1>3, <1>4, Entries, PromiseAssumption, SMTT(30) DEF TypeOK
    <3>2. frames[n].round + 1 \in 0 .. limit
      BY <1>5, <3>1
    <3>3. Loop \in F
      BY <3>1, PromiseAssumption DEF Loop, HandlesOrNothing
    <3>. QED
      BY <1>1, <1>4, <3>2, <3>3
  <2>. HIDE DEF F
  <2>3. frames' \in Seq(F)
    BY <1>1, <1>4, <2>1, <2>2
  <2>. QED
    BY <2>3 DEF F
<1>10. /\ Captured(c) \in Seq(Handles)
       /\ \A g \in Handles :
            Count(Captured(c), g) = IF continuations[c].captured = g THEN 1 ELSE 0
  BY <1>3, <1>5, <1>6, CapturedOne
<1>11. PICK q \in Seq(Handles) : q = Captured(c) \o <<h>>
  <2>1. Captured(c) \o <<h>> \in Seq(Handles)
    BY <1>5, <1>10
  <2>. QED
    BY <2>1
<1>12. Drops(Main, q)
  BY <1>1, <1>11 DEF Drops, Threads
<1>13. TypeOK'
  <2>1. dropping' \in [Threads -> Seq(Handles)]
    BY <1>3, <1>12 DEF TypeOK, Drops
  <2>. QED
    BY <1>2, <1>3, <1>9, <2>1 DEF TypeOK
<1>14. \A s : (Live(s)' <=> Live(s)) /\ HandleOf(s)' = HandleOf(s)
  BY <1>2 DEF Live, HandleOf
<1>15. QueueSound' /\ FreeSound' /\ ListsSound'
  BY <1>2, <1>14 DEF Inv, QueueSound, FreeSound, ListsSound, Lists
<1>16. FramesSound'
  BY <1>2, <1>3, <1>4, <1>7, <1>8 DEF FramesSound
<1>17. ShutdownSound'
  BY <1>1, <1>2, <1>14 DEF Inv, ShutdownSound
<1>18. CalledInOrder' /\ NoneLost' /\ NoLostDispatch'
  <2>1. frames' # <<>>
    BY <1>4, <1>8
  <2>. QED
    BY <1>2, <2>1 DEF Inv, CalledInOrder, NoneLost, NoLostDispatch
<1>19. ASSUME NEW g \in Handles
       PROVE  /\ IsFiniteSet(HeldBy(g)') /\ IsFiniteSet(DroppedBy(g)')
              /\ Users(g)' = Owned(g)'
  <2>1. Numbers(g) /\ Users(g) = Owned(g)
    BY <1>3, UsersAreNumbers DEF ReferencesAccounted, Owned
  <2>2. /\ IsFiniteSet(DroppedBy(g)')
        /\ Cardinality(DroppedBy(g)) \in Nat /\ Cardinality(DroppedBy(g)') \in Nat
        /\ Cardinality(DroppedBy(g)') =
             Cardinality(DroppedBy(g)) + Count(q, g) - Count(dropping[Main], g)
    BY <1>3, <1>12, DroppedChange
  <2>3. Count(dropping[Main], g) = 0
    BY <1>1, CountNothing
  <2>4. Count(q, g) = (IF continuations[c].captured = g THEN 1 ELSE 0)
                        + (IF g = h THEN 1 ELSE 0)
    <3>0. <<h>> \in Seq(Handles)
      BY <1>5
    <3>1. PICK p \in Seq(Handles), l \in Seq(Handles) : p = Captured(c) /\ l = <<h>>
      BY <1>10, <3>0
    <3>2. Count(p \o l, g) = Count(p, g) + Count(l, g)
      BY CountConcat
    <3>3. Count(l, g) = IF g = h THEN 1 ELSE 0
      BY <3>1, CountOne
    <3>. QED
      BY <1>10, <1>11, <3>1, <3>2, <3>3
  <2>5. HeldBy(g)' = HeldBy(g) /\ QueuedAs(g)' = QueuedAs(g)
    BY <1>2, <1>14 DEF HeldBy, QueuedAs
  <2>6. Cardinality(CapturedIn(g)') = Cardinality(CapturedIn(g))
            - IF continuations[c].captured = g THEN 1 ELSE 0
    <3>1. \A d \in DOMAIN continuations : Alive(d)' <=> Alive(d) /\ d # c
      <4>1. 0 \notin DOMAIN continuations
        BY <1>3, Entries
      <4>. QED
        BY <1>1, <1>2, <1>4, <1>5, <1>6, <1>7, <1>8, <4>1 DEF Alive
    <3>2. CapturedIn(g)' = CapturedIn(g) \ {c}
      BY <1>2, <3>1 DEF CapturedIn
    <3>3. c \in CapturedIn(g) <=> continuations[c].captured = g
      BY <1>1, <1>4, <1>5, <1>6 DEF CapturedIn, Alive
    <3>4. Cardinality(CapturedIn(g) \ {c}) = Cardinality(CapturedIn(g))
            - IF c \in CapturedIn(g) THEN 1 ELSE 0
      BY <2>1, OneLess DEF Numbers
    <3>. QED
      BY <3>2, <3>3, <3>4
  <2>7. Cardinality(RoundsOf(g)') = Cardinality(RoundsOf(g)) - IF g = h THEN 1 ELSE 0
    <3>1. Cardinality(RoundsOf(g)') = Cardinality(RoundsOf(g))
                + (IF Calls(frame, g) THEN 1 ELSE 0) - (IF Calls(Top, g) THEN 1 ELSE 0)
      BY <1>1, <1>3, RoundsChange
    <3>2. ~Calls(frame, g) /\ (Calls(Top, g) <=> g = h)
      BY <1>1, <1>7 DEF Calls
    <3>. QED
      BY <2>1, <3>1, <3>2 DEF Numbers
  <2>8. Users(g)' = Users(g)
    <3>1. PICK a \in Nat, d \in Nat, k \in Nat, e \in Nat, f \in Nat :
            /\ a = Cardinality(HeldBy(g)) /\ d = Cardinality(DroppedBy(g))
            /\ k = Cardinality(CapturedIn(g)) /\ e = Cardinality(QueuedAs(g))
            /\ f = Cardinality(RoundsOf(g))
      BY <2>1 DEF Numbers
    <3>2. PICK y \in Nat, z \in Nat :
            /\ y = (IF continuations[c].captured = g THEN 1 ELSE 0)
            /\ z = (IF g = h THEN 1 ELSE 0)
      OBVIOUS
    <3>3. /\ Cardinality(DroppedBy(g)') = d + y + z
          /\ Cardinality(CapturedIn(g)') = k - y /\ Cardinality(RoundsOf(g)') = f - z
      BY <2>2, <2>3, <2>4, <2>6, <2>7, <3>1, <3>2
    <3>4. Users(g) = a + d + k + e + f /\ Users(g)' = a + (d + y + z) + (k - y) + e + (f - z)
      BY <2>5, <3>1, <3>3 DEF Users
    <3>5. a + (d + y + z) + (k - y) + e + (f - z) = a + d + k + e + f
      <4>1. /\ a \in Nat /\ d \in Nat /\ k \in Nat /\ e \in Nat /\ f \in Nat
            /\ y \in Nat /\ z \in Nat
        BY <3>1, <3>2
      <4>. QED
        BY <4>1
    <3>. QED
      BY <3>4, <3>5
  <2>9. Owned(g)' = Owned(g)
    BY <1>2, <1>14 DEF Owned
  <2>. QED
    BY <1>3, <2>1, <2>2, <2>5, <2>8, <2>9 DEF Countable
<1>20. Countable' /\ ReferencesAccounted'
  BY <1>19 DEF Countable, ReferencesAccounted, Owned
<1>. QED
  BY <1>13, <1>15, <1>16, <1>17, <1>18, <1>20 DEF Inv

-----------------------------------------------------------------------------
(* The queue gains records.                                                  *)

\* How often the queue uses a handle after a step.
LEMMA QueuedCountNext ==
    ASSUME NEW h
    PROVE  /\ IsFiniteSet(QueuedAs(h)')
           /\ Cardinality(QueuedAs(h)') = IF QueuedWith(h)' THEN 1 ELSE 0
<1>1. QueuedAs(h)' = IF QueuedWith(h)' THEN {h.slot} ELSE {}
  BY DEF QueuedAs, QueuedWith, HandleOf
<1>2. QueuedWith(h)' \in BOOLEAN
  BY DEF QueuedWith
<1>. QED
  BY <1>1, <1>2, AtMostOne

\* Two lists of different elements, none of which is in both.
Apart(p, q, S) ==
    /\ p \in Seq(S) /\ q \in Seq(S) /\ IsInjective(p) /\ IsInjective(q)
    /\ Range(p) \intersect Range(q) = {}

\* One after the other they are a list of different elements.
LEMMA Joined ==
    ASSUME NEW S, NEW p, NEW q, Apart(p, q, S)
    PROVE  /\ p \o q \in Seq(S) /\ IsInjective(p \o q)
           /\ Range(p \o q) = Range(p) \union Range(q)
<1>0. /\ p \in Seq(S) /\ q \in Seq(S) /\ IsInjective(p) /\ IsInjective(q)
      /\ Range(p) \intersect Range(q) = {}
  BY DEF Apart
<1>r. PICK r : r = p \o q
  OBVIOUS
<1>1. PICK m \in Nat : m = Len(p) /\ DOMAIN p = 1 .. m
  BY <1>0
<1>2. PICK n \in Nat : n = Len(q) /\ DOMAIN q = 1 .. n
  BY <1>0
<1>3. /\ r \in Seq(S) /\ DOMAIN r = 1 .. (m + n)
      /\ (\A i \in 1 .. m : r[i] = p[i]) /\ \A i \in 1 .. n : r[m + i] = q[i]
  BY <1>0, <1>r, <1>1, <1>2
<1>4. \A i \in 1 .. (m + n) : i \notin 1 .. m => i - m \in 1 .. n /\ r[i] = q[i - m]
  <2>1. SUFFICES ASSUME NEW i \in 1 .. (m + n), i \notin 1 .. m
                 PROVE  i - m \in 1 .. n /\ r[i] = q[i - m]
    OBVIOUS
  <2>2. i - m \in 1 .. n /\ m + (i - m) = i
    BY <2>1
  <2>. QED
    BY <1>3, <2>2
<1>5. \A i \in 1 .. m : r[i] = p[i] /\ r[i] \in Range(p) /\ r[i] \notin Range(q)
  BY <1>0, <1>1, <1>3 DEF Range
<1>6. \A i \in 1 .. (m + n) : i \notin 1 .. m => r[i] \in Range(q) /\ r[i] \notin Range(p)
  BY <1>0, <1>2, <1>4 DEF Range
<1>7. IsInjective(r)
  <2>1. SUFFICES ASSUME NEW i \in 1 .. (m + n), NEW j \in 1 .. (m + n), r[i] = r[j]
                 PROVE  i = j
    BY <1>3 DEF IsInjective
  <2>2. CASE i \in 1 .. m
    <3>1. j \in 1 .. m
      BY <1>5, <1>6, <2>1, <2>2
    <3>. QED
      BY <1>0, <1>1, <1>5, <2>1, <2>2, <3>1 DEF IsInjective
  <2>3. CASE i \notin 1 .. m
    <3>1. j \notin 1 .. m
      BY <1>5, <1>6, <2>1, <2>3
    <3>2. PICK a \in 1 .. n, b \in 1 .. n : /\ a = i - m /\ b = j - m
                                            /\ r[i] = q[a] /\ r[j] = q[b]
      BY <1>4, <2>1, <2>3, <3>1
    <3>3. a = b
      BY <1>0, <1>2, <2>1, <3>2 DEF IsInjective
    <3>. QED
      BY <3>2, <3>3
  <2>. QED
    BY <2>2, <2>3
<1>8. Range(r) \subseteq Range(p) \union Range(q)
  BY <1>3, <1>5, <1>6 DEF Range
<1>9. Range(p) \subseteq Range(r)
  <2>1. \A i \in 1 .. m : i \in 1 .. (m + n)
    OBVIOUS
  <2>. QED
    BY <1>1, <1>3, <2>1 DEF Range
<1>10. Range(q) \subseteq Range(r)
  <2>1. \A i \in 1 .. n : m + i \in 1 .. (m + n)
    OBVIOUS
  <2>. QED
    BY <1>2, <1>3, <2>1 DEF Range
<1>. QED
  BY <1>r, <1>3, <1>7, <1>8, <1>9, <1>10

\* The slots that pass a test, as a list.
LEMMA ListOfSlots ==
    ASSUME NEW W \in SUBSET Slots, NEW w, w = Picked([s \in Slots |-> s], W)
    PROVE  w \in Seq(Slots) /\ IsInjective(w) /\ Range(w) = W
<1>1. PICK q \in Seq(Slots) : q = [s \in Slots |-> s] /\ Len(q) = MaxRecords
  <2>1. MaxRecords \in Nat
    BY PromiseAssumption
  <2>2. PICK q \in [1 .. MaxRecords -> Slots] : q = [s \in Slots |-> s]
    BY DEF Slots
  <2>3. q \in Seq(Slots) /\ Len(q) = MaxRecords
    BY <2>1, <2>2
  <2>. QED
    BY <2>2, <2>3
<1>2. W \in SUBSET (1 .. Len(q))
  BY <1>1 DEF Slots
<1>3. PICK m \in Nat : m = Cardinality(W)
  <2>1. Cardinality(W) \in 0 .. Len(q)
    BY <1>2, PickedOf
  <2>. QED
    BY <1>1, <2>1
<1>4. /\ w \in Seq(Slots) /\ Len(w) = m
      /\ \A i \in 1 .. m : Nth(W, i) \in W /\ w[i] = q[Nth(W, i)]
      /\ \A i, j \in 1 .. m : i < j => Nth(W, i) < Nth(W, j)
      /\ \A k \in W : \E i \in 1 .. m : k = Nth(W, i)
  BY <1>1, <1>2, <1>3, PickedOf, ZenonT(30)
<1>5. DOMAIN w = 1 .. m
  BY <1>4
<1>6. \A i \in 1 .. m : w[i] = Nth(W, i) /\ w[i] \in W /\ w[i] \in Nat
  <2>1. SUFFICES ASSUME NEW i \in 1 .. m
                 PROVE  w[i] = Nth(W, i) /\ w[i] \in W /\ w[i] \in Nat
    OBVIOUS
  <2>2. PICK k \in W : k = Nth(W, i) /\ w[i] = q[k]
    BY <1>4
  <2>3. k \in Slots /\ k \in Nat /\ q[k] = k
    BY <1>1 DEF Slots
  <2>. QED
    BY <2>2, <2>3
<1>7. IsInjective(w)
  <2>1. SUFFICES ASSUME NEW i \in 1 .. m, NEW j \in 1 .. m, w[i] = w[j] PROVE i = j
    BY <1>5 DEF IsInjective
  <2>2. PICK a \in Nat, b \in Nat : a = w[i] /\ b = w[j] /\ a = b
    BY <1>6, <2>1
  <2>3. (i < j => a < b) /\ (j < i => b < a)
    <3>1. a = Nth(W, i) /\ b = Nth(W, j)
      BY <1>6, <2>2
    <3>. QED
      BY <1>4, <3>1
  <2>. QED
    BY <2>1, <2>2, <2>3
<1>8. Range(w) = W
  <2>1. \A i \in DOMAIN w : w[i] \in W
    BY <1>5, <1>6
  <2>2. ASSUME NEW k \in W PROVE \E i \in DOMAIN w : k = w[i]
    <3>1. PICK i \in 1 .. m : k = Nth(W, i)
      BY <1>4
    <3>. QED
      BY <1>5, <1>6, <3>1
  <2>. QED
    BY <2>1, <2>2 DEF Range
<1>. QED
  BY <1>4, <1>7, <1>8

\* Promises_Shutdown rejects what is pending.
LEMMA RejectAllStep ==
    ASSUME Inv, RejectAll
    PROVE  Inv'
<1>. DEFINE Rejected(s) == [records[s] EXCEPT !.state = "Rejected"]
            Wakes(s) == Abandoned(s) /\ NewlyReady(Rejected(s))
            W == {s \in Slots : Wakes(s)}
<1>1. /\ shutdown = "flush" /\ frames = <<>> /\ stopping' = TRUE /\ shutdown' = "drain"
      /\ frames' = <<Loop>>
      /\ UNCHANGED <<size, free, limit, requested, released, held, dropping, continuations,
                     fate>>
  BY DEF RejectAll, host
<1>2. records' = [s \in Slots |-> IF Wakes(s) THEN Queued(Rejected(s))
                                  ELSE IF Abandoned(s) THEN Rejected(s) ELSE records[s]]
  BY DEF RejectAll
<1>3. ready' = ready \o Picked([s \in Slots |-> s], W)
  <2>1. ready' = ready \o Filter([s \in Slots |-> s], Wakes)
    BY DEF RejectAll
  <2>2. {i \in 1 .. Len([s \in Slots |-> s]) : Wakes([s \in Slots |-> s][i])} = W
    <3>1. Len([s \in Slots |-> s]) = MaxRecords
      BY PromiseAssumption DEF Slots
    <3>. QED
      BY <3>1 DEF Slots
  <2>. QED
    BY <2>1, <2>2 DEF Filter
<1>4. TypeOK /\ Countable /\ ReferencesAccounted
  BY DEF Inv
<1>5. ASSUME NEW s \in Slots
      PROVE  /\ records'[s] \in RecordType
             /\ records'[s].generation = records[s].generation
             /\ records'[s].first = records[s].first
             /\ records'[s].state = (IF Abandoned(s) THEN "Rejected" ELSE records[s].state)
             /\ records'[s].ready <=> records[s].ready \/ s \in W
             /\ records'[s].references = records[s].references + (IF s \in W THEN 1 ELSE 0)
             /\ s \in W <=> Abandoned(s) /\ ~records[s].ready /\ records[s].first # <<>>
  <2>1. PICK q \in RecordType : q = records[s]
    BY <1>4, RecordFields
  <2>2. PICK r : r = [q EXCEPT !.state = "Rejected"]
    OBVIOUS
  <2>3. /\ r \in RecordType /\ r.state = "Rejected" /\ r.generation = q.generation
        /\ r.first = q.first /\ r.ready = q.ready /\ r.references = q.references
    BY <2>1, <2>2 DEF RecordType
  <2>4. PICK w : w = [r EXCEPT !.ready = TRUE, !.references = @ + 1]
    OBVIOUS
  <2>5. /\ w \in RecordType /\ w.state = r.state /\ w.generation = r.generation
        /\ w.first = r.first /\ w.ready /\ w.references = r.references + 1
    <3>1. r.references + 1 \in Nat
      BY <2>3 DEF RecordType
    <3>. QED
      BY <2>3, <2>4, <3>1 DEF RecordType
  <2>6. s \in W <=> Abandoned(s) /\ ~q.ready /\ q.first # <<>>
    BY <2>1, <2>2, <2>3 DEF NewlyReady
  <2>7. records'[s] = IF s \in W THEN w ELSE IF Abandoned(s) THEN r ELSE q
    BY <1>2, <2>1, <2>2, <2>4 DEF Queued
  <2>8. q.references \in Nat /\ q.ready \in BOOLEAN
    BY <2>1 DEF RecordType
  <2>. HIDE DEF W, Rejected, Wakes
  <2>9. CASE s \in W
    <3>1. records'[s] = w /\ Abandoned(s)
      BY <2>6, <2>7, <2>9
    <3>. QED
      BY <2>1, <2>3, <2>5, <2>6, <2>9, <3>1
  <2>10. CASE s \notin W
    <3>1. records'[s] = IF Abandoned(s) THEN r ELSE q
      BY <2>7, <2>10
    <3>2. q.references + 0 = q.references
      BY <2>8
    <3>. QED
      BY <2>1, <2>3, <2>6, <2>10, <3>1, <3>2
  <2>. QED
    BY <2>9, <2>10
<1>6. PICK w \in Seq(Slots) : w = Picked([s \in Slots |-> s], W) /\ IsInjective(w) /\ Range(w) = W
  BY ListOfSlots
<1>. HIDE DEF W
<1>7. /\ ready \in Seq(Slots) /\ IsInjective(ready)
      /\ \A s \in Slots : records[s].ready <=> s \in Range(ready)
  BY DEF Inv, TypeOK, QueueSound
<1>8. /\ ready' \in Seq(Slots) /\ IsInjective(ready') /\ Range(ready') = Range(ready) \union W
  <2>1. W \subseteq Slots /\ \A s \in W : s \notin Range(ready)
    BY <1>5, <1>7 DEF W
  <2>2. Range(ready) \intersect Range(w) = {}
    BY <1>6, <2>1
  <2>3. Apart(ready, w, Slots)
    BY <1>6, <1>7, <2>2 DEF Apart
  <2>4. /\ ready \o w \in Seq(Slots) /\ IsInjective(ready \o w)
        /\ Range(ready \o w) = Range(ready) \union Range(w)
    BY <2>3, Joined
  <2>. QED
    BY <1>3, <1>6, <2>4
<1>9. \A s \in Slots : (Live(s)' <=> Live(s)) /\ HandleOf(s)' = HandleOf(s)
  <2>1. SUFFICES ASSUME NEW s \in Slots
                 PROVE  (Live(s)' <=> Live(s)) /\ HandleOf(s)' = HandleOf(s)
    OBVIOUS
  <2>2. records[s].references \in Nat
    BY <1>4, RecordFields
  <2>3. s \in W => records[s].references # 0
    BY <1>5 DEF Abandoned
  <2>4. records'[s].references = 0 <=> records[s].references = 0
    <3>1. records'[s].references = records[s].references + (IF s \in W THEN 1 ELSE 0)
      BY <1>5
    <3>2. PICK n \in Nat : n = records[s].references
      BY <2>2
    <3>. QED
      BY <2>3, <3>1, <3>2
  <2>. QED
    BY <1>1, <1>5, <2>4 DEF Live, HandleOf
<1>10. SameRounds
  BY <1>1, <1>4, FramesMove
<1>11. records' \in [Slots -> RecordType]
  <2>1. \A s \in Slots : records'[s] \in RecordType
    BY <1>5
  <2>2. records' = [s \in Slots |-> records'[s]]
    BY <1>2
  <2>. QED
    BY <2>1, <2>2
<1>12. TypeOK'
  BY <1>1, <1>4, <1>8, <1>10, <1>11 DEF TypeOK, RecordType, SameRounds
<1>13. QueueSound'
  BY <1>5, <1>7, <1>8, <1>9 DEF Inv, QueueSound, Abandoned, Live
<1>14. FreeSound'
  <2>1. \A s \in Range(free) : s \in Slots
    BY <1>4 DEF TypeOK, Range
  <2>2. \A s \in Range(free) : records'[s].references = 0
    <3>1. \A s \in Range(free) : records[s].references = 0
      BY DEF Inv, FreeSound
    <3>. QED
      BY <1>5, <2>1, <3>1 DEF Abandoned
  <2>3. ASSUME NEW s \in Slots, ~Live(s)'
        PROVE  records'[s].first = <<>> /\ ~records'[s].ready
    <3>1. ~Live(s) /\ s \notin W
      BY <1>5, <1>9, <2>3 DEF Abandoned, Live
    <3>. QED
      BY <1>5, <3>1 DEF Inv, FreeSound
  <2>4. \A s \in Slots : Live(s)' => records'[s].generation # 0
    BY <1>5, <1>9 DEF Inv, FreeSound
  <2>5. IsInjective(free') /\ \A s \in Range(free') : s <= size'
    BY <1>1 DEF Inv, FreeSound
  <2>. QED
    BY <1>1, <2>2, <2>3, <2>4, <2>5 DEF FreeSound
<1>15. ListsSound'
  BY <1>1, <1>5, <1>9 DEF Inv, ListsSound, Lists
<1>16. FramesSound' /\ NoLostDispatch'
  BY <1>1 DEF FramesSound, NoLostDispatch, Loop
<1>17. ShutdownSound'
  BY <1>1, <1>5, <1>9 DEF Inv, ShutdownSound, Abandoned, Live
<1>18. CalledInOrder' /\ NoneLost'
  BY <1>1 DEF Inv, CalledInOrder, NoneLost
<1>19. ASSUME NEW g \in Handles
       PROVE  /\ IsFiniteSet(HeldBy(g)') /\ IsFiniteSet(DroppedBy(g)')
              /\ Users(g)' = Owned(g)'
  <2>1. Numbers(g) /\ Users(g) = Owned(g)
    BY <1>1, <1>4, UsersAreNumbers DEF ReferencesAccounted, Owned
  <2>2. HeldBy(g)' = HeldBy(g) /\ DroppedBy(g)' = DroppedBy(g)
    BY <1>1 DEF HeldBy, DroppedBy
  <2>3. RoundsOf(g)' = RoundsOf(g)
    BY <1>10 DEF RoundsOf, SameRounds
  <2>4. CapturedIn(g)' = CapturedIn(g)
    <3>1. \A c \in DOMAIN continuations : c # 0
      BY <1>4, Entries
    <3>2. \A c \in DOMAIN continuations : Alive(c)' <=> Alive(c)
      BY <1>1, <1>10, <3>1 DEF Alive, SameRounds
    <3>. QED
      BY <1>1, <3>2 DEF CapturedIn
  <2>5. g.slot \in Slots
    BY DEF Handles
  <2>6. PICK z \in Nat : z = IF g.slot \in W /\ g = HandleOf(g.slot) THEN 1 ELSE 0
    OBVIOUS
  <2>7. Cardinality(QueuedAs(g)') = Cardinality(QueuedAs(g)) + z
    <3>1. QueuedWith(g)' <=> QueuedWith(g) \/ (g.slot \in W /\ g = HandleOf(g.slot))
      BY <1>8, <1>9, <2>5 DEF QueuedWith
    <3>2. QueuedWith(g) => g.slot \notin W
      BY <1>5, <1>7, <2>5 DEF QueuedWith
    <3>3. Cardinality(QueuedAs(g)) = IF QueuedWith(g) THEN 1 ELSE 0
      BY QueuedCount
    <3>4. Cardinality(QueuedAs(g)') = IF QueuedWith(g)' THEN 1 ELSE 0
      BY QueuedCountNext
    <3>. QED
      BY <2>6, <3>1, <3>2, <3>3, <3>4
  <2>8. Owned(g)' = Owned(g) + z
    <3>1. records[g.slot].references \in Nat
      BY <1>4, <2>5, RecordFields
    <3>2. HandleOf(g.slot)' = HandleOf(g.slot) /\ (Live(g.slot)' <=> Live(g.slot))
      BY <1>9, <2>5
    <3>3. g.slot \in W => Live(g.slot)
      BY <1>5, <2>5 DEF Abandoned, Live
    <3>4. records'[g.slot].references = records[g.slot].references
                + (IF g.slot \in W THEN 1 ELSE 0)
      BY <1>5, <2>5
    <3>. QED
      BY <2>6, <3>1, <3>2, <3>3, <3>4 DEF Owned
  <2>9. Users(g)' = Users(g) + z
    <3>1. PICK a \in Nat, d \in Nat, k \in Nat, e \in Nat, f \in Nat :
            /\ a = Cardinality(HeldBy(g)) /\ d = Cardinality(DroppedBy(g))
            /\ k = Cardinality(CapturedIn(g)) /\ e = Cardinality(QueuedAs(g))
            /\ f = Cardinality(RoundsOf(g))
      BY <2>1 DEF Numbers
    <3>2. Users(g) = a + d + k + e + f /\ Users(g)' = a + d + k + (e + z) + f
      BY <2>2, <2>3, <2>4, <2>7, <3>1 DEF Users
    <3>3. a + d + k + (e + z) + f = (a + d + k + e + f) + z
      <4>1. /\ a \in Nat /\ d \in Nat /\ k \in Nat /\ e \in Nat /\ f \in Nat /\ z \in Nat
        BY <2>6, <3>1
      <4>. QED
        BY <4>1
    <3>. QED
      BY <3>2, <3>3
  <2>. QED
    BY <1>4, <2>1, <2>2, <2>8, <2>9 DEF Countable
<1>20. Countable' /\ ReferencesAccounted'
  BY <1>19 DEF Countable, ReferencesAccounted, Owned
<1>. QED
  BY <1>12, <1>13, <1>14, <1>15, <1>16, <1>17, <1>18, <1>20 DEF Inv

-----------------------------------------------------------------------------
(* The end and the beginning.                                                *)

\* What follows from empty lists in a row: the empty list.
LEMMA FlattenOfNothing ==
    ASSUME NEW e \in Seq({<<>>}), Len(e) # 0
    PROVE  FlattenSeq(e) = <<>>
<1>1. PICK n \in Nat : n = Len(e) /\ n # 0 /\ \A i \in 1 .. n : e[i] = <<>>
  <2>1. \A i \in 1 .. Len(e) : e[i] \in {<<>>}
    OBVIOUS
  <2>. QED
    BY <2>1
<1>. DEFINE Is(f) == f = [i \in 1 .. Len(e) |-> IF i = 1 THEN e[i] ELSE f[i - 1] \o e[i]]
<1>2. FlattenSeq(e) = (CHOOSE f : Is(f))[Len(e)]
  <2>1. Len(e) # 0
    OBVIOUS
  <2>. QED
    BY <2>1 DEF FlattenSeq
<1>3. Is([i \in 1 .. Len(e) |-> <<>>])
  <2>1. \A i \in 1 .. n : i = 1 \/ i - 1 \in 1 .. n
    OBVIOUS
  <2>2. <<>> \o <<>> = <<>>
    OBVIOUS
  <2>. QED
    BY <1>1, <2>1, <2>2
<1>4. PICK f : f = (CHOOSE g : Is(g)) /\ Is(f)
  <2>1. \E g : Is(g)
    BY <1>3
  <2>. HIDE DEF Is
  <2>2. Is(CHOOSE g : Is(g))
    BY <2>1
  <2>. QED
    BY <2>2
<1>5. \A i \in 1 .. n : f[i] = IF i = 1 THEN <<>> ELSE f[i - 1] \o <<>>
  <2>1. SUFFICES ASSUME NEW i \in 1 .. Len(e)
                 PROVE  f[i] = IF i = 1 THEN e[i] ELSE f[i - 1] \o e[i]
    BY <1>1
  <2>2. PICK g : g = f
    OBVIOUS
  <2>3. f = [k \in 1 .. Len(e) |-> IF k = 1 THEN e[k] ELSE g[k - 1] \o e[k]]
    BY <1>4, <2>2, ZenonT(30)
  <2>4. f[i] = IF i = 1 THEN e[i] ELSE g[i - 1] \o e[i]
    BY <2>3, Zenon
  <2>. QED
    BY <2>2, <2>4
<1>. HIDE DEF Is
<1>6. \A i \in 1 .. n : f[i] = <<>>
  <2>. DEFINE T == {i \in 1 .. n : f[i] # <<>>}
  <2>1. SUFFICES ASSUME T # {} PROVE FALSE
    OBVIOUS
  <2>2. T \in SUBSET (1 .. n)
    OBVIOUS
  <2>3. PICK k \in T : \A j \in T : k <= j
    <3>. HIDE DEF T
    <3>. QED
      BY <1>1, <2>1, <2>2, LeastNumber
  <2>4. k \in 1 .. n /\ f[k] # <<>> /\ k # 1
    BY <1>5, <2>3
  <2>5. k - 1 \in 1 .. n /\ k - 1 < k
    BY <1>1, <2>4
  <2>6. f[k - 1] = <<>>
    <3>1. k - 1 \notin T
      <4>. HIDE DEF T
      <4>1. k \in 1 .. n
        BY <2>4
      <4>. QED
        BY <1>1, <2>3, <2>5, <4>1
    <3>. QED
      BY <2>5, <3>1
  <2>7. <<>> \o <<>> = <<>>
    OBVIOUS
  <2>. QED
    BY <1>5, <2>4, <2>6, <2>7
<1>. QED
  BY <1>1, <1>2, <1>4, <1>6

\* Records that were never created.
LEMMA BlankRecord ==
    /\ Blank \in RecordType /\ Blank.references = 0 /\ Blank.first = <<>> /\ ~Blank.ready
    /\ Blank.state = "Pending" /\ [s \in Slots |-> Blank] \in [Slots -> RecordType]
<1>1. <<>> \in Seq(Ids) /\ 0 \in Nat /\ 0 \in 0 .. MaxCreates
  BY PromiseAssumption
<1>2. Blank \in RecordType
  BY <1>1 DEF Blank, RecordType
<1>3. Blank.references = 0 /\ Blank.first = <<>> /\ ~Blank.ready /\ Blank.state = "Pending"
  BY DEF Blank
<1>. QED
  BY <1>2, <1>3

\* The table is taken away, and no continuation with it.
LEMMA RetireStep ==
    ASSUME Inv, Retire
    PROVE  Inv'
<1>. DEFINE e == [s \in Slots |-> records[s].first]
<1>1. /\ shutdown = "retire" /\ shutdown' = "down"
      /\ dropping' = [dropping EXCEPT ![Main] = CapturedBy(FlattenSeq(e))]
      /\ fate' = [c \in DOMAIN fate |-> IF c \in Range(FlattenSeq(e)) THEN "lost" ELSE fate[c]]
      /\ records' = [s \in Slots |-> Blank] /\ size' = 0 /\ free' = <<>> /\ ready' = <<>>
      /\ UNCHANGED <<stopping, limit, requested, released, frames, held, continuations>>
  BY DEF Retire, host
<1>2. TypeOK /\ Countable /\ ShutdownSound /\ ready = <<>> /\ frames = <<>> /\ stopping /\ released
  BY <1>1 DEF Inv, ShutdownSound
<1>3. \A s \in Slots : records[s].first = <<>>
  <2>1. Range(ready) = {}
    BY <1>2 DEF Range
  <2>. QED
    BY <1>2, <2>1 DEF Inv, QueueSound, FreeSound, ShutdownSound
<1>4. FlattenSeq(e) = <<>>
  <2>1. MaxRecords \in Nat \ {0}
    BY PromiseAssumption
  <2>2. e \in [1 .. MaxRecords -> {<<>>}]
    BY <1>3 DEF Slots
  <2>. HIDE DEF e
  <2>3. e \in Seq({<<>>}) /\ Len(e) # 0
    BY <2>1, <2>2
  <2>. QED
    BY <2>3, FlattenOfNothing
<1>5. CapturedBy(<<>>) = <<>> /\ Range(<<>>) = {}
  <2>1. CapturedBy(<<>>) = Picked([i \in DOMAIN <<>> |-> continuations[<<>>[i]].captured], {})
    <3>1. Len([i \in DOMAIN <<>> |-> continuations[<<>>[i]].captured]) = 0
      OBVIOUS
    <3>2. 1 .. 0 = {}
      OBVIOUS
    <3>. QED
      BY <3>1, <3>2 DEF CapturedBy, Filter
  <2>. QED
    BY <2>1, PickedNone DEF Range
<1>. HIDE DEF e
<1>6. fate' = fate
  BY <1>1, <1>2, <1>4, <1>5 DEF TypeOK
<1>7. Drops(Main, <<>>)
  <2>1. <<>> \in Seq(Handles)
    OBVIOUS
  <2>. QED
    BY <1>1, <1>4, <1>5, <2>1 DEF Drops, Threads
<1>8. \A s \in Slots : records'[s] = Blank /\ ~Live(s)'
  BY <1>1, BlankRecord DEF Live
<1>9. TypeOK'
  <2>1. dropping' \in [Threads -> Seq(Handles)]
    BY <1>2, <1>7 DEF TypeOK, Drops
  <2>2. records' \in [Slots -> RecordType]
    BY <1>1, BlankRecord
  <2>3. free' \in Seq(Slots) /\ ready' \in Seq(Slots) /\ size' \in 0 .. MaxRecords
    BY <1>1, PromiseAssumption
  <2>. QED
    BY <1>1, <1>2, <1>6, <2>1, <2>2, <2>3 DEF TypeOK, RecordType
<1>10. QueueSound'
  <2>1. IsInjective(ready') /\ Range(ready') = {}
    BY <1>1 DEF IsInjective, Range
  <2>. QED
    BY <1>8, <2>1, BlankRecord DEF QueueSound
<1>11. FreeSound'
  <2>1. IsInjective(free') /\ Range(free') = {}
    BY <1>1 DEF IsInjective, Range
  <2>. QED
    BY <1>8, <2>1, BlankRecord DEF FreeSound
<1>12. ListsSound'
  <2>1. \A s \in Slots : records'[s].first = <<>> /\ records[s].first = <<>>
    BY <1>3, <1>8, BlankRecord
  <2>2. \A c : Lists(c)' = {} /\ Lists(c) = {}
    BY <2>1 DEF Lists, Range
  <2>3. \A c \in DOMAIN fate' : fate'[c] = "waiting" <=> Lists(c)' # {}
    BY <1>6, <2>2 DEF Inv, ListsSound
  <2>. QED
    BY <2>1, <2>3 DEF ListsSound, Range
<1>13. FramesSound' /\ NoLostDispatch'
  BY <1>1, <1>2 DEF FramesSound, NoLostDispatch
<1>14. ShutdownSound'
  BY <1>1, <1>2, <1>8 DEF ShutdownSound
<1>15. CalledInOrder' /\ NoneLost'
  BY <1>1, <1>6 DEF Inv, CalledInOrder, NoneLost
<1>16. Countable'
  <2>1. \A g : HeldBy(g)' = HeldBy(g)
    BY <1>1 DEF HeldBy
  <2>2. \A g \in Handles : IsFiniteSet(DroppedBy(g)')
    BY <1>2, <1>7, DroppedChange
  <2>. QED
    BY <1>2, <2>1, <2>2 DEF Countable
<1>17. ReferencesAccounted'
  BY <1>1 DEF ReferencesAccounted
<1>. QED
  BY <1>9, <1>10, <1>11, <1>12, <1>13, <1>14, <1>15, <1>16, <1>17 DEF Inv

\* The invariant holds before the first promise.
LEMMA Beginning == Init => Inv
<1>1. SUFFICES ASSUME Init PROVE Inv
  OBVIOUS
<1>2. /\ limit \in DispatchLimits /\ records = [s \in Slots |-> Blank] /\ size = 0
      /\ free = <<>> /\ ready = <<>> /\ stopping = FALSE /\ requested = FALSE
      /\ released = FALSE /\ shutdown = "up" /\ frames = <<>>
      /\ held = [t \in Threads |-> [h \in Handles |-> 0]]
      /\ dropping = [t \in Threads |-> <<>>] /\ continuations = <<>> /\ fate = <<>>
  BY <1>1 DEF Init
<1>3. \A s \in Slots : records[s] = Blank /\ ~Live(s)
  BY <1>2, BlankRecord DEF Live, Slots
<1>4. TypeOK
  <2>1. records \in [Slots -> RecordType]
    BY <1>2, BlankRecord
  <2>2. size \in 0 .. MaxRecords
    BY <1>2, PromiseAssumption
  <2>3. held \in [Threads -> [Handles -> 0 .. MaxHeld]]
    BY <1>2, PromiseAssumption
  <2>4. dropping \in [Threads -> Seq(Handles)]
    BY <1>2
  <2>5. fate \in [DOMAIN continuations -> Fates]
    BY <1>2
  <2>6. /\ free \in Seq(Slots) /\ ready \in Seq(Slots)
        /\ continuations \in Seq([promise : Handles, captured : HandlesOrNothing])
        /\ frames \in Seq([round : 0 .. limit, calling : 0 .. MaxContinuations,
                           handle : HandlesOrNothing,
                           state : {"Pending", "Fulfilled", "Rejected"}])
    BY <1>2
  <2>. QED
    BY <1>2, <2>1, <2>2, <2>3, <2>4, <2>5, <2>6 DEF TypeOK, RecordType
<1>5. IsInjective(<<>>) /\ Range(<<>>) = {}
  BY DEF IsInjective, Range
<1>6. QueueSound /\ FreeSound
  BY <1>2, <1>3, <1>5, BlankRecord DEF QueueSound, FreeSound
<1>7. ListsSound
  BY <1>2, <1>3, <1>5, BlankRecord DEF ListsSound
<1>8. FramesSound /\ NoLostDispatch /\ CalledInOrder /\ NoneLost
  BY <1>2 DEF FramesSound, NoLostDispatch, CalledInOrder, NoneLost
<1>9. ShutdownSound
  BY <1>2 DEF ShutdownSound
<1>10. ASSUME NEW g \in Handles
       PROVE  /\ HeldBy(g) = {} /\ DroppedBy(g) = {} /\ CapturedIn(g) = {}
              /\ QueuedAs(g) = {} /\ RoundsOf(g) = {} /\ ~Live(g.slot)
  <2>1. g.slot \in Slots
    BY DEF Handles
  <2>2. HeldBy(g) = {}
    <3>1. \A t \in Threads : 1 .. held[t][g] = {}
      BY <1>2
    <3>. QED
      BY <3>1 DEF HeldBy, Pairs
  <2>3. DroppedBy(g) = {}
    BY <1>2 DEF DroppedBy, Pairs
  <2>. QED
    BY <1>2, <1>3, <2>1, <2>2, <2>3 DEF CapturedIn, QueuedAs, RoundsOf, Range
<1>11. Countable /\ ReferencesAccounted
  BY <1>10, FS_EmptySet, SMTT(30) DEF Countable, ReferencesAccounted, Users
<1>. QED
  BY <1>4, <1>6, <1>7, <1>8, <1>9, <1>11 DEF Inv

-----------------------------------------------------------------------------
(* Settling and registering.                                                 *)

\* Make_Ready is given a live record r for the slot s, and a queue without s
\* unless r says so.
Fits(s, r, queue) ==
    /\ s \in Slots /\ Live(s) /\ r \in RecordType
    /\ r.generation = records[s].generation /\ r.references = records[s].references
    /\ r.ready => r.state # "Pending"
    /\ queue \in Seq(Slots) /\ IsInjective(queue) /\ (r.ready <=> s \in Range(queue))
    /\ \A u \in Slots : u # s => (records[u].ready <=> u \in Range(queue))
    /\ MakeReady(s, r, queue)
    /\ UNCHANGED <<size, free, released>>

\* What it leaves.
Made(s, r, queue) ==
    /\ records' \in [Slots -> RecordType] /\ \A u \in Slots : u # s => records'[u] = records[u]
    /\ records'[s].generation = r.generation /\ records'[s].state = r.state
    /\ records'[s].first = r.first
    /\ records'[s].references = r.references + (IF NewlyReady(r) THEN 1 ELSE 0)
    /\ records'[s].references \in Nat /\ records[s].references \in Nat
    /\ ready' \in Seq(Slots) /\ Range(ready') = Range(queue) \union (IF NewlyReady(r) THEN {s} ELSE {})
    /\ NewlyReady(r) => s \notin Range(queue)
    /\ requested' \in BOOLEAN
    /\ ready' # <<>> /\ ~released => requested' \/ (queue # <<>> /\ requested' = requested)
    /\ QueueSound' /\ FreeSound'
    /\ \A u \in Slots : (Live(u)' <=> Live(u)) /\ HandleOf(u)' = HandleOf(u)

\* It does.
LEMMA MakesReady ==
    ASSUME Inv, NEW s, NEW r, NEW queue, Fits(s, r, queue)
    PROVE  Made(s, r, queue)
<1>0. /\ s \in Slots /\ Live(s) /\ r \in RecordType
      /\ r.generation = records[s].generation /\ r.references = records[s].references
      /\ (r.ready => r.state # "Pending")
      /\ queue \in Seq(Slots) /\ IsInjective(queue) /\ (r.ready <=> s \in Range(queue))
      /\ MakeReady(s, r, queue)
      /\ UNCHANGED <<size, free, released>>
  BY DEF Fits
<1>1. \A u \in Slots : u # s => (records[u].ready <=> u \in Range(queue))
  BY DEF Fits
<1>2. TypeOK
  BY DEF Inv
<1>3. /\ r.references \in Nat /\ r.references # 0 /\ r.ready \in BOOLEAN
  BY <1>0 DEF RecordType, Live
<1>4. PICK w \in RecordType :
        /\ w = [r EXCEPT !.ready = TRUE, !.references = @ + 1]
        /\ w.ready /\ w.references = r.references + 1 /\ w.generation = r.generation
        /\ w.state = r.state /\ w.first = r.first
  <2>1. PICK w : w = [r EXCEPT !.ready = TRUE, !.references = @ + 1]
    OBVIOUS
  <2>2. r.references + 1 \in Nat
    BY <1>3
  <2>3. /\ w \in RecordType /\ w.ready /\ w.references = r.references + 1
        /\ w.generation = r.generation /\ w.state = r.state /\ w.first = r.first
    BY <1>0, <2>1, <2>2 DEF RecordType
  <2>. QED
    BY <2>1, <2>3
<1>5. PICK x \in RecordType :
        /\ x = (IF NewlyReady(r) THEN w ELSE r) /\ records' = [records EXCEPT ![s] = x]
  <2>1. w = Queued(r)
    BY <1>4 DEF Queued
  <2>. QED
    BY <1>0, <1>4, <2>1 DEF MakeReady
<1>6. /\ records' \in [Slots -> RecordType] /\ records'[s] = x
      /\ \A u \in Slots : u # s => records'[u] = records[u]
  BY <1>0, <1>2, <1>5, RecordFields
<1>7. /\ x.generation = r.generation /\ x.state = r.state /\ x.first = r.first
      /\ x.references = r.references + (IF NewlyReady(r) THEN 1 ELSE 0)
      /\ x.references \in Nat /\ x.references # 0
      /\ x.ready <=> r.ready \/ NewlyReady(r)
  <2>1. CASE NewlyReady(r)
    BY <1>3, <1>4, <1>5, <2>1
  <2>2. CASE ~NewlyReady(r)
    BY <1>3, <1>5, <2>2
  <2>. QED
    BY <2>1, <2>2
<1>8. /\ ready' \in Seq(Slots) /\ IsInjective(ready')
      /\ Range(ready') = Range(queue) \union (IF NewlyReady(r) THEN {s} ELSE {})
      /\ NewlyReady(r) => s \notin Range(queue) /\ ready' # <<>>
      /\ ~NewlyReady(r) => ready' = queue
  <2>1. CASE NewlyReady(r)
    <3>1. s \notin Range(queue)
      BY <1>0, <2>1 DEF NewlyReady
    <3>2. PICK l : l = <<s>> /\ l \in Seq(Slots) /\ IsInjective(l) /\ Range(l) = {s}
      <4>1. PICK l : l = <<s>>
        OBVIOUS
      <4>2. l \in Seq(Slots) /\ DOMAIN l = {1} /\ l[1] = s
        BY <1>0, <4>1
      <4>3. IsInjective(l) /\ Range(l) = {s}
        BY <4>2 DEF IsInjective, Range
      <4>. QED
        BY <4>1, <4>2, <4>3
    <3>3. Apart(queue, l, Slots)
      BY <1>0, <3>1, <3>2 DEF Apart
    <3>4. ready' = queue \o l /\ ready' # <<>>
      BY <1>0, <2>1, <3>2 DEF MakeReady
    <3>5. /\ queue \o l \in Seq(Slots) /\ IsInjective(queue \o l)
          /\ Range(queue \o l) = Range(queue) \union Range(l)
      BY <3>3, Joined
    <3>. QED
      BY <2>1, <3>1, <3>2, <3>4, <3>5
  <2>2. CASE ~NewlyReady(r)
    BY <1>0, <2>2 DEF MakeReady
  <2>. QED
    BY <2>1, <2>2
<1>9. requested' \in BOOLEAN
  BY <1>0, <1>2 DEF MakeReady, Request, TypeOK, Accepts
<1>10. ready' # <<>> /\ ~released => requested' \/ (queue # <<>> /\ requested' = requested)
  <2>1. CASE NewlyReady(r)
    BY <1>0, <2>1 DEF MakeReady, Request, Accepts
  <2>2. CASE ~NewlyReady(r)
    BY <1>0, <2>2 DEF MakeReady
  <2>. QED
    BY <2>1, <2>2
<1>11. \A u \in Slots : (Live(u)' <=> Live(u)) /\ HandleOf(u)' = HandleOf(u)
  BY <1>0, <1>6, <1>7 DEF Live, HandleOf
<1>12. QueueSound'
  <2>1. \A u \in Slots : records'[u].ready <=> u \in Range(ready')
    BY <1>0, <1>1, <1>6, <1>7, <1>8
  <2>2. ASSUME NEW u \in Slots
        PROVE  /\ records'[u].ready => Live(u)' /\ records'[u].state # "Pending"
               /\ Live(u)' /\ records'[u].state # "Pending" /\ records'[u].first # <<>>
                    => records'[u].ready
    <3>1. CASE u = s
      BY <1>0, <1>6, <1>7, <1>11, <3>1 DEF NewlyReady
    <3>2. CASE u # s
      BY <1>6, <1>11, <3>2 DEF Inv, QueueSound
    <3>. QED
      BY <3>1, <3>2
  <2>. QED
    BY <1>8, <2>1, <2>2 DEF QueueSound
<1>13. FreeSound'
  <2>1. \A u \in Range(free) : u \in Slots /\ u # s
    <3>1. \A u \in Range(free) : u \in Slots
      BY <1>2 DEF TypeOK, Range
    <3>. QED
      BY <1>0, <3>1 DEF Inv, FreeSound, Live
  <2>2. \A u \in Range(free') : u <= size' /\ records'[u].references = 0
    BY <1>0, <1>6, <2>1 DEF Inv, FreeSound
  <2>3. \A u \in Slots : ~Live(u)' => records'[u].first = <<>> /\ ~records'[u].ready
    BY <1>0, <1>6, <1>11 DEF Inv, FreeSound
  <2>4. \A u \in Slots : Live(u)' => records'[u].generation # 0
    BY <1>0, <1>6, <1>7, <1>11 DEF Inv, FreeSound
  <2>. QED
    BY <1>0, <2>2, <2>3, <2>4 DEF Inv, FreeSound
<1>. QED
  BY <1>0, <1>3, <1>6, <1>7, <1>8, <1>9, <1>10, <1>11, <1>12, <1>13 DEF Made

\* A settled or registered one has another reference if it is queued now.
LEMMA QueuedMore ==
    ASSUME TypeOK, NEW s, NEW r, Made(s, r, ready), s \in Slots, NEW g \in Handles
    PROVE  Cardinality(QueuedAs(g)') = Cardinality(QueuedAs(g))
                + (IF NewlyReady(r) /\ g = HandleOf(s) THEN 1 ELSE 0)
<1>1. g.slot \in Slots
  BY DEF Handles
<1>2. /\ Range(ready') = Range(ready) \union (IF NewlyReady(r) THEN {s} ELSE {})
      /\ HandleOf(g.slot)' = HandleOf(g.slot)
      /\ NewlyReady(r) => s \notin Range(ready)
  BY <1>1 DEF Made
<1>3. g = HandleOf(s) <=> g.slot = s /\ g = HandleOf(g.slot)
  BY DEF HandleOf
<1>4. QueuedWith(g)' <=> QueuedWith(g) \/ (NewlyReady(r) /\ g = HandleOf(s))
  BY <1>2, <1>3 DEF QueuedWith
<1>5. QueuedWith(g) => ~(NewlyReady(r) /\ g = HandleOf(s))
  BY <1>2, <1>3 DEF QueuedWith
<1>6. Cardinality(QueuedAs(g)) = (IF QueuedWith(g) THEN 1 ELSE 0)
  BY QueuedCount
<1>7. Cardinality(QueuedAs(g)') = (IF QueuedWith(g)' THEN 1 ELSE 0)
  BY QueuedCountNext
<1>. QED
  BY <1>4, <1>5, <1>6, <1>7

\* A promise is settled.
LEMMA SettleStep ==
    ASSUME Inv, NEW t \in Threads, Settle(t)
    PROVE  Inv'
<1>1. PICK h \in Handles, result \in Outcomes :
        /\ held[t][h] > 0 /\ Find(h) /\ Settles(records[h.slot])
        /\ MakeReady(h.slot, [records[h.slot] EXCEPT !.state = result], ready)
  BY DEF Settle
<1>2. UNCHANGED <<limit, size, free, stopping, released, shutdown, frames, held, dropping,
                  continuations, fate>>
  BY DEF Settle
<1>3. TypeOK /\ Countable /\ ReferencesAccounted
  BY DEF Inv
<1>4. shutdown # "down"
  BY <1>1, NothingFound DEF Inv
<1>5. Names(h)
  BY <1>1, <1>3, <1>4, HolderNames
<1>6. PICK s \in Slots : s = h.slot /\ Live(s) /\ h = HandleOf(s)
  BY <1>5 DEF Names
<1>7. PICK r \in RecordType :
        /\ r = [records[s] EXCEPT !.state = result]
        /\ r.state = result /\ r.state # "Pending" /\ r.generation = records[s].generation
        /\ r.references = records[s].references /\ r.first = records[s].first
        /\ r.ready = records[s].ready
  <2>1. PICK q \in RecordType : q = records[s]
    BY <1>3, RecordFields
  <2>2. result \in {"Fulfilled", "Rejected"}
    BY <1>1, PromiseAssumption
  <2>3. PICK r : r = [q EXCEPT !.state = result]
    OBVIOUS
  <2>4. /\ r \in RecordType /\ r.state = result /\ r.generation = q.generation
        /\ r.references = q.references /\ r.first = q.first /\ r.ready = q.ready
    BY <2>1, <2>2, <2>3 DEF RecordType
  <2>. QED
    BY <2>1, <2>2, <2>3, <2>4
<1>8. records[s].state = "Pending" /\ ~records[s].ready
  BY <1>1, <1>6 DEF Settles, Inv, QueueSound
<1>9. Made(s, r, ready)
  <2>1. Fits(s, r, ready)
    BY <1>1, <1>2, <1>3, <1>6, <1>7, <1>8 DEF Fits, Inv, QueueSound, TypeOK
  <2>. QED
    BY <2>1, MakesReady
<1>10. /\ records' \in [Slots -> RecordType] /\ \A u \in Slots : u # s => records'[u] = records[u]
       /\ records'[s].generation = records[s].generation /\ records'[s].state = result
       /\ records'[s].first = records[s].first
       /\ ready' \in Seq(Slots) /\ requested' \in BOOLEAN
       /\ QueueSound' /\ FreeSound'
       /\ \A u \in Slots : (Live(u)' <=> Live(u)) /\ HandleOf(u)' = HandleOf(u)
  BY <1>7, <1>9 DEF Made
<1>11. TypeOK'
  BY <1>2, <1>3, <1>10 DEF TypeOK, RecordType
<1>12. NoLostDispatch'
  <2>1. ready' # <<>> /\ ~released => requested' \/ (ready # <<>> /\ requested' = requested)
    BY <1>9 DEF Made
  <2>. QED
    BY <1>2, <2>1 DEF Inv, NoLostDispatch
<1>13. ListsSound'
  <2>1. \A u \in Slots : records'[u].first = records[u].first
    BY <1>10
  <2>. QED
    BY <1>2, <1>10, <2>1 DEF Inv, ListsSound, Lists
<1>14. FramesSound'
  <2>1. ASSUME NEW i \in DOMAIN frames, frames[i].calling # 0
        PROVE  records'[frames[i].handle.slot].state = records[frames[i].handle.slot].state
    <3>1. /\ frames[i].handle \in Handles
          /\ records[frames[i].handle.slot].state # "Pending"
      BY <2>1 DEF Inv, FramesSound
    <3>2. frames[i].handle.slot \in Slots /\ frames[i].handle.slot # s
      BY <1>8, <3>1 DEF Handles
    <3>. QED
      BY <1>10, <3>2
  <2>. QED
    BY <1>2, <2>1 DEF Inv, FramesSound
<1>15. ~stopping
  BY <1>6, <1>8 DEF Inv, ShutdownSound
<1>16. ShutdownSound'
  BY <1>2, <1>15 DEF Inv, ShutdownSound
<1>17. CalledInOrder' /\ NoneLost'
  BY <1>2 DEF Inv, CalledInOrder, NoneLost
<1>18. ASSUME NEW g \in Handles
       PROVE  /\ IsFiniteSet(HeldBy(g)') /\ IsFiniteSet(DroppedBy(g)')
              /\ Users(g)' = Owned(g)'
  <2>1. Numbers(g) /\ Users(g) = Owned(g)
    BY <1>3, <1>4, UsersAreNumbers DEF ReferencesAccounted, Owned
  <2>2. HeldBy(g)' = HeldBy(g) /\ DroppedBy(g)' = DroppedBy(g)
    BY <1>2 DEF HeldBy, DroppedBy
  <2>3. CapturedIn(g)' = CapturedIn(g) /\ RoundsOf(g)' = RoundsOf(g)
    BY <1>2, SameClosures
  <2>4. PICK z \in Nat : z = IF NewlyReady(r) /\ g = h THEN 1 ELSE 0
    OBVIOUS
  <2>5. Cardinality(QueuedAs(g)') = Cardinality(QueuedAs(g)) + z
    BY <1>3, <1>6, <1>9, <2>4, QueuedMore
  <2>6. Owned(g)' = Owned(g) + z
    <3>1. PICK n \in Nat, m \in Nat : n = records'[s].references /\ m = records[s].references
      BY <1>9 DEF Made
    <3>2. n = m + (IF NewlyReady(r) THEN 1 ELSE 0)
      BY <1>7, <1>9, <3>1 DEF Made
    <3>3. /\ Owned(g) \in Nat
          /\ Owned(g)' = Owned(g) + (IF g = h THEN n - records[h.slot].references ELSE 0)
      BY <1>2, <1>3, <1>5, <1>6, <1>10, <3>1, OwnedChange
    <3>4. n - m = IF NewlyReady(r) THEN 1 ELSE 0
      BY <3>1, <3>2
    <3>5. Owned(g)' = Owned(g) + (IF g = h THEN n - m ELSE 0)
      BY <1>6, <3>1, <3>3
    <3>6. z = IF g = h THEN n - m ELSE 0
      BY <2>4, <3>4
    <3>. QED
      BY <3>5, <3>6
  <2>7. Users(g)' = Users(g) + z
    <3>1. PICK a \in Nat, d \in Nat, k \in Nat, e \in Nat, f \in Nat :
            /\ a = Cardinality(HeldBy(g)) /\ d = Cardinality(DroppedBy(g))
            /\ k = Cardinality(CapturedIn(g)) /\ e = Cardinality(QueuedAs(g))
            /\ f = Cardinality(RoundsOf(g))
      BY <2>1 DEF Numbers
    <3>2. Users(g) = a + d + k + e + f /\ Users(g)' = a + d + k + (e + z) + f
      BY <2>2, <2>3, <2>5, <3>1 DEF Users
    <3>3. a + d + k + (e + z) + f = (a + d + k + e + f) + z
      <4>1. /\ a \in Nat /\ d \in Nat /\ k \in Nat /\ e \in Nat /\ f \in Nat /\ z \in Nat
        BY <2>4, <3>1
      <4>. QED
        BY <4>1
    <3>. QED
      BY <3>2, <3>3
  <2>. QED
    BY <1>3, <2>1, <2>2, <2>6, <2>7 DEF Countable
<1>19. Countable' /\ ReferencesAccounted'
  BY <1>18 DEF Countable, ReferencesAccounted, Owned
<1>. QED
  BY <1>10, <1>11, <1>12, <1>13, <1>14, <1>16, <1>17, <1>19 DEF Inv

\* A list with one more at its end.
LEMMA Appended ==
    ASSUME NEW S, NEW q \in Seq(S), NEW x \in S
    PROVE  /\ Append(q, x) \in Seq(S) /\ Append(q, x) # <<>>
           /\ Len(q) \in Nat /\ DOMAIN q = 1 .. Len(q)
           /\ DOMAIN Append(q, x) = 1 .. (Len(q) + 1)
           /\ Append(q, x)[Len(q) + 1] = x
           /\ \A i \in DOMAIN q : Append(q, x)[i] = q[i]
           /\ Range(Append(q, x)) = Range(q) \union {x}
<1>1. PICK n \in Nat : n = Len(q) /\ DOMAIN q = 1 .. n
  OBVIOUS
<1>2. PICK r : r = Append(q, x)
  OBVIOUS
<1>3. /\ r \in Seq(S) /\ r # <<>> /\ DOMAIN r = 1 .. (n + 1) /\ r[n + 1] = x
      /\ \A i \in 1 .. n : r[i] = q[i]
  BY <1>1, <1>2
<1>4. Range(r) = Range(q) \union {x}
  <2>1. \A i \in 1 .. (n + 1) : i \in 1 .. n \/ i = n + 1
    BY <1>1
  <2>2. n + 1 \in 1 .. (n + 1) /\ \A i \in 1 .. n : i \in 1 .. (n + 1)
    BY <1>1
  <2>. QED
    BY <1>1, <1>3, <2>1, <2>2 DEF Range
<1>. QED
  BY <1>1, <1>2, <1>3, <1>4

\* A thread hands a reference to a closure, or none.
Hands(t, h) ==
    /\ t \in Threads /\ h \in HandlesOrNothing
    /\ h # Nothing => held[t][h] > 0
    /\ held' = IF h = Nothing THEN held ELSE [held EXCEPT ![t][h] = @ - 1]

\* It holds one less.
LEMMA HandsOne ==
    ASSUME TypeOK, Countable, NEW t, NEW h, Hands(t, h)
    PROVE  /\ held' \in [Threads -> [Handles -> 0 .. MaxHeld]]
           /\ \A g \in Handles :
                /\ IsFiniteSet(HeldBy(g)') /\ Cardinality(HeldBy(g)) \in Nat
                /\ Cardinality(HeldBy(g)') \in Nat
                /\ Cardinality(HeldBy(g)') = Cardinality(HeldBy(g)) - (IF g = h THEN 1 ELSE 0)
<1>0. /\ t \in Threads /\ h \in HandlesOrNothing /\ (h # Nothing => held[t][h] > 0)
      /\ held' = IF h = Nothing THEN held ELSE [held EXCEPT ![t][h] = @ - 1]
  BY DEF Hands
<1>1. CASE h = Nothing
  <2>1. held' = held
    BY <1>0, <1>1
  <2>2. \A g \in Handles : g # h
    BY <1>1, Entries
  <2>3. \A g : HeldBy(g)' = HeldBy(g)
    BY <2>1 DEF HeldBy
  <2>4. \A g \in Handles : IsFiniteSet(HeldBy(g)) /\ Cardinality(HeldBy(g)) \in Nat
    BY FS_CardinalityType DEF Countable
  <2>. QED
    BY <2>1, <2>2, <2>3, <2>4 DEF TypeOK
<1>2. CASE h # Nothing
  <2>1. h \in Handles /\ held[t][h] > 0 /\ held' = [held EXCEPT ![t][h] = @ - 1]
    BY <1>0, <1>2 DEF HandlesOrNothing
  <2>2. PICK k \in Nat : held[t][h] = k + 1 /\ k <= MaxHeld
    <3>1. held[t][h] \in Nat /\ held[t][h] <= MaxHeld /\ MaxHeld \in Nat
      BY <1>0, <2>1, PromiseAssumption DEF TypeOK
    <3>2. PICK k \in Nat : k = held[t][h] - 1
      BY <2>1, <3>1
    <3>. QED
      BY <3>1, <3>2
  <2>3. held' = [held EXCEPT ![t][h] = k]
    <3>1. held[t][h] - 1 = k
      BY <2>2
    <3>. QED
      BY <2>1, <3>1
  <2>4. Holds(t, h, k) /\ held' \in [Threads -> [Handles -> 0 .. MaxHeld]]
    <3>1. k \in 0 .. MaxHeld
      BY <2>2, PromiseAssumption
    <3>2. held' \in [Threads -> [Handles -> 0 .. MaxHeld]]
      BY <1>0, <2>1, <2>3, <3>1, HeldTyped
    <3>. QED
      BY <2>1, <2>2, <2>3, <3>2 DEF Holds
  <2>5. ASSUME NEW g \in Handles
        PROVE  /\ IsFiniteSet(HeldBy(g)') /\ Cardinality(HeldBy(g)) \in Nat
               /\ Cardinality(HeldBy(g)') \in Nat
               /\ Cardinality(HeldBy(g)') = Cardinality(HeldBy(g)) - (IF g = h THEN 1 ELSE 0)
    <3>1. /\ IsFiniteSet(HeldBy(g)')
          /\ Cardinality(HeldBy(g)) \in Nat /\ Cardinality(HeldBy(g)') \in Nat
          /\ Cardinality(HeldBy(g)') =
               Cardinality(HeldBy(g)) + (IF g = h THEN k - held[t][h] ELSE 0)
      BY <2>4, HeldChange
    <3>. QED
      BY <2>2, <3>1
  <2>. QED
    BY <2>4, <2>5
<1>. QED
  BY <1>1, <1>2

\* A continuation that cannot be registered is destroyed.
LEMMA RefusedStep ==
    ASSUME Inv, NEW t, NEW captured, Hands(t, captured), dropping[t] = <<>>,
           dropping' = [dropping EXCEPT
                            ![t] = IF captured = Nothing THEN <<>> ELSE <<captured>>],
           UNCHANGED <<limit, records, size, free, ready, stopping, requested, released,
                       shutdown, frames, continuations, fate>>
    PROVE  Inv'
<1>1. TypeOK /\ Countable /\ ReferencesAccounted /\ t \in Threads
      /\ captured \in HandlesOrNothing
  BY DEF Inv, Hands
<1>2. PICK q \in Seq(Handles) :
        /\ q = (IF captured = Nothing THEN <<>> ELSE <<captured>>)
        /\ \A g \in Handles : Count(q, g) = IF g = captured THEN 1 ELSE 0
  <2>1. CASE captured = Nothing
    <3>1. \A g \in Handles : g # captured
      BY <1>1, <2>1, Entries
    <3>2. <<>> \in Seq(Handles)
      OBVIOUS
    <3>. QED
      BY <2>1, <3>1, <3>2, CountNothing
  <2>2. CASE captured # Nothing
    <3>1. captured \in Handles
      BY <1>1, <2>2 DEF HandlesOrNothing
    <3>2. <<captured>> \in Seq(Handles)
      BY <3>1
    <3>. QED
      BY <2>2, <3>2, CountOne
  <2>. QED
    BY <2>1, <2>2
<1>3. Drops(t, q)
  BY <1>1, <1>2 DEF Drops
<1>4. dropping' \in [Threads -> Seq(Handles)]
  BY <1>1, <1>3 DEF TypeOK, Drops
<1>5. held' \in [Threads -> [Handles -> 0 .. MaxHeld]]
  BY <1>1, HandsOne
<1>6. ASSUME NEW g \in Handles
      PROVE  /\ IsFiniteSet(HeldBy(g)') /\ IsFiniteSet(DroppedBy(g)')
             /\ Users(g)' = Users(g)
  <2>1. Numbers(g)
    BY <1>1, UsersAreNumbers
  <2>2. /\ IsFiniteSet(HeldBy(g)')
        /\ Cardinality(HeldBy(g)') = Cardinality(HeldBy(g)) - (IF g = captured THEN 1 ELSE 0)
    BY <1>1, HandsOne
  <2>3. /\ IsFiniteSet(DroppedBy(g)')
        /\ Cardinality(DroppedBy(g)') =
             Cardinality(DroppedBy(g)) + Count(q, g) - Count(dropping[t], g)
    BY <1>1, <1>3, DroppedChange
  <2>4. Count(dropping[t], g) = 0 /\ Count(q, g) = (IF g = captured THEN 1 ELSE 0)
    BY <1>2, CountNothing
  <2>5. CapturedIn(g)' = CapturedIn(g) /\ RoundsOf(g)' = RoundsOf(g)
    BY SameClosures
  <2>6. QueuedAs(g)' = QueuedAs(g)
    BY DEF QueuedAs, HandleOf
  <2>7. PICK a \in Nat, d \in Nat, k \in Nat, e \in Nat, f \in Nat, z \in Nat :
            /\ a = Cardinality(HeldBy(g)) /\ d = Cardinality(DroppedBy(g))
            /\ k = Cardinality(CapturedIn(g)) /\ e = Cardinality(QueuedAs(g))
            /\ f = Cardinality(RoundsOf(g)) /\ z = (IF g = captured THEN 1 ELSE 0)
    BY <2>1 DEF Numbers
  <2>8. Cardinality(HeldBy(g)') = a - z /\ Cardinality(DroppedBy(g)') = d + z
    BY <2>2, <2>3, <2>4, <2>7
  <2>9. Users(g) = a + d + k + e + f /\ Users(g)' = (a - z) + (d + z) + k + e + f
    BY <2>5, <2>6, <2>7, <2>8 DEF Users
  <2>10. (a - z) + (d + z) + k + e + f = a + d + k + e + f
    <3>1. /\ a \in Nat /\ d \in Nat /\ k \in Nat /\ e \in Nat /\ f \in Nat /\ z \in Nat
      BY <2>7
    <3>. QED
      BY <3>1
  <2>. QED
    BY <2>2, <2>3, <2>9, <2>10
<1>7. Countable'
  BY <1>6 DEF Countable
<1>8. CASE shutdown = "down"
  BY <1>4, <1>5, <1>7, <1>8, LateStep
<1>9. CASE shutdown # "down"
  <2>1. Alike
    BY DEF Alike
  <2>2. /\ QueueSound' /\ FreeSound' /\ ListsSound' /\ FramesSound' /\ ShutdownSound'
        /\ CalledInOrder' /\ NoneLost'
        /\ \A s \in Slots : (Live(s)' <=> Live(s)) /\ HandleOf(s)' = HandleOf(s)
    BY <1>9, <2>1, AlikeStep
  <2>3. TypeOK'
    BY <1>1, <1>4, <1>5 DEF TypeOK
  <2>4. NoLostDispatch'
    BY DEF Inv, NoLostDispatch
  <2>5. \A g \in Handles : g.slot \in Slots
    BY DEF Handles
  <2>6. ReferencesAccounted'
    BY <1>1, <1>6, <2>2, <2>5 DEF ReferencesAccounted
  <2>. QED
    BY <1>7, <2>2, <2>3, <2>4, <2>6 DEF Inv
<1>. QED
  BY <1>8, <1>9

\* A continuation is registered.
LEMMA AddStep ==
    ASSUME Inv, NEW t \in Threads, Add(t)
    PROVE  Inv'
<1>1. PICK h \in Handles, captured \in HandlesOrNothing :
        /\ held[t][h] > 0 /\ Hands(t, captured)
        /\ IF Find(h) /\ ~stopping
           THEN /\ MakeReady(h.slot, Added(records[h.slot], Len(continuations) + 1), ready)
                /\ continuations' = Append(continuations, [promise |-> h, captured |-> captured])
                /\ fate' = Append(fate, "waiting")
                /\ UNCHANGED dropping
           ELSE /\ dropping' = [dropping EXCEPT
                        ![t] = IF captured = Nothing THEN <<>> ELSE <<captured>>]
                /\ UNCHANGED <<records, ready, requested, continuations, fate>>
  <2>1. PICK h \in Handles, captured \in HandlesOrNothing :
            /\ held[t][h] > 0
            /\ captured # Nothing => held[t][captured] > (IF captured = h THEN 1 ELSE 0)
            /\ held' = IF captured = Nothing THEN held ELSE [held EXCEPT ![t][captured] = @ - 1]
            /\ IF Find(h) /\ ~stopping
               THEN /\ MakeReady(h.slot, Added(records[h.slot], Len(continuations) + 1), ready)
                    /\ continuations' = Append(continuations,
                                               [promise |-> h, captured |-> captured])
                    /\ fate' = Append(fate, "waiting")
                    /\ UNCHANGED dropping
               ELSE /\ dropping' = [dropping EXCEPT
                            ![t] = IF captured = Nothing THEN <<>> ELSE <<captured>>]
                    /\ UNCHANGED <<records, ready, requested, continuations, fate>>
    BY DEF Add, HandlesOrNothing
  <2>2. captured # Nothing => held[t][captured] > 0
    <3>1. SUFFICES ASSUME captured # Nothing PROVE held[t][captured] > 0
      OBVIOUS
    <3>2. captured \in Handles
      BY <3>1 DEF HandlesOrNothing
    <3>3. held[t][captured] \in Nat
      BY <3>2 DEF Inv, TypeOK
    <3>. QED
      BY <2>1, <3>1, <3>3
  <2>3. Hands(t, captured)
    BY <2>1, <2>2 DEF Hands
  <2>. QED
    BY <2>1, <2>3
<1>2. /\ dropping[t] = <<>> /\ Len(continuations) < MaxContinuations
      /\ UNCHANGED <<limit, size, free, stopping, released, shutdown, frames>>
  BY DEF Add, InModule
<1>3. CASE ~(Find(h) /\ ~stopping)
  BY <1>1, <1>2, <1>3, RefusedStep
<1>4. CASE Find(h) /\ ~stopping
  <2>1. TypeOK /\ Countable /\ ReferencesAccounted /\ ListsSound
    BY DEF Inv
  <2>2. shutdown # "down" /\ shutdown # "retire"
    BY <1>4 DEF Inv, ShutdownSound
  <2>3. Names(h)
    BY <1>1, <2>1, <2>2, HolderNames
  <2>4. PICK s \in Slots : s = h.slot /\ Live(s) /\ h = HandleOf(s)
    BY <2>3 DEF Names
  <2>5. PICK n \in Nat, c \in Ids :
            /\ n = Len(continuations) /\ c = n + 1 /\ DOMAIN continuations = 1 .. n
            /\ DOMAIN fate = 1 .. n
    <3>1. /\ DOMAIN continuations = 1 .. Len(continuations) /\ Len(continuations) \in Nat
          /\ DOMAIN fate = DOMAIN continuations
      BY <2>1, Entries DEF TypeOK
    <3>2. Len(continuations) + 1 \in Ids
      BY <1>2, <3>1, PromiseAssumption DEF Ids
    <3>. QED
      BY <3>1, <3>2
  <2>6. PICK q \in Seq(Ids) : q = records[s].first /\ Append(q, c) \in Seq(Ids)
            /\ \A i \in DOMAIN q : q[i] \in 1 .. n
    <3>1. records[s].first \in Seq(Ids)
      BY <2>1, RecordFields
    <3>2. \A i \in DOMAIN records[s].first : records[s].first[i] \in DOMAIN fate
      BY <2>1, <2>4 DEF ListsSound, Range
    <3>. QED
      BY <2>5, <3>1, <3>2
  <2>7. PICK m \in Nat, p \in Seq(Ids) :
            /\ p = Append(q, c) /\ m = Len(q) /\ p # <<>>
            /\ DOMAIN q = 1 .. m /\ DOMAIN p = 1 .. (m + 1) /\ p[m + 1] = c
            /\ (\A i \in 1 .. m : p[i] = q[i]) /\ Range(p) = Range(q) \union {c}
    <3>1. PICK p \in Seq(Ids) : p = Append(q, c)
      BY <2>6
    <3>2. PICK m \in Nat : m = Len(q) /\ DOMAIN q = 1 .. m
      BY <2>6
    <3>3. /\ p # <<>> /\ DOMAIN p = 1 .. (m + 1) /\ p[m + 1] = c
          /\ (\A i \in 1 .. m : p[i] = q[i]) /\ Range(p) = Range(q) \union {c}
      BY <3>1, <3>2, Appended
    <3>. QED
      BY <3>1, <3>2, <3>3
  <2>8. PICK r \in RecordType :
            /\ r = Added(records[s], c) /\ r.first = p
            /\ r.generation = records[s].generation /\ r.state = records[s].state
            /\ r.references = records[s].references /\ r.ready = records[s].ready
    <3>1. PICK o \in RecordType : o = records[s]
      BY <2>1, RecordFields
    <3>2. PICK r : r = [o EXCEPT !.first = p]
      OBVIOUS
    <3>3. /\ r \in RecordType /\ r.first = p /\ r.generation = o.generation
          /\ r.state = o.state /\ r.references = o.references /\ r.ready = o.ready
      BY <2>7, <3>1, <3>2 DEF RecordType
    <3>4. r = Added(records[s], c)
      BY <2>6, <2>7, <3>1, <3>2 DEF Added
    <3>. QED
      BY <3>1, <3>3, <3>4
  <2>9. /\ MakeReady(s, r, ready)
        /\ continuations' = Append(continuations, [promise |-> h, captured |-> captured])
        /\ fate' = Append(fate, "waiting") /\ dropping' = dropping
    BY <1>1, <1>4, <2>4, <2>5, <2>8
  <2>10. Made(s, r, ready)
    <3>1. Fits(s, r, ready)
      BY <1>2, <2>1, <2>4, <2>8, <2>9 DEF Fits, Inv, QueueSound, TypeOK
    <3>. QED
      BY <3>1, MakesReady
  <2>11. /\ records' \in [Slots -> RecordType]
         /\ \A u \in Slots : u # s => records'[u] = records[u]
         /\ records'[s].generation = records[s].generation
         /\ records'[s].state = records[s].state /\ records'[s].first = p
         /\ ready' \in Seq(Slots) /\ requested' \in BOOLEAN
         /\ QueueSound' /\ FreeSound'
         /\ \A u \in Slots : (Live(u)' <=> Live(u)) /\ HandleOf(u)' = HandleOf(u)
    BY <2>8, <2>10 DEF Made
  <2>12. /\ continuations' \in Seq([promise : Handles, captured : HandlesOrNothing])
         /\ DOMAIN continuations' = 1 .. c
         /\ continuations'[c].promise = h /\ continuations'[c].captured = captured
         /\ \A d \in 1 .. n : continuations'[d] = continuations[d]
    <3>. DEFINE C == [promise : Handles, captured : HandlesOrNothing]
    <3>1. PICK x \in C : /\ x = [promise |-> h, captured |-> captured]
                         /\ x.promise = h /\ x.captured = captured
      <4>1. PICK x : x = [promise |-> h, captured |-> captured]
        OBVIOUS
      <4>2. x \in C /\ x.promise = h /\ x.captured = captured
        BY <1>1, <4>1
      <4>. QED
        BY <4>1, <4>2
    <3>2. continuations \in Seq(C)
      BY <2>1 DEF TypeOK
    <3>. HIDE DEF C
    <3>3. /\ Append(continuations, x) \in Seq(C)
          /\ DOMAIN Append(continuations, x) = 1 .. (n + 1)
          /\ Append(continuations, x)[n + 1] = x
          /\ \A i \in 1 .. n : Append(continuations, x)[i] = continuations[i]
      BY <2>5, <3>1, <3>2, Appended
    <3>4. continuations' = Append(continuations, x)
      BY <2>9, <3>1
    <3>. QED
      BY <2>5, <3>1, <3>3, <3>4 DEF C
  <2>13. /\ fate' \in [1 .. c -> Fates] /\ fate'[c] = "waiting"
         /\ \A d \in 1 .. n : fate'[d] = fate[d]
    <3>1. fate \in [1 .. n -> Fates]
      BY <2>1, <2>5 DEF TypeOK
    <3>2. fate \in Seq(Fates) /\ Len(fate) = n
      BY <2>5, <3>1
    <3>3. "waiting" \in Fates
      BY DEF Fates
    <3>4. /\ fate' \in Seq(Fates) /\ DOMAIN fate' = 1 .. c /\ fate'[c] = "waiting"
          /\ \A i \in 1 .. n : fate'[i] = fate[i]
      BY <2>5, <2>9, <3>2, <3>3, Appended
    <3>5. fate' \in [1 .. Len(fate') -> Fates] /\ DOMAIN fate' = 1 .. Len(fate')
      BY <3>4
    <3>. QED
      BY <3>4, <3>5
  <2>14. \A d \in 1 .. c : d = c \/ d \in 1 .. n
    BY <2>5
  <2>15. c \notin 1 .. n /\ c \in 1 .. c /\ \A d \in 1 .. n : d \in 1 .. c
    BY <2>5
  <2>16. held' \in [Threads -> [Handles -> 0 .. MaxHeld]]
    BY <1>1, <2>1, HandsOne
  <2>17. TypeOK'
    <3>1. DOMAIN continuations' = 1 .. c
      BY <2>12
    <3>2. fate' \in [DOMAIN continuations' -> Fates]
      BY <2>13, <3>1
    <3>. QED
      BY <1>2, <2>1, <2>9, <2>11, <2>12, <2>16, <3>2 DEF TypeOK, RecordType
  <2>18. NoLostDispatch'
    <3>1. ready' # <<>> /\ ~released => requested' \/ (ready # <<>> /\ requested' = requested)
      BY <2>10 DEF Made
    <3>. QED
      BY <1>2, <3>1 DEF Inv, NoLostDispatch
  <2>19. ListsSound'
    <3>1. \A u \in Slots : u # s => records'[u].first = records[u].first
      BY <2>11
    <3>2. \A d \in 1 .. n : Lists(d)' = Lists(d)
      <4>1. \A d \in 1 .. n : d \in Range(records'[s].first) <=> d \in Range(records[s].first)
        BY <2>6, <2>7, <2>11, <2>15
      <4>. QED
        BY <3>1, <4>1 DEF Lists
    <3>3. s \in Lists(c)'
      BY <2>7, <2>11 DEF Lists
    <3>4. DOMAIN fate' = 1 .. c
      BY <2>13
    <3>5. \A d \in DOMAIN fate' : fate'[d] = "waiting" <=> Lists(d)' # {}
      BY <2>1, <2>5, <2>13, <2>14, <3>2, <3>3, <3>4 DEF ListsSound
    <3>6. ASSUME NEW u \in Slots, NEW d \in Range(records'[u].first)
          PROVE  d \in DOMAIN fate' /\ continuations'[d].promise = HandleOf(u)'
      <4>1. CASE u = s /\ d = c
        BY <2>4, <2>11, <2>12, <2>15, <3>4, <4>1
      <4>2. CASE ~(u = s /\ d = c)
        <5>1. d \in Range(records[u].first)
          <6>1. CASE u # s
            BY <3>1, <3>6, <6>1
          <6>2. CASE u = s
            <7>1. d \in Range(p) /\ d # c
              BY <2>11, <3>6, <4>2, <6>2
            <7>. QED
              BY <2>6, <2>7, <6>2, <7>1
          <6>. QED
            BY <6>1, <6>2
        <5>2. d \in 1 .. n /\ continuations[d].promise = HandleOf(u)
          BY <2>1, <2>5, <5>1 DEF ListsSound
        <5>. QED
          BY <2>11, <2>12, <2>15, <3>4, <5>2
      <4>. QED
        BY <4>1, <4>2
    <3>7. ASSUME NEW i \in 1 .. (m + 1), NEW j \in 1 .. (m + 1), i < j PROVE p[i] < p[j]
      <4>1. i \in 1 .. m
        BY <3>7
      <4>2. CASE j \in 1 .. m
        <5>1. q[i] < q[j]
          BY <2>1, <2>6, <2>7, <3>7, <4>1, <4>2 DEF ListsSound
        <5>. QED
          BY <2>7, <4>1, <4>2, <5>1
      <4>3. CASE j = m + 1
        <5>1. p[i] \in 1 .. n /\ p[j] = n + 1
          BY <2>5, <2>6, <2>7, <4>1, <4>3
        <5>. QED
          BY <5>1
      <4>. QED
        BY <4>2, <4>3
    <3>8. \A u \in Slots : \A i, j \in DOMAIN records'[u].first :
                i < j => records'[u].first[i] < records'[u].first[j]
      <4>1. SUFFICES ASSUME NEW u \in Slots,
                            NEW i \in DOMAIN records'[u].first, NEW j \in DOMAIN records'[u].first,
                            i < j
                     PROVE  records'[u].first[i] < records'[u].first[j]
        OBVIOUS
      <4>2. CASE u = s
        BY <2>7, <2>11, <3>7, <4>1, <4>2
      <4>3. CASE u # s
        BY <2>1, <3>1, <4>1, <4>3 DEF ListsSound
      <4>. QED
        BY <4>2, <4>3
    <3>. QED
      BY <3>5, <3>6, <3>8 DEF ListsSound
  <2>20. FramesSound'
    <3>1. \A u \in Slots : records'[u].state = records[u].state
      BY <2>11
    <3>2. ASSUME NEW i \in DOMAIN frames, frames[i].calling # 0
          PROVE  /\ frames[i].round < limit /\ frames[i].calling \in 1 .. n
                 /\ fate[frames[i].calling] = "called" /\ frames[i].handle \in Handles
                 /\ frames[i].state # "Pending" /\ frames[i].handle.slot \in Slots
                 /\ frames[i].state = records[frames[i].handle.slot].state
      BY <2>5, <3>2 DEF Inv, FramesSound, Handles
    <3>3. DOMAIN fate' = 1 .. c
      BY <2>13
    <3>. QED
      BY <1>2, <2>13, <2>15, <3>1, <3>2, <3>3 DEF Inv, FramesSound
  <2>21. ShutdownSound'
    BY <1>2, <1>4, <2>2 DEF Inv, ShutdownSound
  <2>22. CalledInOrder' /\ NoneLost'
    <3>1. DOMAIN continuations' = 1 .. c /\ DOMAIN fate' = 1 .. c
      BY <2>12, <2>13
    <3>2. NoneLost'
      BY <2>5, <2>13, <2>14, <3>1 DEF Inv, NoneLost
    <3>3. ASSUME NEW a \in 1 .. c, NEW b \in 1 .. c, a < b,
                 continuations'[a].promise = continuations'[b].promise, fate'[b] = "called"
          PROVE  fate'[a] # "waiting"
      <4>1. b \in 1 .. n
        BY <2>13, <2>14, <3>3
      <4>2. a \in 1 .. n
        BY <2>5, <2>14, <3>3, <4>1
      <4>. QED
        BY <2>5, <2>12, <2>13, <3>3, <4>1, <4>2 DEF Inv, CalledInOrder
    <3>. QED
      BY <3>1, <3>2, <3>3 DEF CalledInOrder
  <2>23. ASSUME NEW g \in Handles
         PROVE  /\ IsFiniteSet(HeldBy(g)') /\ IsFiniteSet(DroppedBy(g)')
                /\ Users(g)' = Owned(g)'
    <3>1. Numbers(g) /\ Users(g) = Owned(g)
      BY <2>1, <2>2, UsersAreNumbers DEF ReferencesAccounted, Owned
    <3>2. /\ IsFiniteSet(HeldBy(g)')
          /\ Cardinality(HeldBy(g)') = Cardinality(HeldBy(g)) - (IF g = captured THEN 1 ELSE 0)
      BY <1>1, <2>1, HandsOne
    <3>3. DroppedBy(g)' = DroppedBy(g)
      BY <2>9 DEF DroppedBy
    <3>4. RoundsOf(g)' = RoundsOf(g)
      BY <1>2 DEF RoundsOf
    <3>5. Cardinality(CapturedIn(g)') = Cardinality(CapturedIn(g))
                + (IF g = captured THEN 1 ELSE 0)
      <4>1. \A d \in 1 .. n : Alive(d)' <=> Alive(d)
        BY <1>2, <2>13 DEF Alive
      <4>2. Alive(c)'
        BY <2>13 DEF Alive
      <4>3. c \notin CapturedIn(g)
        BY <2>5, <2>15 DEF CapturedIn
      <4>4. DOMAIN continuations' = 1 .. c
        BY <2>12
      <4>5. CapturedIn(g)' = IF g = captured THEN CapturedIn(g) \union {c} ELSE CapturedIn(g)
        BY <2>5, <2>12, <2>14, <2>15, <4>1, <4>2, <4>4 DEF CapturedIn
      <4>6. Cardinality(CapturedIn(g) \union {c}) = Cardinality(CapturedIn(g)) + 1
        BY <3>1, <4>3, OneMoreIn DEF Numbers
      <4>7. Cardinality(CapturedIn(g)) \in Nat
        BY <3>1 DEF Numbers
      <4>. QED
        BY <4>5, <4>6, <4>7
    <3>6. PICK z \in Nat : z = IF NewlyReady(r) /\ g = h THEN 1 ELSE 0
      OBVIOUS
    <3>7. Cardinality(QueuedAs(g)') = Cardinality(QueuedAs(g)) + z
      BY <2>1, <2>4, <2>10, <3>6, QueuedMore
    <3>8. Owned(g)' = Owned(g) + z
      <4>1. PICK x \in Nat, y \in Nat : x = records'[s].references /\ y = records[s].references
        BY <2>10 DEF Made
      <4>2. x = y + (IF NewlyReady(r) THEN 1 ELSE 0)
        BY <2>8, <2>10, <4>1 DEF Made
      <4>3. /\ Owned(g) \in Nat
            /\ Owned(g)' = Owned(g) + (IF g = h THEN x - records[h.slot].references ELSE 0)
        BY <1>2, <2>1, <2>3, <2>4, <2>11, <4>1, OwnedChange
      <4>4. x - y = IF NewlyReady(r) THEN 1 ELSE 0
        BY <4>1, <4>2
      <4>5. Owned(g)' = Owned(g) + (IF g = h THEN x - y ELSE 0)
        BY <2>4, <4>1, <4>3
      <4>6. z = IF g = h THEN x - y ELSE 0
        BY <3>6, <4>4
      <4>. QED
        BY <4>5, <4>6
    <3>9. Users(g)' = Users(g) + z
      <4>1. PICK a \in Nat, d \in Nat, k \in Nat, e \in Nat, f \in Nat, y \in Nat :
                /\ a = Cardinality(HeldBy(g)) /\ d = Cardinality(DroppedBy(g))
                /\ k = Cardinality(CapturedIn(g)) /\ e = Cardinality(QueuedAs(g))
                /\ f = Cardinality(RoundsOf(g)) /\ y = (IF g = captured THEN 1 ELSE 0)
        BY <3>1 DEF Numbers
      <4>2. Cardinality(HeldBy(g)') = a - y /\ Cardinality(CapturedIn(g)') = k + y
        BY <3>2, <3>5, <4>1
      <4>3. Users(g) = a + d + k + e + f /\ Users(g)' = (a - y) + d + (k + y) + (e + z) + f
        BY <3>3, <3>4, <3>7, <4>1, <4>2 DEF Users
      <4>4. (a - y) + d + (k + y) + (e + z) + f = (a + d + k + e + f) + z
        <5>1. /\ a \in Nat /\ d \in Nat /\ k \in Nat /\ e \in Nat /\ f \in Nat
              /\ y \in Nat /\ z \in Nat
          BY <3>6, <4>1
        <5>. QED
          BY <5>1
      <4>. QED
        BY <4>3, <4>4
    <3>. QED
      BY <2>1, <3>1, <3>2, <3>3, <3>8, <3>9 DEF Countable
  <2>24. Countable' /\ ReferencesAccounted'
    BY <2>23 DEF Countable, ReferencesAccounted, Owned
  <2>. QED
    BY <2>11, <2>17, <2>18, <2>19, <2>20, <2>21, <2>22, <2>24 DEF Inv
<1>. QED
  BY <1>3, <1>4

-----------------------------------------------------------------------------
(* A round of Dispatch.                                                      *)

\* A list is its head and its tail.
LEMMA HeadAndTail ==
    ASSUME NEW S, NEW q \in Seq(S), q # <<>>
    PROVE  /\ Head(q) \in S /\ Tail(q) \in Seq(S) /\ Len(q) \in Nat /\ Len(q) # 0
           /\ DOMAIN q = 1 .. Len(q) /\ DOMAIN Tail(q) = 1 .. (Len(q) - 1) /\ q[1] = Head(q)
           /\ \A i \in 1 .. (Len(q) - 1) : i + 1 \in 1 .. Len(q) /\ Tail(q)[i] = q[i + 1]
           /\ Range(q) = Range(Tail(q)) \union {Head(q)}
           /\ IsInjective(q) => IsInjective(Tail(q)) /\ Head(q) \notin Range(Tail(q))
<1>1. PICK n \in Nat : n = Len(q) /\ n # 0 /\ DOMAIN q = 1 .. n
  OBVIOUS
<1>2. PICK r \in Seq(S), x \in S : r = Tail(q) /\ x = Head(q)
  <2>1. Tail(q) \in Seq(S) /\ Head(q) \in S
    OBVIOUS
  <2>. QED
    BY <2>1
<1>3. /\ DOMAIN r = 1 .. (n - 1) /\ q[1] = x
      /\ \A i \in 1 .. (n - 1) : i + 1 \in 1 .. n /\ i + 1 # 1 /\ r[i] = q[i + 1]
  BY <1>1, <1>2
<1>4. Range(q) = Range(r) \union {x}
  <2>1. ASSUME NEW i \in 1 .. n PROVE q[i] \in Range(r) \union {x}
    <3>1. CASE i = 1
      BY <1>3, <3>1
    <3>2. CASE i # 1
      <4>1. PICK k \in 1 .. (n - 1) : k + 1 = i
        <5>1. i - 1 \in 1 .. (n - 1) /\ (i - 1) + 1 = i
          BY <2>1, <3>2
        <5>. QED
          BY <5>1
      <4>. QED
        BY <1>3, <4>1 DEF Range
    <3>. QED
      BY <3>1, <3>2
  <2>2. 1 \in 1 .. n
    BY <1>1
  <2>3. \A y \in Range(q) : y \in Range(r) \union {x}
    BY <1>1, <2>1 DEF Range
  <2>4. \A y \in Range(r) : y \in Range(q)
    BY <1>1, <1>3 DEF Range
  <2>5. x \in Range(q)
    BY <1>1, <1>3, <2>2 DEF Range
  <2>. QED
    BY <2>3, <2>4, <2>5
<1>5. IsInjective(q) => IsInjective(r) /\ x \notin Range(r)
  <2>1. SUFFICES ASSUME IsInjective(q) PROVE IsInjective(r) /\ x \notin Range(r)
    OBVIOUS
  <2>2. ASSUME NEW i \in 1 .. (n - 1), NEW j \in 1 .. (n - 1), r[i] = r[j] PROVE i = j
    <3>1. i + 1 = j + 1
      BY <1>1, <1>3, <2>1, <2>2, SMTT(30) DEF IsInjective
    <3>. QED
      BY <3>1
  <2>3. \A i \in 1 .. (n - 1) : r[i] # x
    <3>1. 1 \in 1 .. n
      BY <1>1
    <3>. QED
      BY <1>1, <1>3, <2>1, <3>1 DEF IsInjective
  <2>. QED
    BY <1>3, <2>2, <2>3 DEF IsInjective, Range
<1>. QED
  BY <1>1, <1>2, <1>3, <1>4, <1>5

\* The round takes the first record from the queue; it may be queued again.
LEMMA QueuedAgain ==
    ASSUME TypeOK, QueueSound, ready # <<>>, NEW s, NEW r, s = Head(ready),
           Made(s, r, Tail(ready)), NEW g \in Handles
    PROVE  Cardinality(QueuedAs(g)') = Cardinality(QueuedAs(g))
                - (IF g = HandleOf(s) THEN 1 ELSE 0)
                + (IF NewlyReady(r) /\ g = HandleOf(s) THEN 1 ELSE 0)
<1>1. g.slot \in Slots
  BY DEF Handles
<1>2. /\ Range(ready) = Range(Tail(ready)) \union {s} /\ s \notin Range(Tail(ready))
  <2>1. ready \in Seq(Slots) /\ IsInjective(ready)
    BY DEF TypeOK, QueueSound
  <2>. QED
    BY <2>1, HeadAndTail
<1>3. /\ Range(ready') = Range(Tail(ready)) \union (IF NewlyReady(r) THEN {s} ELSE {})
      /\ HandleOf(g.slot)' = HandleOf(g.slot)
  BY <1>1 DEF Made
<1>4. g = HandleOf(s) <=> g.slot = s /\ g = HandleOf(g.slot)
  BY DEF HandleOf
<1>5. QueuedWith(g)' <=> (QueuedWith(g) /\ g # HandleOf(s)) \/ (NewlyReady(r) /\ g = HandleOf(s))
  BY <1>2, <1>3, <1>4 DEF QueuedWith
<1>6. g = HandleOf(s) => QueuedWith(g)
  BY <1>2, <1>4 DEF QueuedWith
<1>7. Cardinality(QueuedAs(g)) = (IF QueuedWith(g) THEN 1 ELSE 0)
  BY QueuedCount
<1>8. Cardinality(QueuedAs(g)') = (IF QueuedWith(g)' THEN 1 ELSE 0)
  BY QueuedCountNext
<1>. QED
  BY <1>5, <1>6, <1>7, <1>8

\* A round.
LEMMA RoundStep ==
    ASSUME Inv, Round
    PROVE  Inv'
<1>1. PICK s, o, rest, r :
        /\ s = Head(ready) /\ o = records[s]
        /\ rest = (IF o.first = <<>> THEN <<>> ELSE Tail(o.first))
        /\ r = [o EXCEPT !.ready = FALSE, !.first = rest]
        /\ MakeReady(s, r, Tail(ready))
        /\ IF o.first = <<>>
           THEN /\ SetTop([Top EXCEPT !.round = @ + 1])
                /\ dropping' = [dropping EXCEPT ![Main] = <<HandleOf(s)>>]
                /\ fate' = fate
           ELSE /\ SetTop([Top EXCEPT !.calling = Head(o.first), !.handle = HandleOf(s),
                                      !.state = o.state])
                /\ fate' = [fate EXCEPT ![Head(o.first)] = "called"]
                /\ dropping' = dropping
  BY DEF Round
<1>2. /\ frames # <<>> /\ Top.calling = 0 /\ dropping[Main] = <<>> /\ Top.round < limit
      /\ ready # <<>>
      /\ UNCHANGED <<limit, size, free, stopping, released, shutdown, held, continuations>>
  BY DEF Round, Looping
<1>3. /\ TypeOK /\ Countable /\ ReferencesAccounted /\ ListsSound /\ FramesSound /\ QueueSound
      /\ shutdown # "down" /\ shutdown # "retire"
  BY <1>2 DEF Inv, ShutdownSound
<1>4. /\ s \in Slots /\ Tail(ready) \in Seq(Slots) /\ IsInjective(Tail(ready))
      /\ s \notin Range(Tail(ready)) /\ Range(ready) = Range(Tail(ready)) \union {s}
  <2>1. ready \in Seq(Slots) /\ IsInjective(ready)
    BY <1>3 DEF TypeOK, QueueSound
  <2>. QED
    BY <1>1, <1>2, <2>1, HeadAndTail
<1>5. records[s].ready /\ Live(s) /\ records[s].state # "Pending"
  BY <1>3, <1>4 DEF QueueSound
<1>6. PICK h \in Handles : h = HandleOf(s) /\ h.slot = s
  <2>1. records[s].generation \in 0 .. MaxCreates /\ records[s].generation # 0
    BY <1>3, <1>4, <1>5, RecordFields DEF Inv, FreeSound
  <2>2. records[s].generation \in 1 .. MaxCreates
    BY <2>1, PromiseAssumption
  <2>3. PICK h : h = HandleOf(s)
    OBVIOUS
  <2>4. h \in Handles /\ h.slot = s
    BY <1>4, <2>2, <2>3 DEF HandleOf, Handles
  <2>. QED
    BY <2>3, <2>4
<1>7. Names(h)
  <2>1. QueuedWith(h)
    BY <1>4, <1>6 DEF QueuedWith
  <2>2. Numbers(h)
    BY <1>3, UsersAreNumbers
  <2>3. Cardinality(QueuedAs(h)) # 0
    BY <2>1, <2>2 DEF Numbers
  <2>. QED
    BY <1>3, <2>2, <2>3, SomeUser, UsedNames
<1>8. /\ o.first \in Seq(Ids) /\ rest \in Seq(Ids) /\ o \in RecordType
      /\ o.first # <<>> =>
            /\ Head(o.first) \in Ids /\ IsInjective(o.first)
            /\ Range(o.first) = Range(rest) \union {Head(o.first)}
            /\ Head(o.first) \notin Range(rest)
            /\ \A c \in Range(o.first) : c \in DOMAIN fate /\ fate[c] = "waiting" /\ Lists(c) = {s}
  <2>1. o.first \in Seq(Ids) /\ o \in RecordType
    BY <1>1, <1>3, <1>4, RecordFields
  <2>2. CASE o.first = <<>>
    BY <1>1, <2>1, <2>2
  <2>3. CASE o.first # <<>>
    <3>1. /\ IsInjective(o.first)
          /\ \A c \in Range(o.first) : c \in DOMAIN fate /\ fate[c] = "waiting" /\ Lists(c) = {s}
      BY <1>1, <1>3, <1>4, ListOf
    <3>2. rest = Tail(o.first)
      BY <1>1, <2>3
    <3>3. /\ Head(o.first) \in Ids /\ Tail(o.first) \in Seq(Ids)
          /\ Range(o.first) = Range(Tail(o.first)) \union {Head(o.first)}
          /\ Head(o.first) \notin Range(Tail(o.first))
      BY <2>1, <2>3, <3>1, HeadAndTail
    <3>. QED
      BY <2>1, <3>1, <3>2, <3>3
  <2>. QED
    BY <2>2, <2>3
<1>9. /\ r \in RecordType /\ ~r.ready /\ r.first = rest /\ r.generation = records[s].generation
      /\ r.state = records[s].state /\ r.references = records[s].references
  BY <1>1, <1>8 DEF RecordType
<1>10. Made(s, r, Tail(ready))
  <2>1. \A u \in Slots : u # s => (records[u].ready <=> u \in Range(Tail(ready)))
    BY <1>3, <1>4 DEF QueueSound
  <2>2. Fits(s, r, Tail(ready))
    BY <1>1, <1>2, <1>4, <1>5, <1>9, <2>1 DEF Fits
  <2>. QED
    BY <2>2, MakesReady
<1>11. /\ records' \in [Slots -> RecordType]
       /\ \A u \in Slots : u # s => records'[u] = records[u]
       /\ records'[s].generation = records[s].generation
       /\ records'[s].state = records[s].state /\ records'[s].first = rest
       /\ ready' \in Seq(Slots) /\ requested' \in BOOLEAN
       /\ QueueSound' /\ FreeSound'
       /\ \A u \in Slots : (Live(u)' <=> Live(u)) /\ HandleOf(u)' = HandleOf(u)
  BY <1>9, <1>10 DEF Made
<1>12. PICK n \in Nat :
        /\ n = Len(frames) /\ n # 0 /\ DOMAIN frames = 1 .. n /\ Top = frames[n] /\ n \in 1 .. n
        /\ frames[n].calling = 0
  BY <1>2, <1>3, Entries DEF Top
<1>13. PICK frame :
        /\ frame = (IF o.first = <<>>
                    THEN [Top EXCEPT !.round = @ + 1]
                    ELSE [Top EXCEPT !.calling = Head(o.first), !.handle = h,
                                     !.state = o.state])
        /\ frames' = [frames EXCEPT ![Len(frames)] = frame]
  BY <1>1, <1>6 DEF SetTop
<1>14. /\ frames' \in Seq([round : 0 .. limit, calling : 0 .. MaxContinuations,
                           handle : HandlesOrNothing,
                           state : {"Pending", "Fulfilled", "Rejected"}])
       /\ o.first = <<>> => frame.calling = 0
       /\ o.first # <<>> => /\ frame.calling = Head(o.first) /\ frame.handle = h
                            /\ frame.state = o.state /\ frame.round = Top.round
  <2>. DEFINE F == [round : 0 .. limit, calling : 0 .. MaxContinuations,
                    handle : HandlesOrNothing, state : {"Pending", "Fulfilled", "Rejected"}]
  <2>1. frames \in Seq(F)
    BY <1>3 DEF TypeOK
  <2>2. PICK x \in F : x = Top
    <3>. HIDE DEF F
    <3>. QED
      BY <1>12, <2>1
  <2>3. x.round \in Nat /\ limit \in Nat /\ x.round < limit /\ x.calling = 0
    BY <1>2, <1>3, <2>2, PromiseAssumption DEF TypeOK
  <2>4. CASE o.first = <<>>
    <3>1. x.round + 1 \in 0 .. limit
      BY <2>3
    <3>2. PICK y : y = [x EXCEPT !.round = @ + 1]
      OBVIOUS
    <3>3. y \in F /\ y.calling = 0
      BY <2>2, <2>3, <3>1, <3>2
    <3>4. frame = y
      BY <1>13, <2>2, <2>4, <3>2
    <3>. HIDE DEF F
    <3>5. frames' \in Seq(F)
      BY <1>12, <1>13, <2>1, <3>3, <3>4, SMTT(30)
    <3>. QED
      BY <2>4, <3>3, <3>4, <3>5 DEF F
  <2>5. CASE o.first # <<>>
    <3>1. /\ Head(o.first) \in 0 .. MaxContinuations /\ h \in HandlesOrNothing
          /\ o.state \in {"Pending", "Fulfilled", "Rejected"}
      BY <1>6, <1>8, <2>5 DEF Ids, HandlesOrNothing, RecordType
    <3>2. PICK y : y = [x EXCEPT !.calling = Head(o.first), !.handle = h, !.state = o.state]
      OBVIOUS
    <3>3. /\ y \in F /\ y.calling = Head(o.first) /\ y.handle = h /\ y.state = o.state
          /\ y.round = x.round
      BY <2>2, <3>1, <3>2
    <3>4. frame = y
      BY <1>13, <2>2, <2>5, <3>2
    <3>. HIDE DEF F
    <3>5. frames' \in Seq(F)
      BY <1>12, <1>13, <2>1, <3>3, <3>4, SMTT(30)
    <3>. QED
      BY <2>2, <2>5, <3>3, <3>4, <3>5 DEF F
  <2>. QED
    BY <2>4, <2>5
<1>15. /\ DOMAIN frames' = 1 .. n /\ frames'[n] = frame
       /\ \A i \in 1 .. n : i # n => frames'[i] = frames[i]
  BY <1>12, <1>13
<1>16. /\ DOMAIN fate' = DOMAIN fate /\ DOMAIN fate = DOMAIN continuations
       /\ o.first = <<>> => fate' = fate
       /\ o.first # <<>> => /\ fate'[Head(o.first)] = "called"
                            /\ Head(o.first) \in DOMAIN fate
                            /\ fate[Head(o.first)] = "waiting"
                            /\ \A d \in DOMAIN fate : d # Head(o.first) => fate'[d] = fate[d]
  <2>1. DOMAIN fate = DOMAIN continuations
    BY <1>3 DEF TypeOK
  <2>2. CASE o.first = <<>>
    BY <1>1, <2>1, <2>2
  <2>3. CASE o.first # <<>>
    <3>1. Head(o.first) \in DOMAIN fate /\ fate[Head(o.first)] = "waiting"
      BY <1>8, <2>3
    <3>2. fate' = [fate EXCEPT ![Head(o.first)] = "called"]
      BY <1>1, <2>3
    <3>. QED
      BY <2>1, <2>3, <3>1, <3>2
  <2>. QED
    BY <2>2, <2>3
<1>17. fate' \in [DOMAIN continuations -> Fates]
  <2>1. fate \in [DOMAIN continuations -> Fates] /\ "called" \in Fates
    BY <1>3 DEF TypeOK, Fates
  <2>. QED
    BY <1>1, <2>1
<1>18. PICK q \in Seq(Handles) :
        /\ Drops(Main, q)
        /\ \A g \in Handles : Count(q, g) = IF o.first = <<>> /\ g = h THEN 1 ELSE 0
  <2>1. CASE o.first = <<>>
    <3>1. <<h>> \in Seq(Handles)
      OBVIOUS
    <3>2. Drops(Main, <<h>>)
      BY <1>1, <1>6, <2>1, <3>1 DEF Drops, Threads
    <3>. QED
      BY <2>1, <3>1, <3>2, CountOne
  <2>2. CASE o.first # <<>>
    <3>1. <<>> \in Seq(Handles)
      OBVIOUS
    <3>2. dropping' = [dropping EXCEPT ![Main] = <<>>]
      BY <1>1, <1>2, <1>3, <2>2 DEF TypeOK
    <3>3. Drops(Main, <<>>)
      BY <3>1, <3>2 DEF Drops, Threads
    <3>. QED
      BY <2>2, <3>1, <3>3, CountNothing
  <2>. QED
    BY <2>1, <2>2
<1>19. TypeOK'
  <2>1. dropping' \in [Threads -> Seq(Handles)]
    BY <1>3, <1>18 DEF TypeOK, Drops
  <2>. QED
    BY <1>2, <1>3, <1>11, <1>14, <1>17, <2>1 DEF TypeOK, RecordType
<1>20. NoLostDispatch'
  <2>1. frames' # <<>>
    BY <1>12, <1>15
  <2>. QED
    BY <2>1 DEF NoLostDispatch
<1>21. ListsSound'
  <2>1. \A u \in Slots : u # s => records'[u].first = records[u].first
    BY <1>11
  <2>2. CASE o.first = <<>>
    <3>1. \A u \in Slots : records'[u].first = records[u].first
      BY <1>1, <1>11, <2>1, <2>2
    <3>. QED
      BY <1>2, <1>3, <1>11, <1>16, <2>2, <3>1 DEF ListsSound, Lists
  <2>3. CASE o.first # <<>>
    <3>. DEFINE c == Head(o.first)
    <3>1. \A u \in Slots : u # s => c \notin Range(records[u].first)
      <4>1. Lists(c) = {s}
        BY <1>8, <2>3
      <4>. QED
        BY <4>1 DEF Lists
    <3>2. \A u \in Slots : \A d : d \in Range(records'[u].first)
                                <=> d # c /\ d \in Range(records[u].first)
      BY <1>1, <1>8, <1>11, <2>1, <2>3, <3>1, SMTT(30)
    <3>3. \A d : Lists(d)' = IF d = c THEN {} ELSE Lists(d)
      BY <3>2 DEF Lists
    <3>4. \A d \in DOMAIN fate' : fate'[d] = "waiting" <=> Lists(d)' # {}
      BY <1>3, <1>16, <2>3, <3>3 DEF ListsSound
    <3>5. \A u \in Slots : \A d \in Range(records'[u].first) :
                d \in DOMAIN fate' /\ continuations'[d].promise = HandleOf(u)'
      BY <1>2, <1>3, <1>11, <1>16, <3>2 DEF ListsSound
    <3>6. ASSUME NEW i \in DOMAIN rest, NEW j \in DOMAIN rest, i < j PROVE rest[i] < rest[j]
      <4>1. PICK m \in Nat : /\ m = Len(o.first) /\ DOMAIN o.first = 1 .. m
                             /\ DOMAIN rest = 1 .. (m - 1)
                             /\ \A k \in 1 .. (m - 1) : /\ k + 1 \in 1 .. m
                                                        /\ rest[k] = o.first[k + 1]
        <5>1. rest = Tail(o.first)
          BY <1>1, <2>3
        <5>. QED
          BY <1>8, <2>3, <5>1, HeadAndTail
      <4>2. i + 1 < j + 1
        BY <3>6, <4>1
      <4>3. o.first[i + 1] < o.first[j + 1]
        BY <1>1, <1>3, <1>4, <3>6, <4>1, <4>2 DEF ListsSound
      <4>. QED
        BY <3>6, <4>1, <4>3
    <3>7. \A u \in Slots : \A i, j \in DOMAIN records'[u].first :
                i < j => records'[u].first[i] < records'[u].first[j]
      <4>1. SUFFICES ASSUME NEW u \in Slots,
                            NEW i \in DOMAIN records'[u].first, NEW j \in DOMAIN records'[u].first,
                            i < j
                     PROVE  records'[u].first[i] < records'[u].first[j]
        OBVIOUS
      <4>2. CASE u = s
        BY <1>11, <3>6, <4>1, <4>2
      <4>3. CASE u # s
        BY <1>3, <2>1, <4>1, <4>3 DEF ListsSound
      <4>. QED
        BY <4>2, <4>3
    <3>. QED
      BY <3>4, <3>5, <3>7 DEF ListsSound
  <2>. QED
    BY <2>2, <2>3
<1>22. FramesSound'
  <2>1. \A u \in Slots : records'[u].state = records[u].state
    BY <1>11
  <2>2. ASSUME NEW i \in 1 .. n, i # n, frames[i].calling # 0
        PROVE  /\ frames'[i] = frames[i] /\ frames[i].round < limit
               /\ frames[i].calling \in DOMAIN fate' /\ fate'[frames[i].calling] = "called"
               /\ fate[frames[i].calling] = "called"
               /\ frames[i].handle \in Handles /\ frames[i].state # "Pending"
               /\ frames[i].state = records'[frames[i].handle.slot].state
    <3>1. /\ frames[i].round < limit /\ frames[i].calling \in DOMAIN fate
          /\ fate[frames[i].calling] = "called" /\ frames[i].handle \in Handles
          /\ frames[i].handle.slot \in Slots /\ frames[i].state # "Pending"
          /\ frames[i].state = records[frames[i].handle.slot].state
      BY <1>3, <1>12, <2>2 DEF FramesSound, Handles
    <3>2. fate'[frames[i].calling] = "called"
      BY <1>16, <3>1
    <3>. QED
      BY <1>15, <1>16, <2>1, <2>2, <3>1, <3>2
  <2>3. \A i, j \in 1 .. n :
            frames[i].calling # 0 /\ frames[i].calling = frames[j].calling => i = j
    BY <1>3, <1>12 DEF FramesSound
  <2>4. CASE o.first = <<>>
    <3>1. frame.calling = 0
      BY <1>14, <2>4
    <3>2. \A i \in 1 .. n : frames'[i].calling # 0 => i # n /\ frames[i].calling # 0
      BY <1>15, <3>1
    <3>3. \A i, j \in 1 .. n :
            frames'[i].calling # 0 /\ frames'[i].calling = frames'[j].calling => i = j
      BY <1>15, <2>3, <3>2
    <3>. QED
      BY <1>2, <1>15, <2>2, <3>2, <3>3 DEF FramesSound
  <2>5. CASE o.first # <<>>
    <3>1. /\ frame.calling = Head(o.first) /\ frame.handle = h /\ frame.state = o.state
          /\ frame.round = Top.round /\ frame.round < limit
      BY <1>2, <1>14, <2>5
    <3>2. /\ frame.calling \in DOMAIN fate' /\ fate'[frame.calling] = "called"
          /\ fate[frame.calling] = "waiting"
          /\ frame.state # "Pending" /\ frame.state = records'[h.slot].state
      BY <1>1, <1>5, <1>6, <1>11, <1>16, <2>5, <3>1
    <3>3. \A i \in 1 .. n : i # n => frames'[i].calling # frame.calling \/ frames'[i].calling = 0
      <4>1. "waiting" # "called"
        OBVIOUS
      <4>. QED
        BY <1>15, <2>2, <3>2, <4>1
    <3>4. frame.calling # 0
      BY <1>8, <2>5, <3>1 DEF Ids
    <3>5. ASSUME NEW i \in 1 .. n, NEW j \in 1 .. n,
                 frames'[i].calling # 0, frames'[i].calling = frames'[j].calling
          PROVE  i = j
      <4>1. CASE i = n \/ j = n
        BY <1>15, <3>3, <3>4, <3>5, <4>1
      <4>2. CASE i # n /\ j # n
        BY <1>15, <2>3, <3>5, <4>2
      <4>. QED
        BY <4>1, <4>2
    <3>6. ASSUME NEW i \in 1 .. n, frames'[i].calling # 0
          PROVE  /\ frames'[i].round < limit
                 /\ frames'[i].calling \in DOMAIN fate' /\ fate'[frames'[i].calling] = "called"
                 /\ frames'[i].handle \in Handles /\ frames'[i].state # "Pending"
                 /\ frames'[i].state = records'[frames'[i].handle.slot].state
      <4>1. CASE i = n
        BY <1>6, <1>15, <3>1, <3>2, <4>1
      <4>2. CASE i # n
        BY <1>15, <2>2, <3>6, <4>2
      <4>. QED
        BY <4>1, <4>2
    <3>. QED
      BY <1>2, <1>15, <3>5, <3>6 DEF FramesSound
  <2>. QED
    BY <2>4, <2>5
<1>23. ShutdownSound'
  BY <1>2, <1>3, <1>11 DEF Inv, ShutdownSound
<1>24. NoneLost'
  BY <1>16 DEF Inv, NoneLost
<1>25. CalledInOrder'
  <2>1. CASE o.first = <<>>
    BY <1>2, <1>16, <2>1 DEF Inv, CalledInOrder
  <2>2. CASE o.first # <<>>
    <3>1. PICK c \in DOMAIN continuations :
            /\ c = Head(o.first) /\ fate'[c] = "called" /\ fate[c] = "waiting"
            /\ continuations[c].promise = h
            /\ \A d \in DOMAIN continuations : d # c => fate'[d] = fate[d]
      <4>1. Head(o.first) \in Range(records[s].first)
        BY <1>1, <1>8, <2>2
      <4>2. continuations[Head(o.first)].promise = h
        BY <1>3, <1>4, <1>6, <4>1 DEF ListsSound
      <4>. QED
        BY <1>16, <2>2, <4>2
    <3>2. SUFFICES ASSUME NEW a \in DOMAIN continuations, NEW b \in DOMAIN continuations,
                          a < b, continuations[a].promise = continuations[b].promise,
                          fate'[b] = "called"
                   PROVE  fate'[a] # "waiting"
      BY <1>2 DEF CalledInOrder
    <3>3. CASE b # c
      <4>1. fate[a] # "waiting"
        BY <3>1, <3>2, <3>3 DEF Inv, CalledInOrder
      <4>. QED
        BY <3>1, <4>1
    <3>4. CASE b = c
      <4>1. SUFFICES ASSUME fate[a] = "waiting" PROVE FALSE
        BY <3>1
      <4>2. PICK u \in Slots : a \in Range(records[u].first)
        BY <1>3, <1>16, <4>1 DEF ListsSound, Lists
      <4>3. HandleOf(u) = h
        BY <1>3, <3>1, <3>2, <3>4, <4>2 DEF ListsSound
      <4>4. u = s
        BY <1>6, <4>3 DEF HandleOf
      <4>5. PICK m \in Nat : m # 0 /\ DOMAIN o.first = 1 .. m /\ o.first[1] = c
        BY <1>8, <2>2, <3>1, HeadAndTail
      <4>6. PICK i \in 1 .. m : o.first[i] = a
        BY <1>1, <4>2, <4>4, <4>5 DEF Range
      <4>7. a \in Nat /\ c \in Nat
        BY <1>3, Entries
      <4>8. CASE i = 1
        BY <3>2, <3>4, <4>5, <4>6, <4>7, <4>8
      <4>9. CASE i # 1
        <5>1. 1 \in DOMAIN o.first /\ i \in DOMAIN o.first /\ 1 < i
          BY <4>5, <4>9
        <5>2. o.first[1] < o.first[i]
          BY <1>1, <1>3, <1>4, <5>1 DEF ListsSound
        <5>. QED
          BY <3>2, <3>4, <4>5, <4>6, <4>7, <5>2
      <4>. QED
        BY <4>8, <4>9
    <3>. QED
      BY <3>3, <3>4
  <2>. QED
    BY <2>1, <2>2
<1>26. ASSUME NEW g \in Handles
       PROVE  /\ IsFiniteSet(HeldBy(g)') /\ IsFiniteSet(DroppedBy(g)')
              /\ Users(g)' = Owned(g)'
  <2>1. Numbers(g) /\ Users(g) = Owned(g)
    BY <1>3, UsersAreNumbers DEF ReferencesAccounted, Owned
  <2>2. HeldBy(g)' = HeldBy(g)
    BY <1>2 DEF HeldBy
  <2>3. /\ IsFiniteSet(DroppedBy(g)')
        /\ Cardinality(DroppedBy(g)') = Cardinality(DroppedBy(g))
                + (IF o.first = <<>> /\ g = h THEN 1 ELSE 0)
    <3>1. /\ IsFiniteSet(DroppedBy(g)') /\ Cardinality(DroppedBy(g)) \in Nat
          /\ Cardinality(DroppedBy(g)') =
               Cardinality(DroppedBy(g)) + Count(q, g) - Count(dropping[Main], g)
      BY <1>3, <1>18, DroppedChange
    <3>2. Count(dropping[Main], g) = 0
      BY <1>2, CountNothing
    <3>. QED
      BY <1>18, <3>1, <3>2
  <2>4. CapturedIn(g)' = CapturedIn(g)
    <3>1. 0 \notin DOMAIN continuations
      BY <1>3, Entries
    <3>2. \A d \in DOMAIN continuations : Alive(d)' <=> Alive(d)
      <4>1. SUFFICES ASSUME NEW d \in DOMAIN continuations PROVE Alive(d)' <=> Alive(d)
        OBVIOUS
      <4>2. CASE o.first = <<>>
        BY <1>12, <1>14, <1>15, <1>16, <3>1, <4>1, <4>2 DEF Alive
      <4>3. CASE o.first # <<>> /\ d = Head(o.first)
        BY <1>12, <1>14, <1>15, <1>16, <4>3 DEF Alive
      <4>4. CASE o.first # <<>> /\ d # Head(o.first)
        BY <1>12, <1>14, <1>15, <1>16, <3>1, <4>1, <4>4 DEF Alive
      <4>. QED
        BY <4>2, <4>3, <4>4
    <3>. QED
      BY <1>2, <3>2 DEF CapturedIn
  <2>5. Cardinality(RoundsOf(g)') = Cardinality(RoundsOf(g))
            + (IF o.first # <<>> /\ g = h THEN 1 ELSE 0)
    <3>1. Cardinality(RoundsOf(g)') = Cardinality(RoundsOf(g))
                + (IF Calls(frame, g) THEN 1 ELSE 0) - (IF Calls(Top, g) THEN 1 ELSE 0)
      BY <1>2, <1>3, <1>13, RoundsChange
    <3>2. ~Calls(Top, g)
      BY <1>2 DEF Calls
    <3>3. Calls(frame, g) <=> o.first # <<>> /\ g = h
      <4>1. o.first # <<>> => Head(o.first) # 0
        BY <1>8 DEF Ids
      <4>. QED
        BY <1>14, <4>1 DEF Calls
    <3>. QED
      BY <2>1, <3>1, <3>2, <3>3 DEF Numbers
  <2>6. PICK w \in Nat, x \in Nat, y \in Nat, z \in Nat :
            /\ w = (IF g = h THEN 1 ELSE 0)
            /\ x = (IF o.first = <<>> /\ g = h THEN 1 ELSE 0)
            /\ y = (IF o.first # <<>> /\ g = h THEN 1 ELSE 0)
            /\ z = (IF NewlyReady(r) /\ g = h THEN 1 ELSE 0)
    OBVIOUS
  <2>7. w = x + y
    BY <2>6
  <2>8. Cardinality(QueuedAs(g)') = Cardinality(QueuedAs(g)) - w + z
    BY <1>1, <1>2, <1>3, <1>6, <1>10, <2>6, QueuedAgain
  <2>9. Owned(g)' = Owned(g) + z
    <3>1. PICK a \in Nat, b \in Nat : a = records'[s].references /\ b = records[s].references
      BY <1>10 DEF Made
    <3>2. a = b + (IF NewlyReady(r) THEN 1 ELSE 0)
      BY <1>9, <1>10, <3>1 DEF Made
    <3>3. /\ Owned(g) \in Nat
          /\ Owned(g)' = Owned(g) + (IF g = h THEN a - records[h.slot].references ELSE 0)
      BY <1>2, <1>3, <1>6, <1>7, <1>11, <3>1, OwnedChange
    <3>4. a - b = IF NewlyReady(r) THEN 1 ELSE 0
      BY <3>1, <3>2
    <3>5. Owned(g)' = Owned(g) + (IF g = h THEN a - b ELSE 0)
      BY <1>6, <3>1, <3>3
    <3>6. z = IF g = h THEN a - b ELSE 0
      BY <2>6, <3>4
    <3>. QED
      BY <3>5, <3>6
  <2>10. Users(g)' = Users(g) + z
    <3>1. PICK a \in Nat, d \in Nat, k \in Nat, e \in Nat, f \in Nat :
            /\ a = Cardinality(HeldBy(g)) /\ d = Cardinality(DroppedBy(g))
            /\ k = Cardinality(CapturedIn(g)) /\ e = Cardinality(QueuedAs(g))
            /\ f = Cardinality(RoundsOf(g))
      BY <2>1 DEF Numbers
    <3>2. /\ Cardinality(DroppedBy(g)') = d + x /\ Cardinality(QueuedAs(g)') = e - w + z
          /\ Cardinality(RoundsOf(g)') = f + y
      BY <2>3, <2>5, <2>6, <2>8, <3>1
    <3>3. Users(g) = a + d + k + e + f /\ Users(g)' = a + (d + x) + k + (e - w + z) + (f + y)
      BY <2>2, <2>4, <3>1, <3>2 DEF Users
    <3>4. a + (d + x) + k + (e - w + z) + (f + y) = (a + d + k + e + f) + z
      <4>1. /\ a \in Nat /\ d \in Nat /\ k \in Nat /\ e \in Nat /\ f \in Nat
            /\ w \in Nat /\ x \in Nat /\ y \in Nat /\ z \in Nat
        BY <2>6, <3>1
      <4>. QED
        BY <2>7, <4>1
    <3>. QED
      BY <3>3, <3>4
  <2>. QED
    BY <1>3, <2>1, <2>2, <2>3, <2>9, <2>10 DEF Countable
<1>27. Countable' /\ ReferencesAccounted'
  BY <1>26 DEF Countable, ReferencesAccounted, Owned
<1>. QED
  BY <1>11, <1>19, <1>20, <1>21, <1>22, <1>23, <1>24, <1>25, <1>27 DEF Inv

-----------------------------------------------------------------------------
(* The theorems.                                                             *)

\* Every step keeps the invariant.
LEMMA Steps == Inv /\ [Next]_vars => Inv'
<1>1. SUFFICES ASSUME Inv, [Next]_vars PROVE Inv'
  OBVIOUS
<1>2. ASSUME NEW t \in Threads, Call(t) PROVE Inv'
  BY <1>1, <1>2, CreateStep, RetainStep, ForgetStep, SettleStep, AddStep, DetachStep DEF Call
<1>3. ASSUME NEW t \in Threads, Drop(t) PROVE Inv'
  BY <1>1, <1>3, DropStep
<1>4. CASE Event
  BY <1>1, <1>4, EventStep
<1>5. CASE HostDispatch
  BY <1>1, <1>5, HostDispatchStep
<1>6. CASE Round
  BY <1>1, <1>6, RoundStep
<1>7. CASE Return
  BY <1>1, <1>7, ReturnStep
<1>8. CASE Finished
  BY <1>1, <1>8, FinishedStep
<1>9. CASE Limited
  BY <1>1, <1>9, LimitedStep
<1>10. CASE Shutdown
  BY <1>1, <1>10, ShutdownStep
<1>11. CASE RejectAll
  BY <1>1, <1>11, RejectAllStep
<1>12. CASE Drain
  BY <1>1, <1>12, DrainStep
<1>13. CASE Retire
  BY <1>1, <1>13, RetireStep
<1>14. CASE UNCHANGED vars
  <2>1. UNCHANGED still /\ UNCHANGED <<tables, host, shutdown, frames>>
    BY <1>14 DEF vars, still, tables, host
  <2>2. SameRounds
    BY <1>1, <2>1, FramesMove DEF Inv
  <2>3. TypeOK'
    BY <1>1, <2>1 DEF Inv, TypeOK, still, tables, host
  <2>4. ShutdownSound'
    BY <1>1, <2>1 DEF Inv, ShutdownSound, Live, still, tables, host
  <2>5. NoLostDispatch'
    BY <1>1, <2>1 DEF Inv, NoLostDispatch, tables, host
  <2>. QED
    BY <1>1, <2>1, <2>2, <2>3, <2>4, <2>5, StillStep DEF Inv
<1>. QED
  BY <1>1, <1>2, <1>3, <1>4, <1>5, <1>6, <1>7, <1>8, <1>9, <1>10, <1>11, <1>12, <1>13, <1>14
     DEF Next

\* The core keeps the invariant.
LEMMA Invariant == Spec => []Inv
<1>. QED
  BY Beginning, Steps, PTL DEF Spec

\* A promise that settled with continuations registered is in the ready queue,
\* once, with nothing that is freed or pending beside it, and while there is
\* something in the queue the host owes the module a Dispatch or the main thread
\* is in one, whatever the threads of the module do and however Dispatch nests.
THEOREM QueueIsServed == Spec => []QueueServed
<1>1. Inv => QueueServed
  BY DEF Inv, QueueServed
<1>. QED
  BY <1>1, Invariant, PTL

\* Until the table is taken away the count of every record is the number of the
\* threads, closures, rounds, pending releases and queue places that use its
\* handle, for any number of threads, records and promises: no record is freed, and
\* no generation passes, under one that holds its handle.
THEOREM CountsAreExact == Spec => []ReferencesAccounted
<1>1. Inv => ReferencesAccounted
  BY DEF Inv
<1>. QED
  BY <1>1, Invariant, PTL

\* What the rounds and the shutdown promise the callbacks follows.
LEMMA CallbacksFollow == Inv => CallbacksSound
<1>1. SUFFICES ASSUME Inv PROVE CallbacksSound
  OBVIOUS
<1>2. CallbackSeesResult
  <2>1. SUFFICES ASSUME shutdown # "down", NEW i \in DOMAIN frames, frames[i].calling # 0
                 PROVE  /\ Live(frames[i].handle.slot)
                        /\ frames[i].handle = HandleOf(frames[i].handle.slot)
                        /\ frames[i].state # "Pending"
                        /\ frames[i].state = records[frames[i].handle.slot].state
    BY DEF CallbackSeesResult
  <2>2. Names(frames[i].handle)
    BY <1>1, <2>1, CallerNames DEF Inv
  <2>. QED
    BY <1>1, <2>1, <2>2 DEF Names, Inv, FramesSound
<1>3. ShutdownCallsAll
  <2>1. ASSUME shutdown = "down", NEW c \in DOMAIN fate PROVE fate[c] # "waiting"
    <3>1. \A s \in Slots : records[s].first = <<>>
      BY <1>1, <2>1, BlankRecord DEF Inv, ShutdownSound
    <3>2. Lists(c) = {}
      BY <3>1 DEF Lists, Range
    <3>. QED
      BY <1>1, <2>1, <3>2 DEF Inv, ListsSound
  <2>. QED
    BY <1>1, <2>1 DEF ShutdownCallsAll, Inv, NoneLost
<1>. QED
  BY <1>1, <1>2, <1>3 DEF CallbacksSound, Inv

\* The continuations of a promise are called in the order they were registered,
\* each with its promise alive and with the result it was given; the shutdown
\* throws none away, and leaves none waiting.
THEOREM CallbacksAreSound == Spec => []CallbacksSound
<1>. QED
  BY CallbacksFollow, Invariant, PTL
=============================================================================
