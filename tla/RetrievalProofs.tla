-------------------------- MODULE RetrievalProofs ---------------------------
(***************************************************************************)
(* What the read tools promise for every set of files, versions, symbols    *)
(* and queries, whatever is edited between two reads.                       *)
(***************************************************************************)
EXTENDS Retrieval, FiniteSetTheorems, FunctionTheorems, SequenceTheorems,
        WellFoundedInduction, TLAPS

-----------------------------------------------------------------------------
(* The elements of a set in an order. *)

\* R is a strict total order on S.
Orders(R, S) ==
  /\ \A x \in S : <<x, x>> \notin R
  /\ \A x, y \in S : x = y \/ <<x, y>> \in R \/ <<y, x>> \in R
  /\ \A x, y, z \in S : <<x, y>> \in R /\ <<y, z>> \in R => <<x, z>> \in R

\* How many elements of S come before x.
Rank(R, S, x) == Cardinality({y \in S : <<y, x>> \in R})

LEMMA RankGrows ==
  ASSUME NEW S, IsFiniteSet(S), NEW R, Orders(R, S), NEW x \in S
  PROVE  /\ Rank(R, S, x) \in 0 .. Cardinality(S) - 1
         /\ \A y \in S : <<x, y>> \in R => Rank(R, S, x) < Rank(R, S, y)
<1> DEFINE B(z) == {y \in S : <<y, z>> \in R}
<1>1. ASSUME NEW z \in S PROVE IsFiniteSet(B(z)) /\ Cardinality(B(z)) \in Nat
  <2>1. B(z) \in SUBSET S
    OBVIOUS
  <2>2. IsFiniteSet(B(z))
    BY <2>1, FS_Subset
  <2> QED
    BY <2>2, FS_CardinalityType
<1>2. Cardinality(S) \in Nat
  BY FS_CardinalityType
<1>3. Cardinality(B(x)) < Cardinality(S)
  <2>1. B(x) \in SUBSET S /\ x \notin B(x)
    BY DEF Orders
  <2>2. Cardinality(B(x)) <= Cardinality(S) /\ (Cardinality(S) = Cardinality(B(x)) => S = B(x))
    BY <2>1, FS_Subset, Zenon
  <2> QED
    BY <1>1, <1>2, <2>1, <2>2
<1>4. ASSUME NEW y \in S, <<x, y>> \in R PROVE Cardinality(B(x)) < Cardinality(B(y))
  <2>1. B(x) \in SUBSET B(y)
    BY <1>4 DEF Orders
  <2>2. x \in B(y) /\ x \notin B(x)
    BY <1>4 DEF Orders
  <2>3. IsFiniteSet(B(y))
    BY <1>1
  <2> HIDE DEF B
  <2>4. Cardinality(B(x)) <= Cardinality(B(y)) /\ (Cardinality(B(y)) = Cardinality(B(x)) => B(y) = B(x))
    BY <2>1, <2>3, FS_Subset, Zenon
  <2>5. Cardinality(B(x)) # Cardinality(B(y))
    BY <2>2, <2>4
  <2> QED
    BY <1>1, <2>4, <2>5
<1>5. ASSUME NEW z \in S PROVE Rank(R, S, z) = Cardinality(B(z))
  BY DEF Rank
<1> HIDE DEF B
<1> QED
  BY <1>1, <1>2, <1>3, <1>4, <1>5

\* Each place has its element.
LEMMA RankOnto ==
  ASSUME NEW S, IsFiniteSet(S), NEW R, Orders(R, S)
  PROVE  \A i \in 1 .. Cardinality(S) : \E x \in S : Rank(R, S, x) = i - 1
<1> DEFINE n == Cardinality(S)
           T == 0 .. n - 1
           f == [x \in S |-> Rank(R, S, x)]
<1>1. n \in Nat
  BY FS_CardinalityType
<1>2. IsFiniteSet(T) /\ Cardinality(T) = n
  BY <1>1, FS_Interval
<1>3. f \in [S -> T]
  BY RankGrows
<1>4. \A x, y \in S : f[x] = f[y] => x = y
  <2> SUFFICES ASSUME NEW x \in S, NEW y \in S, Rank(R, S, x) = Rank(R, S, y), x # y PROVE FALSE
    OBVIOUS
  <2>1. <<x, y>> \in R \/ <<y, x>> \in R
    BY DEF Orders
  <2>2. Rank(R, S, x) \in Nat /\ Rank(R, S, y) \in Nat
    BY <1>1, RankGrows
  <2>3. Rank(R, S, x) < Rank(R, S, y) \/ Rank(R, S, y) < Rank(R, S, x)
    BY <2>1, RankGrows
  <2> QED
    BY <2>2, <2>3
<1>5. f \in Injection(S, T)
  BY <1>3, <1>4 DEF Injection, IsInjective
<1>6. f \in Surjection(S, T)
  <2> HIDE DEF f, T
  <2> QED
    BY <1>2, <1>5, FS_Injection
<1>7. \A i \in T : \E x \in S : f[x] = i
  <2> HIDE DEF f, T
  <2> QED
    BY <1>6 DEF Surjection
<1> QED
  BY <1>1, <1>7

\* A sequence with each element at the place of its rank.
LEMMA SortedIs ==
  ASSUME NEW S, IsFiniteSet(S), NEW R, Orders(R, S), NEW s \in [1 .. Cardinality(S) -> S],
         \A i \in 1 .. Cardinality(S) : Rank(R, S, s[i]) = i - 1
  PROVE  /\ s \in Seq(S) /\ Len(s) = Cardinality(S) /\ DOMAIN s = 1 .. Cardinality(S)
         /\ ToSet(s) = S
         /\ \A i, j \in 1 .. Cardinality(S) : i < j => <<s[i], s[j]>> \in R
<1> DEFINE n == Cardinality(S)
<1>1. n \in Nat
  BY FS_CardinalityType
<1>2. ASSUME NEW i \in 1 .. n PROVE s[i] \in S /\ Rank(R, S, s[i]) = i - 1
  OBVIOUS
<1>4. s \in Seq(S) /\ Len(s) = n /\ DOMAIN s = 1 .. n
  <2> HIDE DEF n
  <2> QED
    BY <1>1 DEF n
<1>5. ASSUME NEW x \in S PROVE \E i \in 1 .. n : s[i] = x
  <2> DEFINE i == Rank(R, S, x) + 1
  <2>1. i \in 1 .. n
    BY <1>1, RankGrows
  <2>2. Rank(R, S, s[i]) = Rank(R, S, x) /\ s[i] \in S
    BY <1>2, <2>1, RankGrows
  <2>3. s[i] = x
    <3> SUFFICES ASSUME s[i] # x PROVE FALSE
      OBVIOUS
    <3>1. <<x, s[i]>> \in R \/ <<s[i], x>> \in R
      BY <2>2 DEF Orders
    <3>2. Rank(R, S, x) < Rank(R, S, s[i]) \/ Rank(R, S, s[i]) < Rank(R, S, x)
      BY <2>2, <3>1, RankGrows
    <3> QED
      BY <1>1, <2>2, <3>2, RankGrows
  <2> QED
    BY <2>1, <2>3
<1>6. ToSet(s) = S
  <2> HIDE DEF n
  <2> QED
    BY <1>2, <1>4, <1>5 DEF ToSet
<1>7. ASSUME NEW i \in 1 .. n, NEW j \in 1 .. n, i < j PROVE <<s[i], s[j]>> \in R
  <2>1. s[i] \in S /\ s[j] \in S /\ Rank(R, S, s[i]) = i - 1 /\ Rank(R, S, s[j]) = j - 1
    BY <1>2
  <2>2. s[i] # s[j]
    BY <1>1, <1>7, <2>1
  <2>3. ~(<<s[j], s[i]>> \in R)
    BY <1>1, <1>7, <2>1, RankGrows
  <2> QED
    BY <2>1, <2>2, <2>3 DEF Orders
<1> QED
  BY <1>4, <1>6, <1>7

\* The files of a repository are numbers.
LEMMA FilesInOrder ==
  ASSUME NEW S \in SUBSET Nat, IsFiniteSet(S)
  PROVE  SortedFiles(S) \in Seq(S) /\ ToSet(SortedFiles(S)) = S
<1> DEFINE R == {p \in S \X S : p[1] < p[2]}
           P(x) == Cardinality({y \in S : y < x})
           s == SortedFiles(S)
<1>1. Orders(R, S)
  BY DEF Orders
<1>2. ASSUME NEW x \in S PROVE Rank(R, S, x) = P(x)
  <2>1. {y \in S : y < x} = {y \in S : <<y, x>> \in R}
    OBVIOUS
  <2> QED
    BY <2>1 DEF Rank
<1>3. s = [i \in 1 .. Cardinality(S) |-> CHOOSE x \in S : P(x) = i - 1]
  BY DEF SortedFiles, InOrder
<1> HIDE DEF R, s, P
<1>4. ASSUME NEW i \in 1 .. Cardinality(S) PROVE s[i] \in S /\ Rank(R, S, s[i]) = i - 1
  <2>1. \E x \in S : P(x) = i - 1
    BY <1>1, <1>2, RankOnto, ZenonT(60)
  <2>2. s[i] \in S /\ P(s[i]) = i - 1
    BY <1>3, <2>1
  <2> QED
    BY <1>2, <2>2
<1>5. s \in [1 .. Cardinality(S) -> S]
  BY <1>3, <1>4
<1>6. s \in Seq(S) /\ ToSet(s) = S
  BY <1>1, <1>4, <1>5, SortedIs
<1> QED
  BY <1>6 DEF s

LEMMA FilesQueued ==
  ASSUME NEW S \in SUBSET Paths
  PROVE  /\ SortedFiles(S) \in Seq(S) /\ SortedFiles(S) \in Seq(Paths)
         /\ ToSet(SortedFiles(S)) = S
<1> DEFINE s == SortedFiles(S)
<1>1. S \in SUBSET Nat /\ IsFiniteSet(S)
  BY CodeAssumption, FS_Subset
<1>2. s \in Seq(S) /\ ToSet(s) = S
  BY <1>1, FilesInOrder
<1> HIDE DEF s
<1>3. s \in Seq(Paths)
  BY <1>2
<1> QED
  BY <1>2, <1>3 DEF s

LEMMA Smallest == ASSUME NEW S \in SUBSET Nat, S # {} PROVE \E x \in S : \A y \in S : x <= y
<1> DEFINE R == OpToRel(<, Nat)
<1>1. \A x, y \in Nat : x < y => <<x, y>> \in R
  BY DEF OpToRel
<1>2. IsWellFoundedOn(R, Nat)
  BY NatLessThanWellFounded
<1> HIDE DEF R
<1>3. PICK x \in S : \A y \in S : ~(<<y, x>> \in R)
  BY <1>2, WFMin
<1>4. ASSUME NEW y \in S PROVE x <= y
  <2>1. x \in Nat /\ y \in Nat /\ ~(y < x)
    BY <1>1, <1>3
  <2> QED
    BY <2>1
<1> QED
  BY <1>4
-----------------------------------------------------------------------------
(* Breadth first: bfsDependencyGraph finds the files within its depth. *)

LEMMA WithinStarts ==
  ASSUME NEW E, NEW f \in Paths, NEW d \in Nat
  PROVE  f \in Within(E, f, d)
<1> DEFINE walk == [i \in 0 .. 0 |-> f]
<1>1. 0 \in 0 .. d /\ walk \in [0 .. 0 -> Paths] /\ walk[0] = f
  OBVIOUS
<1>2. \A i \in 1 .. 0 : <<walk[i - 1], walk[i]>> \in E
  OBVIOUS
<1> HIDE DEF walk
<1> QED
  BY <1>1, <1>2 DEF Within

LEMMA WithinGrows ==
  ASSUME NEW E, NEW f, NEW d \in Nat, NEW e \in Nat, d <= e
  PROVE  Within(E, f, d) \subseteq Within(E, f, e)
<1>1. 0 .. d \subseteq 0 .. e
  OBVIOUS
<1> QED
  BY <1>1 DEF Within

LEMMA WithinSteps ==
  ASSUME NEW E, NEW f, NEW d \in Nat, NEW p \in Within(E, f, d), NEW t \in Paths, <<p, t>> \in E
  PROVE  t \in Within(E, f, d + 1)
<1>1. PICK n \in 0 .. d : \E walk \in [0 .. n -> Paths] :
        /\ walk[0] = f /\ walk[n] = p
        /\ \A i \in 1 .. n : <<walk[i - 1], walk[i]>> \in E
  BY DEF Within
<1>2. PICK walk \in [0 .. n -> Paths] :
        /\ walk[0] = f /\ walk[n] = p
        /\ \A i \in 1 .. n : <<walk[i - 1], walk[i]>> \in E
  BY <1>1
<1> DEFINE longer == [i \in 0 .. n + 1 |-> IF i = n + 1 THEN t ELSE walk[i]]
<1>3. n \in Nat /\ n + 1 \in 0 .. d + 1
  OBVIOUS
<1>4. longer \in [0 .. n + 1 -> Paths] /\ longer[0] = f /\ longer[n + 1] = t
  BY <1>2, <1>3
<1>5. ASSUME NEW i \in 1 .. n + 1 PROVE <<longer[i - 1], longer[i]>> \in E
  <2>1. CASE i = n + 1
    BY <1>2, <1>3, <2>1
  <2>2. CASE i # n + 1
    <3>1. i \in 1 .. n /\ i - 1 \in 0 .. n /\ i \in 0 .. n /\ i - 1 # n + 1
      BY <1>3, <2>2
    <3>2. longer[i] = walk[i] /\ longer[i - 1] = walk[i - 1]
      BY <1>3, <3>1
    <3> QED
      BY <1>2, <3>1, <3>2
  <2> QED
    BY <2>1, <2>2
<1> HIDE DEF longer
<1> QED
  BY <1>3, <1>4, <1>5 DEF Within

\* Along a walk, what holds of its start and is passed on holds of its end.
LEMMA AlongWalk ==
  ASSUME NEW n \in Nat, NEW good, 0 \in good,
         \A i \in 1 .. n : i - 1 \in good => i \in good
  PROVE  n \in good
<1> SUFFICES ASSUME n \notin good PROVE FALSE
  OBVIOUS
<1> DEFINE S == {i \in 0 .. n : i \notin good}
<1>1. S \in SUBSET Nat /\ S # {}
  OBVIOUS
<1>2. PICK i \in S : \A j \in S : i <= j
  BY <1>1, Smallest
<1>3. i \in 1 .. n /\ i - 1 \in 0 .. n /\ i - 1 \notin S
  BY <1>2
<1> QED
  BY <1>2, <1>3

\* More edges, more files; an edge from a file to itself adds none.
LEMMA WithinMonotone ==
  ASSUME NEW E, NEW F, NEW f \in Paths, NEW d \in Nat,
         \A p, t \in Paths : <<p, t>> \in E /\ p # t => <<p, t>> \in F
  PROVE  Within(E, f, d) \subseteq Within(F, f, d)
<1> SUFFICES ASSUME NEW p \in Within(E, f, d) PROVE p \in Within(F, f, d)
  OBVIOUS
<1>1. PICK n \in 0 .. d : \E walk \in [0 .. n -> Paths] :
        /\ walk[0] = f /\ walk[n] = p
        /\ \A i \in 1 .. n : <<walk[i - 1], walk[i]>> \in E
  BY DEF Within
<1>2. PICK walk \in [0 .. n -> Paths] :
        /\ walk[0] = f /\ walk[n] = p
        /\ \A i \in 1 .. n : <<walk[i - 1], walk[i]>> \in E
  BY <1>1
<1> DEFINE good == {i \in 0 .. n : walk[i] \in Within(F, f, i)}
<1>3. n \in Nat /\ n <= d
  OBVIOUS
<1>4. 0 \in good
  BY <1>2, <1>3, WithinStarts
<1>5. ASSUME NEW i \in 1 .. n, i - 1 \in good PROVE i \in good
  <2>1. i - 1 \in Nat /\ i \in Nat /\ i \in 0 .. n /\ i - 1 \in 0 .. n /\ (i - 1) + 1 = i /\ i - 1 <= i
    BY <1>3
  <2>2. walk[i - 1] \in Within(F, f, i - 1) /\ walk[i - 1] \in Paths /\ walk[i] \in Paths
    BY <1>2, <1>5, <2>1
  <2>3. CASE walk[i] = walk[i - 1]
    <3>1. Within(F, f, i - 1) \subseteq Within(F, f, i)
      BY <2>1, WithinGrows
    <3> QED
      BY <2>1, <2>2, <2>3, <3>1
  <2>4. CASE walk[i] # walk[i - 1]
    <3>1. <<walk[i - 1], walk[i]>> \in F
      BY <1>2, <2>2, <2>4
    <3>2. walk[i] \in Within(F, f, (i - 1) + 1)
      BY <2>1, <2>2, <3>1, WithinSteps
    <3> QED
      BY <2>1, <3>2
  <2> QED
    BY <2>3, <2>4
<1>6. n \in good
  <2> HIDE DEF good
  <2> QED
    BY <1>3, <1>4, <1>5, AlongWalk
<1>7. Within(F, f, n) \subseteq Within(F, f, d)
  BY <1>3, WithinGrows
<1> QED
  BY <1>2, <1>6, <1>7

\* A walk under way: the files seen, with the level at which each was found first,
Found(E, f, d, level) ==
  /\ DOMAIN level \subseteq Paths /\ level \in [DOMAIN level -> 0 .. d]
  /\ f \in DOMAIN level /\ level[f] = 0
  /\ \A p \in DOMAIN level : p \in Within(E, f, level[p])

\* the queue of those whose edges have still to be followed, by level,
Queued(level, queue) ==
  /\ queue \in Seq(DOMAIN level)
  /\ \A i, j \in 1 .. Len(queue) : i < j => level[queue[i]] <= level[queue[j]]
  /\ queue # <<>> => \A p \in DOMAIN level : level[p] <= level[Head(queue)] + 1

\* and those behind the files that have left the queue.
Expanded(E, d, level, queue) ==
  \A p \in DOMAIN level \ ToSet(queue) : \A t \in Paths :
    level[p] < d /\ <<p, t>> \in E => t \in DOMAIN level /\ level[t] <= level[p] + 1

Walking(E, f, d, level, queue) ==
  Found(E, f, d, level) /\ Queued(level, queue) /\ Expanded(E, d, level, queue)

LEMMA WalkStarts ==
  ASSUME NEW E, NEW f \in Paths, NEW d \in Nat
  PROVE  Walking(E, f, d, [p \in {f} |-> 0], <<f>>)
<1> DEFINE level == [p \in {f} |-> 0]
           queue == <<f>>
<1>1. DOMAIN level = {f} /\ level \in [{f} -> 0 .. d] /\ level[f] = 0
  OBVIOUS
<1>2. queue \in Seq({f}) /\ Len(queue) = 1 /\ queue[1] = f /\ Head(queue) = f /\ DOMAIN queue = 1 .. 1
  OBVIOUS
<1>3. ToSet(queue) = {f}
  BY <1>2 DEF ToSet
<1>4. f \in Within(E, f, 0)
  BY WithinStarts
<1> HIDE DEF level, queue
<1>5. \A i, j \in 1 .. Len(queue) : ~(i < j)
  BY <1>2
<1>6. Found(E, f, d, level)
  BY <1>1, <1>4 DEF Found
<1>7. Queued(level, queue)
  BY <1>1, <1>2, <1>5 DEF Queued
<1>8. Expanded(E, d, level, queue)
  BY <1>1, <1>3 DEF Expanded
<1> QED
  BY <1>6, <1>7, <1>8 DEF Walking, level, queue

\* The parts of a queue.
LEMMA QueueParts ==
  ASSUME NEW D, NEW queue \in Seq(D), queue # <<>>
  PROVE  /\ Len(queue) \in Nat /\ Len(queue) > 0 /\ DOMAIN queue = 1 .. Len(queue)
         /\ Head(queue) = queue[1] /\ Head(queue) \in D
         /\ Tail(queue) \in Seq(D) /\ Len(Tail(queue)) = Len(queue) - 1
         /\ \A i \in 1 .. Len(queue) - 1 : Tail(queue)[i] = queue[i + 1]
         /\ ToSet(queue) \subseteq D
         /\ ToSet(queue) = {Head(queue)} \cup ToSet(Tail(queue))
<1>1. /\ Len(queue) \in Nat /\ Len(queue) > 0 /\ DOMAIN queue = 1 .. Len(queue)
      /\ Head(queue) = queue[1]
      /\ Tail(queue) \in Seq(D) /\ Len(Tail(queue)) = Len(queue) - 1
      /\ \A i \in 1 .. Len(queue) - 1 : Tail(queue)[i] = queue[i + 1]
  OBVIOUS
<1>2. \A i \in 1 .. Len(queue) : queue[i] \in D
  OBVIOUS
<1>3. DOMAIN Tail(queue) = 1 .. Len(queue) - 1
  BY <1>1
<1>4. ASSUME NEW x \in ToSet(queue) PROVE x = Head(queue) \/ x \in ToSet(Tail(queue))
  <2>1. PICK i \in 1 .. Len(queue) : x = queue[i]
    BY <1>1 DEF ToSet
  <2>2. CASE i = 1
    BY <1>1, <2>1, <2>2
  <2>3. CASE i # 1
    <3>1. i - 1 \in 1 .. Len(queue) - 1 /\ (i - 1) + 1 = i
      BY <1>1, <2>3
    <3>2. Tail(queue)[i - 1] = x
      BY <1>1, <2>1, <3>1
    <3> QED
      BY <1>3, <3>1, <3>2 DEF ToSet
  <2> QED
    BY <2>2, <2>3
<1>5. ASSUME NEW x \in ToSet(Tail(queue)) PROVE x \in ToSet(queue)
  <2>1. PICK i \in 1 .. Len(queue) - 1 : x = Tail(queue)[i]
    BY <1>3 DEF ToSet
  <2>2. i + 1 \in 1 .. Len(queue) /\ x = queue[i + 1]
    BY <1>1, <2>1
  <2> QED
    BY <1>1, <2>2 DEF ToSet
<1>6. Head(queue) \in ToSet(queue) /\ ToSet(queue) \subseteq D
  <2>1. 1 \in 1 .. Len(queue)
    BY <1>1
  <2> QED
    BY <1>1, <1>2, <2>1 DEF ToSet
<1> QED
  BY <1>1, <1>4, <1>5, <1>6

\* A file at the depth bound is passed over.
LEMMA WalkPasses ==
  ASSUME NEW E, NEW f, NEW d \in Nat, NEW level, NEW queue, queue # <<>>,
         Walking(E, f, d, level, queue), level[Head(queue)] >= d
  PROVE  Walking(E, f, d, level, Tail(queue))
<1> DEFINE D == DOMAIN level
           cur == Head(queue)
           rest == Tail(queue)
<1>1. queue \in Seq(D) /\ level \in [D -> 0 .. d]
  BY DEF Walking, Found, Queued
<1>2. /\ Len(queue) \in Nat /\ Len(queue) > 0 /\ cur = queue[1] /\ cur \in D
      /\ rest \in Seq(D) /\ Len(rest) = Len(queue) - 1
      /\ \A i \in 1 .. Len(queue) - 1 : rest[i] = queue[i + 1]
      /\ ToSet(queue) = {cur} \cup ToSet(rest)
  BY <1>1, QueueParts
<1>3. ASSUME NEW i \in 1 .. Len(rest), NEW j \in 1 .. Len(rest), i < j
      PROVE  level[rest[i]] <= level[rest[j]]
  <2>1. i + 1 \in 1 .. Len(queue) /\ j + 1 \in 1 .. Len(queue) /\ i + 1 < j + 1
    BY <1>2, <1>3
  <2>2. rest[i] = queue[i + 1] /\ rest[j] = queue[j + 1]
    BY <1>2
  <2> QED
    BY <2>1, <2>2 DEF Walking, Queued
<1>4. ASSUME rest # <<>>, NEW p \in D PROVE level[p] <= level[Head(rest)] + 1
  <2>1. Head(rest) = rest[1] /\ Head(rest) \in D /\ Len(rest) > 0
    BY <1>2, <1>4, QueueParts
  <2>2. Head(rest) = queue[2] /\ 2 \in 1 .. Len(queue) /\ 1 \in 1 .. Len(queue)
    BY <1>2, <2>1
  <2>3. level[cur] <= level[Head(rest)]
    BY <1>2, <2>2 DEF Walking, Queued
  <2>4. level[p] <= level[cur] + 1
    BY DEF Walking, Queued
  <2>5. level[p] \in Nat /\ level[cur] \in Nat /\ level[Head(rest)] \in Nat
    BY <1>1, <1>2, <2>1
  <2> DEFINE m == level[p]
             n == level[cur]
             k == level[Head(rest)]
  <2> HIDE DEF m, n, k
  <2>6. m \in Nat /\ n \in Nat /\ k \in Nat /\ n <= k /\ m <= n + 1 => m <= k + 1
    OBVIOUS
  <2> QED
    BY <2>3, <2>4, <2>5, <2>6 DEF m, n, k
<1>5. ASSUME NEW p \in D \ ToSet(rest), NEW t \in Paths, level[p] < d, <<p, t>> \in E
      PROVE  t \in D /\ level[t] <= level[p] + 1
  <2>1. level[p] \in 0 .. d
    BY <1>1
  <2>2. p # cur
    BY <1>1, <1>2, <1>5, <2>1
  <2> QED
    BY <1>2, <1>5, <2>2 DEF Walking, Expanded
<1>6. Queued(level, rest)
  BY <1>2, <1>3, <1>4 DEF Queued
<1>7. Expanded(E, d, level, rest)
  BY <1>5 DEF Expanded
<1> QED
  BY <1>6, <1>7 DEF Walking

\* A queue that new elements are put behind.
IsJoined(c, D, a, N, b) ==
  /\ c \in Seq(D \cup N) /\ Len(c) = Len(a) + Len(b)
  /\ Len(a) \in Nat /\ Len(b) \in Nat
  /\ \A i \in 1 .. Len(a) : c[i] = a[i]
  /\ \A i \in 1 .. Len(c) : i > Len(a) => c[i] = b[i - Len(a)] /\ c[i] \in N
  /\ ToSet(c) = ToSet(a) \cup ToSet(b)

LEMMA QueueJoined ==
  ASSUME NEW D, NEW a \in Seq(D), NEW N, NEW b \in Seq(N)
  PROVE  IsJoined(a \o b, D, a, N, b)
<1>1. a \in Seq(D \cup N) /\ b \in Seq(D \cup N)
  OBVIOUS
<1>2. /\ a \o b \in Seq(D \cup N) /\ Len(a \o b) = Len(a) + Len(b)
      /\ \A i \in 1 .. Len(a) + Len(b) : (a \o b)[i] = IF i <= Len(a) THEN a[i] ELSE b[i - Len(a)]
  BY <1>1, ConcatProperties
<1>3. /\ Len(a) \in Nat /\ Len(b) \in Nat /\ DOMAIN a = 1 .. Len(a) /\ DOMAIN b = 1 .. Len(b)
      /\ DOMAIN (a \o b) = 1 .. Len(a \o b)
  BY <1>2
<1>4. \A i \in 1 .. Len(b) : b[i] \in N
  OBVIOUS
<1>5. ASSUME NEW i \in 1 .. Len(a \o b), i > Len(a)
      PROVE  i - Len(a) \in 1 .. Len(b) /\ (a \o b)[i] = b[i - Len(a)] /\ (a \o b)[i] \in N
  <2>1. i - Len(a) \in 1 .. Len(b) /\ ~(i <= Len(a)) /\ i \in 1 .. Len(a) + Len(b)
    BY <1>2, <1>3, <1>5
  <2> QED
    BY <1>2, <1>4, <2>1
<1>6. ASSUME NEW i \in 1 .. Len(a) PROVE i \in 1 .. Len(a \o b) /\ (a \o b)[i] = a[i]
  <2>1. i \in 1 .. Len(a) + Len(b) /\ i <= Len(a)
    BY <1>3
  <2> QED
    BY <1>2, <2>1
<1>7. ASSUME NEW i \in 1 .. Len(b) PROVE i + Len(a) \in 1 .. Len(a \o b) /\ (a \o b)[i + Len(a)] = b[i]
  <2>1. i + Len(a) \in 1 .. Len(a) + Len(b) /\ ~(i + Len(a) <= Len(a)) /\ (i + Len(a)) - Len(a) = i
    BY <1>3
  <2> QED
    BY <1>2, <2>1
<1> DEFINE c == a \o b
<1>8. /\ DOMAIN c = 1 .. Len(c)
      /\ \A i \in 1 .. Len(c) : i > Len(a) => i - Len(a) \in 1 .. Len(b) /\ c[i] = b[i - Len(a)]
      /\ \A i \in 1 .. Len(a) : i \in 1 .. Len(c) /\ c[i] = a[i]
      /\ \A i \in 1 .. Len(b) : i + Len(a) \in 1 .. Len(c) /\ c[i + Len(a)] = b[i]
  BY <1>3, <1>5, <1>6, <1>7
<1>9. ToSet(c) = ToSet(a) \cup ToSet(b)
  <2> HIDE DEF c
  <2>1. ASSUME NEW x \in ToSet(c) PROVE x \in ToSet(a) \cup ToSet(b)
    <3>1. PICK i \in 1 .. Len(c) : x = c[i]
      BY <1>8 DEF ToSet
    <3>2. CASE i > Len(a)
      BY <1>3, <1>8, <3>1, <3>2 DEF ToSet
    <3>3. CASE ~(i > Len(a))
      <4>1. i \in 1 .. Len(a)
        BY <1>3, <3>3
      <4> QED
        BY <1>3, <1>8, <3>1, <4>1 DEF ToSet
    <3> QED
      BY <3>2, <3>3
  <2>2. ToSet(a) \subseteq ToSet(c)
    BY <1>3, <1>8 DEF ToSet
  <2>3. ToSet(b) \subseteq ToSet(c)
    BY <1>3, <1>8 DEF ToSet
  <2> QED
    BY <2>1, <2>2, <2>3
<1> QED
  BY <1>2, <1>3, <1>5, <1>6, <1>9 DEF IsJoined

\* A file above the bound is expanded: its neighbours that were not seen are queued.
LEMMA WalkFollows ==
  ASSUME NEW E, NEW f \in Paths, NEW d \in Nat, NEW level, NEW queue, queue # <<>>,
         Walking(E, f, d, level, queue), level[Head(queue)] < d,
         NEW next \in SUBSET Paths, \A t \in Paths : t \in next <=> <<Head(queue), t>> \in E,
         NEW new \in Seq(next \ DOMAIN level), ToSet(new) = next \ DOMAIN level,
         NEW deeper \in [DOMAIN level \cup next -> Nat],
         \A p \in DOMAIN level : deeper[p] = level[p],
         \A p \in next \ DOMAIN level : deeper[p] = level[Head(queue)] + 1
  PROVE  Walking(E, f, d, deeper, Tail(queue) \o new) /\ DOMAIN deeper = DOMAIN level \cup next
<1> DEFINE D == DOMAIN level
           N == next \ D
           cur == Head(queue)
           rest == Tail(queue)
           joined == rest \o new
           k == level[cur]
<1>1. queue \in Seq(D) /\ level \in [D -> 0 .. d] /\ f \in D /\ level[f] = 0 /\ D \subseteq Paths
  BY DEF Walking, Found, Queued
<1>2. /\ Len(queue) \in Nat /\ Len(queue) > 0 /\ cur = queue[1] /\ cur \in D
      /\ rest \in Seq(D) /\ Len(rest) = Len(queue) - 1
      /\ \A i \in 1 .. Len(queue) - 1 : rest[i] = queue[i + 1]
      /\ ToSet(queue) = {cur} \cup ToSet(rest)
  BY <1>1, QueueParts
<1>3. k \in 0 .. d /\ k < d /\ k \in Nat
  BY <1>1, <1>2
<1>4. /\ joined \in Seq(D \cup N) /\ Len(joined) = Len(rest) + Len(new)
      /\ Len(rest) \in Nat /\ Len(new) \in Nat
      /\ \A i \in 1 .. Len(rest) : joined[i] = rest[i]
      /\ \A i \in 1 .. Len(joined) : i > Len(rest) => joined[i] \in N
      /\ ToSet(joined) = ToSet(rest) \cup N
  <2>1. rest \in Seq(D) /\ new \in Seq(N) /\ ToSet(new) = N
    BY <1>2
  <2> HIDE DEF rest, N, D
  <2>2. /\ joined \in Seq(D \cup N) /\ Len(joined) = Len(rest) + Len(new)
        /\ Len(rest) \in Nat /\ Len(new) \in Nat
        /\ \A i \in 1 .. Len(rest) : joined[i] = rest[i]
        /\ \A i \in 1 .. Len(joined) : i > Len(rest) => joined[i] = new[i - Len(rest)] /\ joined[i] \in N
        /\ ToSet(joined) = ToSet(rest) \cup ToSet(new)
    <3>1. IsJoined(joined, D, rest, N, new)
      BY <2>1, QueueJoined
    <3> HIDE DEF joined
    <3> QED
      BY <3>1 DEF IsJoined
  <2> QED
    BY <2>1, <2>2
<1>5. /\ DOMAIN deeper = D \cup N
      /\ \A p \in D : deeper[p] = level[p] /\ deeper[p] \in 0 .. d /\ deeper[p] \in Nat
      /\ \A p \in N : deeper[p] = k + 1 /\ deeper[p] \in 0 .. d /\ deeper[p] \in Nat /\ deeper[p] <= k + 1
      /\ deeper \in [D \cup N -> 0 .. d]
  <2>1. \A p \in D : level[p] \in 0 .. d
    BY <1>1
  <2>2. k + 1 \in 0 .. d
    BY <1>3
  <2> QED
    BY <2>1, <2>2
<1> HIDE DEF joined, rest, k, N
<1>6. \A p \in D : level[p] <= k + 1
  BY DEF Walking, Queued, k
<1>7. Found(E, f, d, deeper)
  <2>1. D \cup N \subseteq Paths
    BY <1>1 DEF N
  <2>2. \A p \in D : p \in Within(E, f, deeper[p])
    BY <1>5 DEF Walking, Found
  <2>3. ASSUME NEW p \in N PROVE p \in Within(E, f, deeper[p])
    <3>1. <<cur, p>> \in E /\ p \in Paths
      BY DEF N
    <3>2. cur \in Within(E, f, k)
      BY <1>2 DEF Walking, Found, k
    <3> QED
      BY <1>3, <1>5, <3>1, <3>2, WithinSteps
  <2> QED
    BY <1>1, <1>5, <2>1, <2>2, <2>3 DEF Found
<1>8. \A i \in 1 .. Len(rest) : rest[i] \in D /\ level[rest[i]] >= k /\ level[rest[i]] <= k + 1
  <2> SUFFICES ASSUME NEW i \in 1 .. Len(rest)
               PROVE  rest[i] \in D /\ level[rest[i]] >= k /\ level[rest[i]] <= k + 1
    OBVIOUS
  <2>1. 1 \in 1 .. Len(queue) /\ i + 1 \in 1 .. Len(queue) /\ 1 < i + 1 /\ rest[i] = queue[i + 1]
    BY <1>2
  <2>2. level[queue[1]] <= level[queue[i + 1]]
    BY <2>1 DEF Walking, Queued
  <2>3. rest[i] \in D
    BY <1>2
  <2>4. level[rest[i]] \in Nat
    BY <1>5, <2>3
  <2> QED
    BY <1>2, <1>3, <1>6, <2>1, <2>2, <2>3, <2>4 DEF k
<1>9. \A i \in 1 .. Len(joined) :
        /\ deeper[joined[i]] \in Nat /\ deeper[joined[i]] >= k /\ deeper[joined[i]] <= k + 1
        /\ i <= Len(rest) => deeper[joined[i]] = level[rest[i]]
        /\ i > Len(rest) => deeper[joined[i]] = k + 1
  <2> SUFFICES ASSUME NEW i \in 1 .. Len(joined)
               PROVE  /\ deeper[joined[i]] \in Nat /\ deeper[joined[i]] >= k /\ deeper[joined[i]] <= k + 1
                      /\ i <= Len(rest) => deeper[joined[i]] = level[rest[i]]
                      /\ i > Len(rest) => deeper[joined[i]] = k + 1
    OBVIOUS
  <2>1. CASE i <= Len(rest)
    <3>1. i \in 1 .. Len(rest)
      BY <1>4, <2>1
    <3>2. joined[i] = rest[i] /\ rest[i] \in D
      BY <1>4, <1>8, <3>1
    <3>3. deeper[joined[i]] = level[rest[i]] /\ deeper[joined[i]] \in Nat
      BY <1>5, <3>2
    <3> QED
      BY <1>3, <1>4, <1>8, <2>1, <3>1, <3>3
  <2>2. CASE i > Len(rest)
    <3>1. joined[i] \in N
      BY <1>4, <2>2
    <3>2. deeper[joined[i]] = k + 1
      BY <1>5, <3>1
    <3> QED
      BY <1>3, <1>4, <2>2, <3>2
  <2> QED
    BY <1>4, <2>1, <2>2
<1>10. ASSUME NEW i \in 1 .. Len(joined), NEW j \in 1 .. Len(joined), i < j
       PROVE  deeper[joined[i]] <= deeper[joined[j]]
  <2>1. CASE j > Len(rest)
    BY <1>3, <1>9, <2>1
  <2>2. CASE ~(j > Len(rest))
    <3>1. i \in 1 .. Len(rest) /\ j \in 1 .. Len(rest) /\ i <= Len(rest) /\ j <= Len(rest)
      BY <1>4, <1>10, <2>2
    <3>2. i + 1 \in 1 .. Len(queue) /\ j + 1 \in 1 .. Len(queue) /\ i + 1 < j + 1
      BY <1>2, <1>10, <3>1
    <3>3. level[queue[i + 1]] <= level[queue[j + 1]]
      BY <3>2 DEF Walking, Queued
    <3>4. rest[i] = queue[i + 1] /\ rest[j] = queue[j + 1]
      BY <1>2, <3>1
    <3> QED
      BY <1>9, <3>1, <3>3, <3>4
  <2> QED
    BY <2>1, <2>2
<1>11. ASSUME joined # <<>>, NEW p \in D \cup N PROVE deeper[p] <= deeper[Head(joined)] + 1
  <2>1. Head(joined) = joined[1] /\ 1 \in 1 .. Len(joined)
    BY <1>4, <1>11, QueueParts
  <2>2. deeper[Head(joined)] >= k /\ deeper[Head(joined)] \in Nat
    BY <1>9, <2>1
  <2>3. deeper[p] <= k + 1 /\ deeper[p] \in Nat
    <3>1. CASE p \in D
      BY <1>5, <1>6, <3>1
    <3>2. CASE p \in N
      BY <1>5, <3>2
    <3> QED
      BY <1>11, <3>1, <3>2
  <2> DEFINE m == deeper[p]
             h == deeper[Head(joined)]
  <2> HIDE DEF m, h
  <2>4. m \in Nat /\ h \in Nat /\ h >= k /\ m <= k + 1 => m <= h + 1
    BY <1>3
  <2> QED
    BY <2>2, <2>3, <2>4 DEF m, h
<1>12. Queued(deeper, joined)
  BY <1>4, <1>5, <1>10, <1>11 DEF Queued
<1>13. Expanded(E, d, deeper, joined)
  <2> SUFFICES ASSUME NEW p \in (D \cup N) \ ToSet(joined), NEW t \in Paths, deeper[p] < d, <<p, t>> \in E
               PROVE  t \in D \cup N /\ deeper[t] <= deeper[p] + 1
    BY <1>5 DEF Expanded
  <2>1. p \in D /\ p \notin ToSet(rest) /\ deeper[p] = level[p]
    BY <1>4, <1>5
  <2>2. CASE p = cur
    <3>1. t \in next
      BY <2>2
    <3>2. t \in D \cup N /\ deeper[p] = k
      BY <2>1, <2>2, <3>1 DEF k, N
    <3>3. deeper[t] <= k + 1
      <4>1. CASE t \in D
        BY <1>5, <1>6, <4>1
      <4>2. CASE t \in N
        BY <1>5, <4>2
      <4> QED
        BY <3>2, <4>1, <4>2
    <3> QED
      BY <3>2, <3>3
  <2>3. CASE p # cur
    <3>1. p \in D \ ToSet(queue)
      BY <1>2, <2>1, <2>3
    <3>2. t \in D /\ level[t] <= level[p] + 1
      BY <2>1, <3>1 DEF Walking, Expanded
    <3> QED
      BY <1>5, <2>1, <3>2
  <2> QED
    BY <2>2, <2>3
<1> QED
  BY <1>5, <1>7, <1>12, <1>13 DEF Walking, joined, rest, N

\* At its end a walk has found the files within its depth, and only those.
LEMMA WalkEnded ==
  ASSUME NEW E, NEW f \in Paths, NEW d \in Nat, NEW level, Walking(E, f, d, level, <<>>)
  PROVE  DOMAIN level = Within(E, f, d)
<1> DEFINE D == DOMAIN level
<1>1. ToSet(<<>>) = {}
  BY DEF ToSet
<1>2. \A p \in D : \A t \in Paths : level[p] < d /\ <<p, t>> \in E => t \in D /\ level[t] <= level[p] + 1
  BY <1>1 DEF Walking, Expanded
<1>3. level \in [D -> 0 .. d] /\ f \in D /\ level[f] = 0 /\ \A p \in D : p \in Within(E, f, level[p])
  BY DEF Walking, Found
<1>4. ASSUME NEW p \in D PROVE p \in Within(E, f, d)
  <2>1. level[p] \in Nat /\ level[p] <= d
    BY <1>3
  <2> QED
    BY <1>3, <2>1, WithinGrows
<1>5. ASSUME NEW p \in Within(E, f, d) PROVE p \in D
  <2>1. PICK n \in 0 .. d : \E walk \in [0 .. n -> Paths] :
          /\ walk[0] = f /\ walk[n] = p
          /\ \A i \in 1 .. n : <<walk[i - 1], walk[i]>> \in E
    BY DEF Within
  <2>2. PICK walk \in [0 .. n -> Paths] :
          /\ walk[0] = f /\ walk[n] = p
          /\ \A i \in 1 .. n : <<walk[i - 1], walk[i]>> \in E
    BY <2>1
  <2> DEFINE good == {i \in 0 .. n : walk[i] \in D /\ level[walk[i]] <= i}
  <2>3. n \in Nat /\ n <= d
    OBVIOUS
  <2>4. 0 \in good
    BY <1>3, <2>2, <2>3
  <2>5. ASSUME NEW i \in 1 .. n, i - 1 \in good PROVE i \in good
    <3>1. i - 1 \in 0 .. n /\ i \in 0 .. n /\ i \in Nat /\ i <= d
      BY <2>3
    <3>2. walk[i - 1] \in D /\ level[walk[i - 1]] <= i - 1 /\ walk[i] \in Paths
      BY <2>2, <2>5, <3>1
    <3>3. level[walk[i - 1]] \in Nat
      BY <1>3, <3>2
    <3>4. level[walk[i - 1]] < d /\ <<walk[i - 1], walk[i]>> \in E
      BY <2>2, <2>3, <3>1, <3>2, <3>3
    <3>5. walk[i] \in D /\ level[walk[i]] <= level[walk[i - 1]] + 1
      BY <1>2, <3>2, <3>4
    <3>6. level[walk[i]] \in Nat
      BY <1>3, <3>5
    <3> QED
      BY <3>1, <3>2, <3>3, <3>5, <3>6
  <2>6. n \in good
    <3> HIDE DEF good
    <3> QED
      BY <2>3, <2>4, <2>5, AlongWalk
  <2> QED
    BY <2>2, <2>6
<1> QED
  BY <1>4, <1>5
-----------------------------------------------------------------------------
(* The import records. *)

LEMMA RecordsListed ==
  ASSUME NEW p, NEW c, NEW files, NEW r \in RecordsOf(p, c, files)
  PROVE  r.source = p /\ r.resolved \subseteq files
<1>1. PICK l \in Imports(c) : r = [source |-> p, spec |-> l.spec, names |-> l.names,
                                   resolved |-> Resolved(l.spec, p, files)]
  BY DEF RecordsOf
<1>2. Resolved(l.spec, p, files) \subseteq files
  BY DEF Resolved, Least
<1> QED
  BY <1>1, <1>2

\* What has been collected: each record stands for an import that its file had,
RecordsTrue(recs) ==
  \A r \in recs : r.source \in listed /\ \E c \in had[r.source] : r \in RecordsOf(r.source, c, listed)

\* and the records of one of its contents are there for each file that was read.
RecordsCover(files, recs) ==
  \A p \in files : \E c \in had[p] : RecordsOf(p, c, listed) \subseteq recs

LEMMA RecordsBetween ==
  ASSUME NEW recs, RecordsTrue(recs), RecordsCover(listed, recs), listed \in SUBSET Paths
  PROVE  /\ Adjacency(recs) \subseteq Sometime
         /\ \A p, t \in Paths : <<p, t>> \in Always /\ p # t => <<p, t>> \in Adjacency(recs)
<1>1. ASSUME NEW e \in Adjacency(recs) PROVE e \in Sometime
  <2>1. PICK r \in recs : e \in {r.source} \X (r.resolved \ {r.source})
    BY DEF Adjacency
  <2>2. PICK c \in had[r.source] : r \in RecordsOf(r.source, c, listed)
    BY DEF RecordsTrue
  <2>3. r.resolved \subseteq listed /\ r.source \in listed
    BY <2>2, RecordsListed DEF RecordsTrue
  <2>4. e = <<r.source, e[2]>> /\ e[2] \in r.resolved
    BY <2>1
  <2>5. e[2] \in Targets(r.source, c)
    BY <2>2, <2>4 DEF Targets
  <2>6. e \in listed \X Paths /\ e[1] = r.source
    BY <2>3, <2>4
  <2> QED
    BY <2>5, <2>6 DEF Sometime
<1>2. ASSUME NEW p \in Paths, NEW t \in Paths, <<p, t>> \in Always, p # t
      PROVE  <<p, t>> \in Adjacency(recs)
  <2>1. p \in listed /\ \A c \in had[p] : t \in Targets(p, c)
    BY <1>2 DEF Always
  <2>2. PICK c \in had[p] : RecordsOf(p, c, listed) \subseteq recs
    BY <2>1 DEF RecordsCover
  <2>3. PICK r \in RecordsOf(p, c, listed) : t \in r.resolved
    BY <2>1 DEF Targets
  <2>4. r \in recs /\ r.source = p
    BY <2>2, RecordsListed
  <2>5. <<p, t>> \in {r.source} \X (r.resolved \ {r.source})
    BY <1>2, <2>3, <2>4
  <2> QED
    BY <2>4, <2>5 DEF Adjacency
<1> QED
  BY <1>1, <1>2

LEMMA EdgesAreFiles ==
  ASSUME NEW q, RecordsTrue(q.recs), listed \in SUBSET Paths
  PROVE  Adjacency(q.recs) \in SUBSET (Paths \X Paths) /\ \A d : Followed(q, d) \in SUBSET (Paths \X Paths)
<1>1. ASSUME NEW e \in Adjacency(q.recs) PROVE e \in Paths \X Paths
  <2>1. PICK r \in q.recs : e \in {r.source} \X (r.resolved \ {r.source})
    BY DEF Adjacency
  <2>2. PICK c \in had[r.source] : r \in RecordsOf(r.source, c, listed)
    BY DEF RecordsTrue
  <2>3. r.resolved \subseteq listed /\ r.source \in listed
    BY <2>2, RecordsListed DEF RecordsTrue
  <2> QED
    BY <2>1, <2>3
<1>2. Inverted(Adjacency(q.recs)) \in SUBSET (Paths \X Paths)
  BY <1>1 DEF Inverted
<1> QED
  BY <1>1, <1>2 DEF Followed

LEMMA ReachMonotone ==
  ASSUME NEW E \in SUBSET (Paths \X Paths), NEW F, NEW q, q.file \in Paths, q.depth \in Nat,
         \A p, t \in Paths : <<p, t>> \in E /\ p # t => <<p, t>> \in F
  PROVE  Reach(E, q) \subseteq Reach(F, q)
<1> SUFFICES ASSUME NEW x \in Reach(E, q) PROVE x \in Reach(F, q)
  OBVIOUS
<1>1. PICK d \in ToSet(Walks(q)) :
        x \in Within(IF d = "imports" THEN E ELSE Inverted(E), q.file, q.depth)
  BY DEF Reach
<1>2. CASE d = "imports"
  <2>1. x \in Within(F, q.file, q.depth)
    BY <1>1, <1>2, WithinMonotone
  <2> QED
    BY <1>1, <1>2, <2>1 DEF Reach
<1>3. CASE d # "imports"
  <2>1. \A p, t \in Paths : <<p, t>> \in Inverted(E) /\ p # t => <<p, t>> \in Inverted(F)
    <3>1. ASSUME NEW p \in Paths, NEW t \in Paths, <<p, t>> \in Inverted(E), p # t
          PROVE  <<p, t>> \in Inverted(F)
      <4>1. PICK e \in E : <<p, t>> = <<e[2], e[1]>>
        BY <3>1 DEF Inverted
      <4>2. e = <<t, p>>
        BY <4>1
      <4>3. <<t, p>> \in F
        BY <3>1, <4>2
      <4> QED
        BY <4>3 DEF Inverted
    <3> QED
      BY <3>1
  <2>2. x \in Within(Inverted(F), q.file, q.depth)
    BY <1>1, <1>3, <2>1, WithinMonotone
  <2> QED
    BY <1>1, <1>3, <2>2 DEF Reach
<1> QED
  BY <1>2, <1>3
-----------------------------------------------------------------------------
(* The tools about imports. *)

AllVersions == UNION {Versions[p] : p \in Paths}

GraphTypes ==
  /\ tree \in [Paths -> AllVersions] /\ had \in [Paths -> SUBSET AllVersions]
  /\ listed \in SUBSET Paths
  /\ query = [f \in DOMAIN QueryIdle |-> query[f]]
  /\ query.at \in {"idle", "read", "walk", "mentions", "answer", "done"}
  /\ query.tool \in {"graph", "blast", "importers", "references", "check"}
  /\ query.dir \in Directions /\ query.depth \in Nat
  /\ query.todo \in Seq(Paths)
  /\ query.at # "idle" /\ query.tool \in {"graph", "blast"} => query.file \in Paths

\* What is on the disk counts as what the file had.
HadCurrent == query.at # "idle" => \A p \in Paths : tree[p] \in had[p]

\* The records are those of the files that were read.
Collected ==
  /\ query.at # "idle" => RecordsTrue(query.recs)
  /\ query.at = "read" => /\ RecordsCover(listed \ ToSet(query.todo), query.recs)
                          /\ ToSet(query.todo) \subseteq listed
  /\ query.at \notin {"idle", "read"} => RecordsCover(listed, query.recs)

\* An answer is empty until it is written.
Unanswered ==
  /\ query.at \in {"idle", "read"} => query.nodes = {} /\ query.edges = {}
  /\ query.at \in {"idle", "read", "walk", "answer"} => query.rows = {} /\ query.content = {}
  /\ query.at = "answer" => query.tool # "blast"
  /\ query.at = "walk" => query.tool \in {"graph", "blast"}
  /\ query.at = "mentions" => query.tool \in {"blast", "check"}
  /\ query.at = "done" /\ query.tool \in {"blast", "check"} => query.todo = <<>>

\* The files of the walk that came before this one.
WalkedBefore(q) == IF q.walks = Walks(q) THEN {} ELSE Within(Adjacency(q.recs), q.file, q.depth)

WalkUnderWay ==
  query.at = "walk" =>
    /\ \/ query.walks = Walks(query)
       \/ Walks(query) = <<"imports", "importers">> /\ query.walks = <<"importers">>
    /\ Walking(Followed(query, Head(query.walks)), query.file, query.depth, query.level, query.queue)
    /\ query.nodes = WalkedBefore(query) \cup DOMAIN query.level
    /\ query.edges \subseteq query.nodes \X query.nodes

GraphWalked ==
  query.at \in {"answer", "mentions", "done"} /\ query.tool \in {"graph", "blast"} =>
    /\ query.nodes = Reach(Adjacency(query.recs), query)
    /\ query.edges \subseteq query.nodes \X query.nodes

\* What a verdict says of a content.
Says(r, c, word) ==
  CASE r.kind = "unavailable" -> c = Missing
    [] r.kind = "confirmed" -> Mentions(c, word) # {}
    [] OTHER -> c # Missing /\ Mentions(c, word) = {}

Classified ==
  query.at \in {"mentions", "done"} /\ query.tool = "blast" =>
    /\ \A p \in query.nodes \ {query.file} : p \in ToSet(query.todo) \/ \E r \in query.rows : r.file = p
    /\ \A r \in query.rows : r.file \in Paths /\ \E c \in had[r.file] : Says(r, c, query.word)

Looked ==
  query.at \in {"mentions", "done"} /\ query.tool = "check" =>
    /\ \A p \in query.content : p \in Paths /\ \E c \in had[p] : Mentions(c, query.word) # {}
    /\ query.search_content /\ query.content = {} =>
         \A p \in listed \ DefinedIn[query.word] :
           p \in ToSet(query.todo) \/ \E c \in had[p] : Mentions(c, query.word) = {}

ImportersImport ==
  query.at = "done" /\ query.tool = "importers" =>
    \A r \in query.rows : r.file \in Paths /\ \E c \in had[r.file] : query.file \in Targets(r.file, c)

\* The references are import records that match.
ReferencesMatch ==
  /\ query.at \in {"mentions", "done"} /\ query.tool = "check" => query.rows = ReferenceRows(query)
  /\ query.at = "done" /\ query.tool = "references" => query.rows \subseteq ReferenceRows(query)

GraphInvariant ==
  /\ GraphTypes /\ HadCurrent /\ Collected /\ Unanswered /\ WalkUnderWay /\ GraphWalked
  /\ Classified /\ Looked /\ ImportersImport /\ ReferencesMatch

LEMMA GraphBegins == GraphInit => GraphInvariant
<1> SUFFICES ASSUME GraphInit PROVE GraphInvariant
  OBVIOUS
<1>1. query = QueryIdle /\ query.at = "idle" /\ query.tool = "graph" /\ query.nodes = {} /\ query.edges = {}
      /\ query.rows = {} /\ query.content = {} /\ query.dir = "imports" /\ query.depth = 0
      /\ query.todo = <<>>
  BY DEF GraphInit, QueryIdle
<1>2. query = [f \in DOMAIN QueryIdle |-> query[f]]
  <2>1. QueryIdle = [f \in DOMAIN QueryIdle |-> QueryIdle[f]]
    BY DEF QueryIdle
  <2> QED
    BY <1>1, <2>1
<1>3. GraphTypes
  BY <1>1, <1>2 DEF GraphInit, GraphTypes, AllVersions, Directions
<1> QED
  BY <1>1, <1>3 DEF GraphInvariant, HadCurrent, Collected, Unanswered, WalkUnderWay, GraphWalked,
     Classified, Looked, ImportersImport, ReferencesMatch

\* What a step leaves of the call and its surroundings.
CallKept ==
  /\ tree' = tree /\ had' = had /\ listed' = listed
  /\ query'.tool = query.tool /\ query'.file = query.file /\ query'.word = query.word
  /\ query'.dir = query.dir /\ query'.depth = query.depth
  /\ query'.search_content = query.search_content
  /\ query' = [f \in DOMAIN QueryIdle |-> query'[f]]

LEMMA TypesKept ==
  ASSUME GraphTypes, CallKept, query'.at \in {"read", "walk", "mentions", "answer", "done"},
         query'.todo \in Seq(Paths), query.at # "idle"
  PROVE  GraphTypes'
<1> QED
  BY DEF GraphTypes, CallKept

\* The records stay as they are once they are collected.
LEMMA RecordsKept ==
  ASSUME GraphInvariant, CallKept, query'.recs = query.recs,
         query.at \notin {"idle", "read"}, query'.at \notin {"idle", "read"}
  PROVE  Collected' /\ HadCurrent'
<1>1. RecordsTrue(query.recs) /\ RecordsCover(listed, query.recs) /\ \A p \in Paths : tree[p] \in had[p]
  BY DEF GraphInvariant, Collected, HadCurrent
<1>2. HadCurrent'
  BY <1>1 DEF HadCurrent, CallKept
<1>3. RecordsTrue(query.recs)'
  BY <1>1 DEF RecordsTrue, CallKept
<1>4. RecordsCover(listed, query.recs)'
  BY <1>1 DEF RecordsCover, CallKept
<1> QED
  BY <1>2, <1>3, <1>4 DEF Collected

LEMMA ReachKept ==
  ASSUME CallKept, query'.recs = query.recs
  PROVE  /\ Reach(Adjacency(query.recs), query)' = Reach(Adjacency(query.recs), query)
         /\ Walks(query)' = Walks(query)
         /\ \A d : Followed(query, d)' = Followed(query, d)
<1>1. Walks(query)' = Walks(query)
  BY DEF Walks, CallKept
<1>2. \A d : Followed(query, d)' = Followed(query, d)
  BY DEF Followed
<1>3. Reach(Adjacency(query.recs), query)' = Reach(Adjacency(query.recs), query)
  BY <1>1 DEF Reach, CallKept
<1> QED
  BY <1>1, <1>2, <1>3

\* After its walks the files of a graph stay as they are.
LEMMA WalkedKept ==
  ASSUME GraphInvariant, CallKept, query'.recs = query.recs, query'.nodes = query.nodes,
         query'.edges = query.edges, query.at \in {"answer", "mentions", "done"}
  PROVE  GraphWalked'
<1>1. query'.tool = query.tool
  BY DEF CallKept
<1>2. query.tool \in {"graph", "blast"} =>
        query.nodes = Reach(Adjacency(query.recs), query) /\ query.edges \subseteq query.nodes \X query.nodes
  BY DEF GraphInvariant, GraphWalked
<1> QED
  BY <1>1, <1>2, ReachKept DEF GraphWalked

\* The imports are still being read.
LEMMA ReadKeeps ==
  ASSUME GraphInvariant, ReadImports PROVE GraphInvariant'
<1> DEFINE f == Head(query.todo)
           new == RecordsOf(f, tree[f], listed)
<1>1. /\ query.at = "read" /\ query'.at = "read" /\ query'.todo = Tail(query.todo)
      /\ query'.recs = query.recs \cup new /\ query'.nodes = query.nodes /\ query'.edges = query.edges
      /\ query'.rows = query.rows /\ query'.content = query.content /\ CallKept
      /\ query.todo # <<>>
  BY DEF GraphInvariant, GraphTypes, ReadImports, CallKept, QueryIdle
<1>2. /\ query.todo \in Seq(Paths) /\ f \in Paths /\ Tail(query.todo) \in Seq(Paths)
      /\ ToSet(query.todo) = {f} \cup ToSet(Tail(query.todo))
  <2>1. query.todo \in Seq(Paths)
    BY DEF GraphInvariant, GraphTypes
  <2> QED
    BY <1>1, <2>1, QueueParts
<1>3. GraphTypes'
  BY <1>1, <1>2, TypesKept DEF GraphInvariant
<1>4. tree[f] \in had[f] /\ HadCurrent' /\ f \in listed
  <2>1. f \in listed
    BY <1>1, <1>2 DEF GraphInvariant, Collected
  <2> QED
    BY <1>1, <1>2, <2>1 DEF GraphInvariant, HadCurrent, CallKept
<1>5. RecordsTrue(query.recs)'
  <2> SUFFICES ASSUME NEW r \in query.recs \cup new
               PROVE  r.source \in listed /\ \E c \in had[r.source] : r \in RecordsOf(r.source, c, listed)
    BY <1>1 DEF RecordsTrue, CallKept
  <2>1. CASE r \in query.recs
    BY <1>1, <2>1 DEF GraphInvariant, Collected, RecordsTrue
  <2>2. CASE r \in new
    <3>1. r.source = f
      BY <2>2, RecordsListed
    <3> QED
      BY <1>1, <1>4, <2>2, <3>1
  <2> QED
    BY <2>1, <2>2
<1>6. RecordsCover(listed \ ToSet(query.todo), query.recs)'
  <2> DEFINE left == ToSet(Tail(query.todo))
  <2> SUFFICES ASSUME NEW p \in listed \ left
               PROVE  \E c \in had[p] : RecordsOf(p, c, listed) \subseteq query.recs \cup new
    BY <1>1 DEF RecordsCover, CallKept
  <2>1. CASE p = f
    BY <1>4, <2>1
  <2>2. CASE p # f
    <3>1. p \in listed \ ToSet(query.todo)
      BY <1>2, <2>2
    <3>2. PICK c \in had[p] : RecordsOf(p, c, listed) \subseteq query.recs
      BY <1>1, <3>1 DEF GraphInvariant, Collected, RecordsCover
    <3> QED
      BY <3>2
  <2> QED
    BY <2>1, <2>2
<1>7. Collected'
  <2>1. ToSet(query'.todo) \subseteq listed'
    BY <1>1, <1>2 DEF GraphInvariant, Collected, CallKept
  <2> QED
    BY <1>1, <1>5, <1>6, <2>1 DEF Collected
<1>8. Unanswered'
  BY <1>1 DEF Unanswered, GraphInvariant
<1> QED
  BY <1>1, <1>3, <1>4, <1>7, <1>8 DEF GraphInvariant, WalkUnderWay, GraphWalked, Classified, Looked, ImportersImport,
     ReferencesMatch
-----------------------------------------------------------------------------
(* The steps of a call. *)

\* A file is edited.
LEMMA EditKeeps ==
  ASSUME GraphInvariant, NEW p \in Paths, NEW v \in Versions[p], EditSource(p, v)
  PROVE  GraphInvariant'
<1>1. /\ query' = query /\ listed' = listed /\ query.at # "idle"
      /\ tree' = [tree EXCEPT ![p] = v] /\ had' = [had EXCEPT ![p] = @ \cup {v}]
  BY DEF EditSource
<1>2. tree \in [Paths -> AllVersions] /\ had \in [Paths -> SUBSET AllVersions] /\ v \in AllVersions
  BY DEF GraphInvariant, GraphTypes, AllVersions
<1>3. /\ tree' \in [Paths -> AllVersions] /\ had' \in [Paths -> SUBSET AllVersions]
      /\ \A f \in Paths : had[f] \subseteq had'[f] /\ (f # p => tree'[f] = tree[f])
      /\ tree'[p] = v /\ v \in had'[p]
  <2> HIDE DEF AllVersions
  <2> QED
    BY <1>1, <1>2
<1>4. listed \in SUBSET Paths
  BY DEF GraphInvariant, GraphTypes
<1>5. GraphTypes'
  BY <1>1, <1>3 DEF GraphInvariant, GraphTypes
<1>6. HadCurrent'
  BY <1>1, <1>3 DEF GraphInvariant, HadCurrent
<1>7. Collected'
  <2>1. RecordsTrue(query.recs)'
    BY <1>1, <1>3, <1>4 DEF GraphInvariant, Collected, RecordsTrue
  <2>2. ASSUME NEW files \in SUBSET listed, RecordsCover(files, query.recs)
        PROVE  \A f \in files : \E c \in had'[f] : RecordsOf(f, c, listed) \subseteq query.recs
    BY <1>3, <1>4, <2>2 DEF RecordsCover
  <2>3. query.at = "read" => RecordsCover(listed \ ToSet(query.todo), query.recs)'
    BY <1>1, <2>2 DEF GraphInvariant, Collected, RecordsCover
  <2>4. query.at \notin {"idle", "read"} => RecordsCover(listed, query.recs)'
    BY <1>1, <2>2 DEF GraphInvariant, Collected, RecordsCover
  <2> QED
    BY <1>1, <2>1, <2>3, <2>4 DEF GraphInvariant, Collected
<1>8. Unanswered' /\ WalkUnderWay' /\ GraphWalked'
  BY <1>1 DEF GraphInvariant, Unanswered, WalkUnderWay, GraphWalked
<1>9. Classified'
  BY <1>1, <1>3 DEF GraphInvariant, Classified
<1>10. Looked'
  BY <1>1, <1>3, <1>4 DEF GraphInvariant, Looked
<1>11. ImportersImport'
  BY <1>1, <1>3 DEF GraphInvariant, ImportersImport, Targets
<1>12. ReferencesMatch'
  BY <1>1 DEF GraphInvariant, ReferencesMatch, ReferenceRows
<1> QED
  BY <1>5, <1>6, <1>7, <1>8, <1>9, <1>10, <1>11, <1>12 DEF GraphInvariant

\* A call begins; a graph of a file that is not indexed is refused.
LEMMA AskKeeps ==
  ASSUME GraphInvariant, NEW q \in Queries, AskGraph(q) PROVE GraphInvariant'
<1>1. /\ q = [QueryIdle EXCEPT !.tool = q.tool, !.file = q.file, !.word = q.word, !.dir = q.dir,
                               !.depth = q.depth, !.max = q.max, !.search_content = q.search_content]
      /\ q.tool \in {"graph", "blast", "importers", "references", "check"}
      /\ q.dir \in Directions /\ q.depth \in Nat
      /\ q.tool \in {"graph", "blast"} => q.file \in Paths
  BY GraphAssumption
<1>2. /\ q = [f \in DOMAIN QueryIdle |-> q[f]] /\ q.at = "idle" /\ q.todo = <<>> /\ q.recs = {}
      /\ q.nodes = {} /\ q.edges = {} /\ q.rows = {} /\ q.content = {}
  <2>1. q = [f \in DOMAIN QueryIdle |-> q[f]]
    BY <1>1, ZenonT(60) DEF QueryIdle
  <2>2. q.at = "idle" /\ q.todo = <<>> /\ q.recs = {}
    BY <1>1, ZenonT(60) DEF QueryIdle
  <2>3. q.nodes = {} /\ q.edges = {} /\ q.rows = {} /\ q.content = {}
    BY <1>1, ZenonT(60) DEF QueryIdle
  <2> QED
    BY <2>1, <2>2, <2>3
<1>3. /\ tree' = tree /\ listed' = listed /\ had' = [p \in Paths |-> {tree[p]}]
      /\ query' = IF q.tool = "graph" /\ q.file \notin listed
                  THEN [q EXCEPT !.error = TRUE]
                  ELSE [q EXCEPT !.at = "read", !.todo = SortedFiles(listed)]
  BY DEF AskGraph
<1>4. /\ query'.at \in {"idle", "read"} /\ query'.tool = q.tool /\ query'.file = q.file
      /\ query'.dir = q.dir /\ query'.depth = q.depth /\ query'.recs = {}
      /\ query'.nodes = {} /\ query'.edges = {} /\ query'.rows = {} /\ query'.content = {}
      /\ query' = [f \in DOMAIN QueryIdle |-> query'[f]]
      /\ query'.at = "idle" => query'.todo = <<>>
      /\ query'.at = "read" => query'.todo = SortedFiles(listed)
  BY <1>2, <1>3 DEF QueryIdle
<1>5. listed \in SUBSET Paths /\ tree \in [Paths -> AllVersions]
  BY DEF GraphInvariant, GraphTypes
<1>6. SortedFiles(listed) \in Seq(Paths) /\ ToSet(SortedFiles(listed)) = listed
  BY <1>5, FilesQueued
<1>7. GraphTypes'
  <2>1. had' \in [Paths -> SUBSET AllVersions]
    BY <1>3, <1>5
  <2>2. query'.todo \in Seq(Paths)
    <3>1. <<>> \in Seq(Paths)
      OBVIOUS
    <3>2. CASE query'.at = "idle"
      BY <1>4, <3>1, <3>2
    <3>3. CASE query'.at = "read"
      BY <1>4, <1>6, <3>3
    <3> QED
      BY <1>4, <3>2, <3>3
  <2> HIDE DEF AllVersions
  <2> QED
    BY <1>1, <1>3, <1>4, <1>5, <2>1, <2>2 DEF GraphTypes
<1>8. HadCurrent'
  BY <1>3 DEF HadCurrent
<1>9. Collected'
  BY <1>3, <1>4, <1>6 DEF Collected, RecordsTrue, RecordsCover
<1>10. Unanswered'
  BY <1>4 DEF Unanswered
<1> QED
  BY <1>4, <1>7, <1>8, <1>9, <1>10
     DEF GraphInvariant, WalkUnderWay, GraphWalked, Classified, Looked, ImportersImport, ReferencesMatch

\* All imports are there: the first walk begins, or the answer is due.
LEMMA ImportsEnd ==
  ASSUME GraphInvariant, AfterImports PROVE GraphInvariant'
<1>1. /\ query.at = "read" /\ query.todo = <<>> /\ query'.todo = <<>> /\ CallKept
      /\ query'.recs = query.recs /\ query'.edges = query.edges
      /\ query'.rows = query.rows /\ query'.content = query.content
  BY DEF GraphInvariant, GraphTypes, AfterImports, BeginWalk, CallKept, QueryIdle
<1>2. Walks(query) = <<>> => query'.at = "answer"
  BY DEF GraphInvariant, GraphTypes, AfterImports, QueryIdle
<1>3. Walks(query) # <<>> =>
        /\ query'.at = "walk" /\ query'.walks = Walks(query) /\ query'.queue = <<query.file>>
        /\ query'.level = [p \in {query.file} |-> 0] /\ query'.nodes = query.nodes \cup {query.file}
  BY DEF GraphInvariant, GraphTypes, AfterImports, BeginWalk, QueryIdle
<1>4. /\ query.tool = "graph" => Walks(query) \in {<<"imports", "importers">>, <<query.dir>>}
      /\ query.tool = "blast" => Walks(query) = <<"importers">>
      /\ query.tool \notin {"graph", "blast"} => Walks(query) = <<>>
      /\ Walks(query)' = Walks(query)
  BY <1>1, ReachKept DEF Walks
<1>5. Walks(query) # <<>> <=> query.tool \in {"graph", "blast"}
  BY <1>4
<1>6. GraphTypes' /\ HadCurrent'
  BY <1>1, <1>2, <1>3, TypesKept DEF GraphInvariant, GraphTypes, HadCurrent, CallKept
<1>7. Collected'
  <2>1. ToSet(query.todo) = {}
    BY <1>1 DEF ToSet
  <2>2. RecordsTrue(query.recs) /\ RecordsCover(listed \ ToSet(query.todo), query.recs)
    BY <1>1 DEF GraphInvariant, Collected
  <2>3. listed \ ToSet(query.todo) = listed
    BY <2>1
  <2>4. RecordsCover(listed, query.recs)
    BY <2>2, <2>3
  <2>5. RecordsTrue(query.recs)' /\ RecordsCover(listed, query.recs)'
    BY <1>1, <2>2, <2>4 DEF RecordsTrue, RecordsCover, CallKept
  <2> QED
    BY <1>2, <1>3, <2>5 DEF Collected
<1>8. query.nodes = {} /\ query.edges = {} /\ query.rows = {} /\ query.content = {}
  BY <1>1 DEF GraphInvariant, Unanswered
<1>9. Unanswered'
  BY <1>1, <1>2, <1>3, <1>5, <1>8 DEF Unanswered, CallKept
<1>10. WalkUnderWay'
  <2> SUFFICES ASSUME Walks(query) # <<>> PROVE WalkUnderWay'
    BY <1>2 DEF WalkUnderWay
  <2>1. query.file \in Paths /\ query.depth \in Nat
    BY <1>1, <1>5 DEF GraphInvariant, GraphTypes
  <2>2. \A E : Walking(E, query.file, query.depth, query'.level, query'.queue)
    <3>1. ASSUME NEW E
          PROVE  Walking(E, query.file, query.depth, [p \in {query.file} |-> 0], <<query.file>>)
      BY <2>1, WalkStarts
    <3> QED
      BY <1>3, <3>1
  <2>3. Walking(Followed(query, Head(query.walks)), query.file, query.depth, query.level, query.queue)'
    BY <1>1, <2>2 DEF CallKept
  <2>4. query'.nodes = {query.file} /\ DOMAIN query'.level = {query.file}
    BY <1>3, <1>8
  <2>5. WalkedBefore(query)' = {}
    BY <1>3, <1>4 DEF WalkedBefore
  <2> QED
    BY <1>1, <1>3, <1>4, <1>8, <2>3, <2>4, <2>5 DEF WalkUnderWay
<1> QED
  BY <1>1, <1>2, <1>3, <1>5, <1>6, <1>7, <1>9, <1>10
     DEF GraphInvariant, GraphWalked, Classified, Looked, ImportersImport, ReferencesMatch, CallKept

\* One file is taken from the queue.
LEMMA WalkKeeps ==
  ASSUME GraphInvariant, Walk PROVE GraphInvariant'
<1> DEFINE E == Followed(query, Head(query.walks))
           cur == Head(query.queue)
           next == {e[2] : e \in {x \in E : x[1] = cur}}
           new == SortedFiles(next \ DOMAIN query.level)
           far == query.level[cur] >= query.depth
<1>1. /\ query.at = "walk" /\ query'.at = "walk" /\ query.queue # <<>> /\ CallKept
      /\ query'.todo = query.todo /\ query'.recs = query.recs /\ query'.walks = query.walks
      /\ query'.rows = query.rows /\ query'.content = query.content
  BY DEF GraphInvariant, GraphTypes, Walk, CallKept, QueryIdle
<1>2. far => /\ query'.queue = Tail(query.queue) /\ query'.level = query.level
             /\ query'.nodes = query.nodes /\ query'.edges = query.edges
  BY DEF GraphInvariant, GraphTypes, Walk, QueryIdle
<1>3. ~far => /\ query'.queue = Tail(query.queue) \o new
              /\ query'.level = [p \in DOMAIN query.level \cup ToSet(new) |->
                                   IF p \in DOMAIN query.level THEN query.level[p] ELSE query.level[cur] + 1]
              /\ query'.nodes = query.nodes \cup next /\ query'.edges = query.edges \cup ({cur} \X next)
  <2> HIDE DEF new, next
  <2> QED
    BY DEF GraphInvariant, GraphTypes, Walk, QueryIdle, new, next
<1> HIDE DEF E, new, next, far
<1>4. /\ Walking(E, query.file, query.depth, query.level, query.queue)
      /\ query.nodes = WalkedBefore(query) \cup DOMAIN query.level
      /\ query.edges \subseteq query.nodes \X query.nodes
      /\ query.file \in Paths /\ query.depth \in Nat /\ listed \in SUBSET Paths
      /\ RecordsTrue(query.recs)
  BY <1>1 DEF GraphInvariant, WalkUnderWay, GraphTypes, Collected, Unanswered, E
<1>5. E \in SUBSET (Paths \X Paths)
  BY <1>4, EdgesAreFiles DEF E
<1>6. next \in SUBSET Paths /\ \A t \in Paths : t \in next <=> <<cur, t>> \in E
  BY <1>5 DEF next
<1>7. new \in Seq(next \ DOMAIN query.level) /\ ToSet(new) = next \ DOMAIN query.level
  <2>1. next \ DOMAIN query.level \in SUBSET Paths
    BY <1>6
  <2> QED
    BY <2>1, FilesQueued DEF new
<1>8. cur \in DOMAIN query.level /\ query.level \in [DOMAIN query.level -> 0 .. query.depth]
  <2>1. query.queue \in Seq(DOMAIN query.level) /\ query.level \in [DOMAIN query.level -> 0 .. query.depth]
    BY <1>4 DEF Walking, Queued, Found
  <2> QED
    BY <1>1, <2>1, QueueParts
<1>9. /\ Walking(E, query.file, query.depth, query'.level, query'.queue)
      /\ query'.nodes = WalkedBefore(query) \cup DOMAIN query'.level
      /\ query'.edges \subseteq query'.nodes \X query'.nodes
  <2>1. CASE far
    <3>1. Walking(E, query.file, query.depth, query.level, Tail(query.queue))
      BY <1>1, <1>4, <2>1, WalkPasses DEF far
    <3> QED
      BY <1>2, <1>4, <2>1, <3>1
  <2>2. CASE ~far
    <3>1. query.level[cur] < query.depth
      BY <1>4, <1>8, <2>2 DEF far
    <3> DEFINE deeper == [p \in DOMAIN query.level \cup ToSet(new) |->
                            IF p \in DOMAIN query.level THEN query.level[p] ELSE query.level[cur] + 1]
               joined == Tail(query.queue) \o new
    <3>2. Walking(E, query.file, query.depth, deeper, joined) /\ DOMAIN deeper = DOMAIN query.level \cup next
      <4> DEFINE level == query.level
                 queue == query.queue
      <4>1. deeper = [p \in DOMAIN level \cup ToSet(new) |->
                        IF p \in DOMAIN level THEN level[p] ELSE level[Head(queue)] + 1]
        BY DEF cur
      <4>4. level \in [DOMAIN level -> Nat] /\ level[Head(queue)] \in Nat
        <5>1. level \in [DOMAIN level -> 0 .. query.depth] /\ Head(queue) \in DOMAIN level
          BY <1>8 DEF cur
        <5> HIDE DEF level, queue
        <5> QED
          BY <1>4, <5>1
      <4>2. /\ Walking(E, query.file, query.depth, level, queue) /\ level[Head(queue)] < query.depth
            /\ \A t \in Paths : t \in next <=> <<Head(queue), t>> \in E
            /\ new \in Seq(next \ DOMAIN level) /\ ToSet(new) = next \ DOMAIN level
            /\ queue # <<>>
        BY <1>1, <1>4, <1>6, <1>7, <3>1
      <4> HIDE DEF deeper, level, queue
      <4>5. /\ deeper \in [DOMAIN level \cup next -> Nat]
            /\ \A p \in DOMAIN level : deeper[p] = level[p]
            /\ \A p \in next \ DOMAIN level : deeper[p] = level[Head(queue)] + 1
        BY <4>1, <4>2, <4>4
      <4>3. Walking(E, query.file, query.depth, deeper, Tail(queue) \o new) /\ DOMAIN deeper = DOMAIN level \cup next
        BY <1>4, <1>6, <4>2, <4>5, WalkFollows
      <4> QED
        BY <4>3 DEF level, queue
    <3>3. query'.queue = joined /\ query'.level = deeper
      BY <1>3, <2>2
    <3> HIDE DEF deeper, joined
    <3> QED
      BY <1>3, <1>4, <1>8, <2>2, <3>2, <3>3
  <2> QED
    BY <2>1, <2>2
<1>10. WalkUnderWay'
  <2>1. WalkedBefore(query)' = WalkedBefore(query) /\ Walks(query)' = Walks(query)
    BY <1>1, ReachKept DEF WalkedBefore, CallKept
  <2>2. Followed(query, Head(query.walks))' = E
    BY <1>1, ReachKept DEF E
  <2> QED
    BY <1>1, <1>9, <2>1, <2>2 DEF WalkUnderWay, CallKept, GraphInvariant
<1>11. GraphTypes'
  BY <1>1, TypesKept DEF GraphInvariant, GraphTypes
<1>12. Collected' /\ HadCurrent'
  BY <1>1, RecordsKept
<1>13. Unanswered'
  BY <1>1 DEF Unanswered, GraphInvariant, CallKept
<1> QED
  BY <1>1, <1>10, <1>11, <1>12, <1>13, SMTT(40)
     DEF GraphInvariant, GraphWalked, Classified, Looked, ImportersImport, ReferencesMatch

\* What the files of a graph are at the end of a walk.
LEMMA WalkOver ==
  ASSUME GraphInvariant, query.at = "walk", query.queue = <<>>
  PROVE  /\ query.nodes = WalkedBefore(query) \cup
              Within(Followed(query, Head(query.walks)), query.file, query.depth)
         /\ query.edges \subseteq query.nodes \X query.nodes
         /\ Len(query.walks) <= 1 => query.nodes = Reach(Adjacency(query.recs), query)
         /\ Len(query.walks) > 1 =>
              /\ Walks(query) = <<"imports", "importers">> /\ Tail(query.walks) = <<"importers">>
              /\ query.nodes = Within(Adjacency(query.recs), query.file, query.depth)
<1> DEFINE f == query.file
           d == query.depth
           A == Adjacency(query.recs)
           walks == query.walks
<1>1. /\ \/ walks = Walks(query)
         \/ Walks(query) = <<"imports", "importers">> /\ walks = <<"importers">>
      /\ Walking(Followed(query, Head(walks)), f, d, query.level, query.queue)
      /\ query.nodes = WalkedBefore(query) \cup DOMAIN query.level
      /\ query.edges \subseteq query.nodes \X query.nodes
  BY DEF GraphInvariant, WalkUnderWay
<1>2. query.tool \in {"graph", "blast"} /\ f \in Paths /\ d \in Nat
  BY DEF GraphInvariant, Unanswered, GraphTypes
<1>3. DOMAIN query.level = Within(Followed(query, Head(walks)), f, d)
  <2>1. Walking(Followed(query, Head(walks)), f, d, query.level, <<>>)
    BY <1>1
  <2> QED
    BY <1>2, <2>1, WalkEnded
<1>4. query.nodes = WalkedBefore(query) \cup Within(Followed(query, Head(walks)), f, d)
  BY <1>1, <1>3
<1>5. Walks(query) \in {<<"imports", "importers">>, <<"imports">>, <<"importers">>}
  BY <1>2 DEF Walks, GraphInvariant, GraphTypes, Directions
<1>6. /\ ToSet(<<"imports", "importers">>) = {"imports", "importers"}
      /\ ToSet(<<"imports">>) = {"imports"} /\ ToSet(<<"importers">>) = {"importers"}
  BY DEF ToSet
<1>7. /\ Head(<<"imports", "importers">>) = "imports" /\ Tail(<<"imports", "importers">>) = <<"importers">>
      /\ Head(<<"imports">>) = "imports" /\ Head(<<"importers">>) = "importers"
      /\ Len(<<"imports", "importers">>) = 2 /\ Len(<<"imports">>) = 1 /\ Len(<<"importers">>) = 1
  OBVIOUS
<1>8. Followed(query, "imports") = A /\ Followed(query, "importers") = Inverted(A)
  BY DEF Followed
<1>9. /\ Walks(query) = <<"imports", "importers">> =>
           Reach(A, query) = Within(A, f, d) \cup Within(Inverted(A), f, d)
      /\ Walks(query) = <<"imports">> => Reach(A, query) = Within(A, f, d)
      /\ Walks(query) = <<"importers">> => Reach(A, query) = Within(Inverted(A), f, d)
  <2>1. ASSUME Walks(query) = <<"imports", "importers">>
        PROVE  Reach(A, query) = Within(A, f, d) \cup Within(Inverted(A), f, d)
    BY <1>6, <2>1 DEF Reach
  <2>2. ASSUME Walks(query) = <<"imports">> PROVE Reach(A, query) = Within(A, f, d)
    BY <1>6, <2>2 DEF Reach
  <2>3. ASSUME Walks(query) = <<"importers">> PROVE Reach(A, query) = Within(Inverted(A), f, d)
    BY <1>6, <2>3 DEF Reach
  <2> QED
    BY <2>1, <2>2, <2>3
<1> HIDE DEF A, f, d
<1>10. CASE walks = <<"imports", "importers">> /\ Walks(query) = walks
  BY <1>1, <1>4, <1>7, <1>8, <1>10 DEF WalkedBefore, A, f, d
<1>11. CASE walks = <<"importers">> /\ Walks(query) = <<"imports", "importers">>
  <2>1. <<"importers">> # <<"imports", "importers">>
    BY <1>7
  <2>2. WalkedBefore(query) = Within(A, f, d)
    BY <1>11, <2>1 DEF WalkedBefore, A, f, d
  <2> QED
    BY <1>1, <1>4, <1>7, <1>8, <1>9, <1>11, <2>2 DEF A, f, d
<1>12. CASE walks = <<"imports">> /\ Walks(query) = walks
  BY <1>1, <1>4, <1>7, <1>8, <1>9, <1>12 DEF WalkedBefore, A, f, d
<1>13. CASE walks = <<"importers">> /\ Walks(query) = walks
  BY <1>1, <1>4, <1>7, <1>8, <1>9, <1>13 DEF WalkedBefore, A, f, d
<1> QED
  BY <1>1, <1>5, <1>10, <1>11, <1>12, <1>13

\* A direction is done: the other one begins, or the answer is due.
LEMMA WalkTurns ==
  ASSUME GraphInvariant, WalkEnds PROVE GraphInvariant'
<1> DEFINE more == Len(query.walks) > 1
<1>1. /\ query.at = "walk" /\ query.queue = <<>> /\ query.tool = "graph" /\ CallKept
      /\ query'.todo = query.todo /\ query'.recs = query.recs /\ query'.edges = query.edges
      /\ query'.rows = query.rows /\ query'.content = query.content
  BY DEF GraphInvariant, GraphTypes, WalkEnds, BeginWalk, CallKept, QueryIdle
<1>2. more => /\ query'.at = "walk" /\ query'.walks = Tail(query.walks) /\ query'.queue = <<query.file>>
              /\ query'.level = [p \in {query.file} |-> 0] /\ query'.nodes = query.nodes \cup {query.file}
  BY DEF GraphInvariant, GraphTypes, WalkEnds, BeginWalk, QueryIdle
<1>3. ~more => query'.at = "answer" /\ query'.nodes = query.nodes
  BY DEF GraphInvariant, GraphTypes, WalkEnds, QueryIdle
<1>4. /\ query.edges \subseteq query.nodes \X query.nodes
      /\ Len(query.walks) <= 1 => query.nodes = Reach(Adjacency(query.recs), query)
      /\ more => /\ Walks(query) = <<"imports", "importers">> /\ Tail(query.walks) = <<"importers">>
                 /\ query.nodes = Within(Adjacency(query.recs), query.file, query.depth)
  BY <1>1, WalkOver
<1>5. ~more => Len(query.walks) <= 1
  <2>1. query.walks \in {Walks(query), <<"importers">>}
    BY <1>1 DEF GraphInvariant, WalkUnderWay
  <2>2. Walks(query) \in {<<"imports", "importers">>, <<"imports">>, <<"importers">>}
    BY <1>1 DEF Walks, GraphInvariant, GraphTypes, Directions
  <2>3. Len(<<"imports", "importers">>) = 2 /\ Len(<<"imports">>) = 1 /\ Len(<<"importers">>) = 1
    OBVIOUS
  <2> QED
    BY <2>1, <2>2, <2>3
<1>6. query.file \in Paths /\ query.depth \in Nat
  BY <1>1 DEF GraphInvariant, GraphTypes
<1> HIDE DEF more
<1>7. GraphTypes'
  BY <1>1, <1>2, <1>3, TypesKept DEF GraphInvariant, GraphTypes
<1>8. Collected' /\ HadCurrent'
  BY <1>1, <1>2, <1>3, RecordsKept
<1>9. Unanswered'
  BY <1>1, <1>2, <1>3 DEF Unanswered, GraphInvariant, CallKept
<1>10. WalkUnderWay'
  <2> SUFFICES ASSUME more PROVE WalkUnderWay'
    BY <1>3 DEF WalkUnderWay
  <2>1. ASSUME NEW E
        PROVE  Walking(E, query.file, query.depth, [p \in {query.file} |-> 0], <<query.file>>)
    BY <1>6, WalkStarts
  <2>2. Walking(Followed(query, Head(query.walks)), query.file, query.depth, query.level, query.queue)'
    BY <1>1, <1>2, <2>1 DEF CallKept
  <2>3. Walks(query)' = Walks(query) /\ query'.walks = <<"importers">>
    BY <1>1, <1>2, <1>4, ReachKept
  <2>4. <<"importers">> # <<"imports", "importers">>
    <3>1. Len(<<"imports", "importers">>) = 2 /\ Len(<<"importers">>) = 1
      OBVIOUS
    <3> QED
      BY <3>1
  <2>5. WalkedBefore(query)' = Within(Adjacency(query.recs), query.file, query.depth)
    BY <1>1, <1>4, <2>3, <2>4 DEF WalkedBefore, CallKept
  <2>6. DOMAIN query'.level = {query.file}
    BY <1>2
  <2>7. query'.nodes = WalkedBefore(query)' \cup DOMAIN query'.level
    BY <1>2, <1>4, <2>5, <2>6
  <2>8. query'.edges \subseteq query'.nodes \X query'.nodes
    BY <1>1, <1>2, <1>4
  <2> QED
    BY <1>4, <2>2, <2>3, <2>7, <2>8 DEF WalkUnderWay
<1>11. GraphWalked'
  <2> SUFFICES ASSUME ~more PROVE GraphWalked'
    BY <1>2 DEF GraphWalked
  <2> QED
    BY <1>1, <1>3, <1>4, <1>5, ReachKept DEF GraphWalked
<1> QED
  BY <1>1, <1>2, <1>3, <1>7, <1>8, <1>9, <1>10, <1>11
     DEF GraphInvariant, Classified, Looked, ImportersImport, ReferencesMatch, CallKept

\* The importers of a symbol's file are known, and will be read again.
LEMMA BlastKeeps ==
  ASSUME GraphInvariant, BlastFound PROVE GraphInvariant'
<1> DEFINE rest == query.nodes \ {query.file}
<1>1. /\ query.at = "walk" /\ query.queue = <<>> /\ query.tool = "blast" /\ query'.at = "mentions" /\ CallKept
      /\ query'.todo = SortedFiles(rest) /\ query'.recs = query.recs /\ query'.edges = query.edges
      /\ query'.nodes = query.nodes /\ query'.rows = query.rows /\ query'.content = query.content
  BY DEF GraphInvariant, GraphTypes, BlastFound, CallKept, QueryIdle
<1>2. /\ query.edges \subseteq query.nodes \X query.nodes
      /\ Len(query.walks) <= 1 => query.nodes = Reach(Adjacency(query.recs), query)
      /\ Len(query.walks) > 1 => Walks(query) = <<"imports", "importers">>
      /\ query.nodes = WalkedBefore(query) \cup Within(Followed(query, Head(query.walks)), query.file, query.depth)
  BY <1>1, WalkOver
<1>3. query.nodes = Reach(Adjacency(query.recs), query)
  <2>1. Walks(query) = <<"importers">> /\ <<"importers">> # <<"imports", "importers">> /\ Len(<<"importers">>) = 1
    <3>1. Len(<<"imports", "importers">>) = 2 /\ Len(<<"importers">>) = 1
      OBVIOUS
    <3> QED
      BY <1>1, <3>1 DEF Walks
  <2>2. query.walks = <<"importers">>
    BY <1>1, <2>1 DEF GraphInvariant, WalkUnderWay
  <2> QED
    BY <1>2, <2>1, <2>2
<1>4. query.nodes \subseteq Paths
  BY <1>2 DEF WalkedBefore, Within
<1>5. SortedFiles(rest) \in Seq(Paths) /\ ToSet(SortedFiles(rest)) = rest
  BY <1>4, FilesQueued
<1> HIDE DEF rest
<1>6. GraphTypes'
  BY <1>1, <1>5, TypesKept DEF GraphInvariant
<1>7. Collected' /\ HadCurrent'
  BY <1>1, RecordsKept
<1>8. Unanswered'
  BY <1>1 DEF Unanswered, GraphInvariant, CallKept
<1>9. GraphWalked'
  BY <1>1, <1>2, <1>3, ReachKept DEF GraphWalked
<1>10. query.rows = {} /\ query.content = {}
  BY <1>1 DEF GraphInvariant, Unanswered
<1>11. Classified'
  BY <1>1, <1>5, <1>10 DEF Classified, CallKept, rest
<1> QED
  BY <1>1, <1>6, <1>7, <1>8, <1>9, <1>11 DEF GraphInvariant, WalkUnderWay, Looked, ImportersImport,
     ReferencesMatch, CallKept

\* One of them is read.
LEMMA ClassifyKeeps ==
  ASSUME GraphInvariant, ClassifyImporter PROVE GraphInvariant'
<1> DEFINE f == Head(query.todo)
           row == Verdict(f)
<1>1. /\ query.at = "mentions" /\ query'.at = "mentions" /\ query.tool = "blast" /\ CallKept
      /\ query.todo # <<>> /\ query'.todo = Tail(query.todo) /\ query'.recs = query.recs
      /\ query'.edges = query.edges /\ query'.nodes = query.nodes
      /\ query'.rows = query.rows \cup {row} /\ query'.content = query.content
  BY DEF GraphInvariant, GraphTypes, ClassifyImporter, CallKept, QueryIdle
<1>2. /\ query.todo \in Seq(Paths) /\ f \in Paths /\ Tail(query.todo) \in Seq(Paths)
      /\ ToSet(query.todo) = {f} \cup ToSet(Tail(query.todo))
  <2>1. query.todo \in Seq(Paths)
    BY DEF GraphInvariant, GraphTypes
  <2> QED
    BY <1>1, <2>1, QueueParts
<1>3. row.file = f /\ Says(row, tree[f], query.word)
  BY DEF Verdict, Says
<1>4. tree[f] \in had[f]
  BY <1>1, <1>2 DEF GraphInvariant, HadCurrent
<1> HIDE DEF row, f
<1>5. GraphTypes'
  BY <1>1, <1>2, TypesKept DEF GraphInvariant
<1>6. Collected' /\ HadCurrent'
  BY <1>1, RecordsKept
<1>7. Unanswered'
  BY <1>1 DEF Unanswered, GraphInvariant, CallKept
<1>8. GraphWalked'
  BY <1>1, WalkedKept
<1>9. Classified'
  <2>1. ASSUME NEW p \in query.nodes \ {query.file}
        PROVE  p \in ToSet(Tail(query.todo)) \/ \E r \in query.rows \cup {row} : r.file = p
    <3>1. p \in ToSet(query.todo) \/ \E r \in query.rows : r.file = p
      BY <1>1 DEF GraphInvariant, Classified
    <3> QED
      BY <1>2, <1>3, <3>1
  <2>2. ASSUME NEW r \in query.rows \cup {row}
        PROVE  r.file \in Paths /\ \E c \in had[r.file] : Says(r, c, query.word)
    <3>1. CASE r \in query.rows
      BY <1>1, <3>1 DEF GraphInvariant, Classified
    <3>2. CASE r = row
      BY <1>2, <1>3, <1>4, <3>2
    <3> QED
      BY <3>1, <3>2
  <2> QED
    BY <1>1, <2>1, <2>2 DEF Classified, CallKept
<1> QED
  BY <1>1, <1>5, <1>6, <1>7, <1>8, <1>9 DEF GraphInvariant, WalkUnderWay, Looked, ImportersImport,
     ReferencesMatch, CallKept

\* The files that mention an identifier are looked for.
LEMMA CheckKeeps ==
  ASSUME GraphInvariant, CheckContents PROVE GraphInvariant'
<1> DEFINE rest == listed \ DefinedIn[query.word]
<1>1. /\ query.at = "answer" /\ query'.at = "mentions" /\ query.tool = "check" /\ CallKept
      /\ query'.todo = (IF query.search_content THEN SortedFiles(rest) ELSE <<>>)
      /\ query'.recs = query.recs /\ query'.rows = ReferenceRows(query)
      /\ query'.edges = query.edges /\ query'.nodes = query.nodes /\ query'.content = query.content
  <2> HIDE DEF rest
  <2> QED
    BY DEF GraphInvariant, GraphTypes, CheckContents, CallKept, QueryIdle, rest
<1>2. query.content = {}
  BY <1>1 DEF GraphInvariant, Unanswered
<1>3. SortedFiles(rest) \in Seq(Paths) /\ ToSet(SortedFiles(rest)) = rest
  BY FilesQueued DEF GraphInvariant, GraphTypes
<1> HIDE DEF rest
<1>4. GraphTypes'
  <2>1. <<>> \in Seq(Paths)
    OBVIOUS
  <2>2. query'.todo \in Seq(Paths)
    BY <1>1, <1>3, <2>1
  <2> QED
    BY <1>1, <2>2, TypesKept DEF GraphInvariant
<1>5. Collected' /\ HadCurrent'
  BY <1>1, RecordsKept
<1>6. Unanswered'
  BY <1>1 DEF Unanswered, GraphInvariant, CallKept
<1>7. Looked'
  BY <1>1, <1>2, <1>3 DEF Looked, CallKept, rest
<1>8. ReferencesMatch'
  BY <1>1 DEF ReferencesMatch, ReferenceRows, CallKept
<1> QED
  BY <1>1, <1>4, <1>5, <1>6, <1>7, <1>8
     DEF GraphInvariant, WalkUnderWay, GraphWalked, Classified, ImportersImport, CallKept

\* One file is searched; enough of them end the search.
LEMMA SearchKeeps ==
  ASSUME GraphInvariant, SearchMentions PROVE GraphInvariant'
<1> DEFINE f == Head(query.todo)
           hit == Mentions(tree[f], query.word) # {}
           full == hit /\ Cardinality(query.content) + 1 >= query.max
<1>1. /\ query.at = "mentions" /\ query'.at = "mentions" /\ query.tool = "check" /\ CallKept
      /\ query.todo # <<>> /\ query'.todo = (IF full THEN <<>> ELSE Tail(query.todo))
      /\ query'.recs = query.recs /\ query'.edges = query.edges /\ query'.nodes = query.nodes
      /\ query'.rows = query.rows /\ query'.content = IF hit THEN query.content \cup {f} ELSE query.content
  <2> HIDE DEF full, hit, f
  <2> QED
    BY DEF GraphInvariant, GraphTypes, SearchMentions, CallKept, QueryIdle, full, hit, f
<1>2. /\ query.todo \in Seq(Paths) /\ f \in Paths /\ Tail(query.todo) \in Seq(Paths) /\ <<>> \in Seq(Paths)
      /\ ToSet(query.todo) = {f} \cup ToSet(Tail(query.todo))
  <2>1. query.todo \in Seq(Paths)
    BY DEF GraphInvariant, GraphTypes
  <2> QED
    BY <1>1, <2>1, QueueParts
<1>3. tree[f] \in had[f]
  BY <1>1, <1>2 DEF GraphInvariant, HadCurrent
<1>4. full => hit
  OBVIOUS
<1>5. hit \/ Mentions(tree[f], query.word) = {}
  OBVIOUS
<1>6. hit => Mentions(tree[f], query.word) # {}
  OBVIOUS
<1> HIDE DEF f, hit, full
<1>7. GraphTypes'
  <2>1. query'.todo \in Seq(Paths)
    BY <1>1, <1>2
  <2> QED
    BY <1>1, <2>1, TypesKept DEF GraphInvariant
<1>8. Collected' /\ HadCurrent'
  BY <1>1, RecordsKept
<1>9. Unanswered'
  BY <1>1 DEF Unanswered, GraphInvariant, CallKept
<1>10. Looked'
  <2>1. ASSUME NEW p \in query'.content
        PROVE  p \in Paths /\ \E c \in had[p] : Mentions(c, query.word) # {}
    <3>1. CASE p \in query.content
      BY <1>1, <3>1 DEF GraphInvariant, Looked
    <3>2. CASE p \notin query.content
      BY <1>1, <1>2, <1>3, <1>6, <3>2
    <3> QED
      BY <3>1, <3>2
  <2>2. ASSUME query.search_content, query'.content = {}, NEW p \in listed \ DefinedIn[query.word]
        PROVE  p \in ToSet(query'.todo) \/ \E c \in had[p] : Mentions(c, query.word) = {}
    <3>1. query.content = {} /\ ~hit /\ ~full
      BY <1>1, <1>4, <2>2
    <3>2. p \in ToSet(query.todo) \/ \E c \in had[p] : Mentions(c, query.word) = {}
      BY <1>1, <2>2, <3>1 DEF GraphInvariant, Looked
    <3> QED
      BY <1>1, <1>2, <1>3, <1>5, <3>1, <3>2
  <2> QED
    BY <1>1, <2>1, <2>2, ZenonT(60) DEF Looked, CallKept
<1>11. ReferencesMatch'
  BY <1>1 DEF GraphInvariant, ReferencesMatch, ReferenceRows, CallKept
<1> QED
  BY <1>1, <1>7, <1>8, <1>9, <1>10, <1>11
     DEF GraphInvariant, WalkUnderWay, GraphWalked, Classified, ImportersImport, CallKept

\* The answers that end a call.
LEMMA AnswerKeeps ==
  ASSUME GraphInvariant, AnswerImporters \/ AnswerReferences \/ AnswerGraph \/ MentionsEnd
  PROVE  GraphInvariant'
<1>1. /\ query.at \in {"answer", "mentions"} /\ query'.at = "done" /\ CallKept
      /\ query'.todo = query.todo /\ query'.recs = query.recs /\ query'.edges = query.edges
      /\ query'.nodes = query.nodes /\ query'.content = query.content
      /\ query.tool = "importers" => query'.rows = FirstRows(ImporterRows(query), query.max)
                                       \/ query.at = "mentions"
      /\ query.tool = "references" => query'.rows = FirstRows(ReferenceRows(query), query.max)
                                       \/ query.at = "mentions"
      /\ query.at = "mentions" => query'.rows = query.rows /\ query.todo = <<>>
      /\ query.at = "answer" => query.tool \in {"importers", "references", "graph"}
  BY ZenonT(60) DEF GraphInvariant, GraphTypes, AnswerImporters, AnswerReferences, AnswerGraph,
     MentionsEnd, CallKept, QueryIdle
<1>2. query.at = "mentions" => query.tool \in {"blast", "check"}
  BY DEF GraphInvariant, Unanswered
<1>3. GraphTypes'
  BY <1>1, TypesKept DEF GraphInvariant, GraphTypes
<1>4. Collected' /\ HadCurrent'
  BY <1>1, RecordsKept
<1>5. Unanswered'
  BY <1>1, <1>2 DEF Unanswered, CallKept
<1>6. GraphWalked'
  BY <1>1, WalkedKept
<1>7. Classified'
  BY <1>1 DEF GraphInvariant, Classified, CallKept
<1>8. Looked'
  <2> SUFFICES ASSUME query.tool = "check" PROVE Looked'
    BY <1>1 DEF Looked, CallKept
  <2>1. query.at = "mentions" /\ Looked
    BY <1>1 DEF GraphInvariant
  <2>2. \A p \in query.content : p \in Paths /\ \E c \in had[p] : Mentions(c, query.word) # {}
    BY <2>1 DEF Looked
  <2>3. query.search_content /\ query.content = {} =>
          \A p \in listed \ DefinedIn[query.word] :
            p \in ToSet(query.todo) \/ \E c \in had[p] : Mentions(c, query.word) = {}
    BY <2>1 DEF Looked
  <2>4. /\ query'.content = query.content /\ query'.word = query.word /\ query'.todo = query.todo
        /\ query'.search_content = query.search_content /\ had' = had /\ listed' = listed
    BY <1>1 DEF CallKept
  <2>5. \A p \in query'.content : p \in Paths /\ \E c \in had'[p] : Mentions(c, query'.word) # {}
    BY <2>2, <2>4
  <2>6. query'.search_content /\ query'.content = {} =>
          \A p \in listed' \ DefinedIn[query'.word] :
            p \in ToSet(query'.todo) \/ \E c \in had'[p] : Mentions(c, query'.word) = {}
    BY <2>3, <2>4
  <2> QED
    BY <2>5, <2>6 DEF Looked
<1>9. ImportersImport'
  <2> SUFFICES ASSUME query.tool = "importers", NEW r \in query'.rows
               PROVE  r.file \in Paths /\ \E c \in had[r.file] : query.file \in Targets(r.file, c)
    BY <1>1 DEF ImportersImport, CallKept, Targets
  <2>1. r \in ImporterRows(query)
    BY <1>1, <1>2 DEF FirstRows
  <2>2. PICK s \in query.recs : query.file \in s.resolved /\ r.file = s.source
    BY <2>1 DEF ImporterRows
  <2>3. s.source \in listed /\ \E c \in had[s.source] : s \in RecordsOf(s.source, c, listed)
    BY <1>1, <2>2 DEF GraphInvariant, Collected, RecordsTrue
  <2> QED
    BY <2>2, <2>3 DEF Targets, GraphInvariant, GraphTypes
<1>10. ReferencesMatch'
  <2>1. ReferenceRows(query)' = ReferenceRows(query)
    BY <1>1 DEF ReferenceRows, CallKept
  <2>2. query.tool = "references" => query'.rows \subseteq ReferenceRows(query)
    BY <1>1, <1>2 DEF FirstRows
  <2>3. query.tool = "check" => query'.rows = ReferenceRows(query)
    BY <1>1 DEF GraphInvariant, ReferencesMatch
  <2> QED
    BY <1>1, <2>1, <2>2, <2>3 DEF ReferencesMatch, CallKept
<1> QED
  BY <1>1, <1>3, <1>4, <1>5, <1>6, <1>7, <1>8, <1>9, <1>10 DEF GraphInvariant, WalkUnderWay, CallKept

LEMMA GraphSteps == GraphInvariant /\ [GraphNext]_graphVars => GraphInvariant'
<1> SUFFICES ASSUME GraphInvariant, [GraphNext]_graphVars PROVE GraphInvariant'
  OBVIOUS
<1>1. CASE UNCHANGED graphVars
  <2>1. tree' = tree /\ listed' = listed /\ query' = query /\ had' = had
    BY <1>1 DEF graphVars
  <2>2. GraphTypes' /\ HadCurrent' /\ Unanswered'
    BY <2>1 DEF GraphInvariant, GraphTypes, HadCurrent, Unanswered
  <2>3. Collected'
    BY <2>1 DEF GraphInvariant, Collected, RecordsTrue, RecordsCover
  <2>4. WalkUnderWay' /\ GraphWalked'
    BY <2>1 DEF GraphInvariant, WalkUnderWay, GraphWalked
  <2>5. Classified' /\ Looked' /\ ImportersImport'
    BY <2>1 DEF GraphInvariant, Classified, Looked, ImportersImport, Targets
  <2>6. ReferencesMatch'
    BY <2>1 DEF GraphInvariant, ReferencesMatch, ReferenceRows
  <2> QED
    BY <2>2, <2>3, <2>4, <2>5, <2>6 DEF GraphInvariant
<1>2. ASSUME NEW q \in Queries, AskGraph(q) PROVE GraphInvariant'
  BY <1>2, AskKeeps
<1>3. ASSUME NEW p \in Paths, NEW v \in Versions[p], EditSource(p, v) PROVE GraphInvariant'
  BY <1>3, EditKeeps
<1> QED
  BY <1>1, <1>2, <1>3, ReadKeeps, ImportsEnd, WalkKeeps, WalkTurns, BlastKeeps, CheckKeeps,
     ClassifyKeeps, SearchKeeps, AnswerKeeps DEF GraphNext

LEMMA GraphHolds == GraphSpec => []GraphInvariant
<1> QED
  BY GraphBegins, GraphSteps, PTL DEF GraphSpec

\* What the invariant says of a graph that is answered.
LEMMA GraphAnswered == GraphInvariant => GraphBetweenSnapshots
<1> SUFFICES ASSUME GraphInvariant, query.at = "done", query.tool \in {"graph", "blast"}
             PROVE  /\ Reach(Always, query) \subseteq query.nodes
                    /\ query.nodes \subseteq Reach(Sometime, query)
                    /\ query.edges \subseteq query.nodes \X query.nodes
  BY DEF GraphBetweenSnapshots
<1> DEFINE A == Adjacency(query.recs)
<1>1. query.nodes = Reach(A, query) /\ query.edges \subseteq query.nodes \X query.nodes
  BY DEF GraphInvariant, GraphWalked
<1>2. RecordsTrue(query.recs) /\ RecordsCover(listed, query.recs) /\ listed \in SUBSET Paths
      /\ query.file \in Paths /\ query.depth \in Nat
  BY DEF GraphInvariant, Collected, GraphTypes
<1>3. A \subseteq Sometime /\ \A p, t \in Paths : <<p, t>> \in Always /\ p # t => <<p, t>> \in A
  BY <1>2, RecordsBetween
<1>4. A \in SUBSET (Paths \X Paths)
  BY <1>2, EdgesAreFiles
<1>5. Always \in SUBSET (Paths \X Paths)
  BY <1>2 DEF Always
<1> HIDE DEF A
<1>6. Reach(Always, query) \subseteq Reach(A, query)
  BY <1>2, <1>3, <1>5, ReachMonotone
<1>7. Reach(A, query) \subseteq Reach(Sometime, query)
  BY <1>2, <1>3, <1>4, ReachMonotone
<1> QED
  BY <1>1, <1>6, <1>7

LEMMA VerdictsHold == GraphInvariant => VerdictsWereTrue /\ UnreferencedIsUnused
<1> SUFFICES ASSUME GraphInvariant PROVE VerdictsWereTrue /\ UnreferencedIsUnused
  OBVIOUS
<1>1. query.at = "done" /\ query.tool \in {"blast", "check"} => ToSet(query.todo) = {}
  BY DEF GraphInvariant, Unanswered, ToSet
<1>2. VerdictsWereTrue
  <2>1. ASSUME query.at = "done", query.tool = "blast"
        PROVE  /\ \A p \in query.nodes \ {query.file} : \E r \in query.rows : r.file = p
               /\ \A r \in query.rows : \E c \in had[r.file] : Says(r, c, query.word)
    BY <1>1, <2>1 DEF GraphInvariant, Classified
  <2>2. ASSUME query.at = "done", query.tool \in {"references", "check"}, NEW r \in query.rows
        PROVE  \E c \in had[r.file] : \E i \in RecordsOf(r.file, c, listed) :
                 i.spec = r.spec /\ MatchType(i, query.word) # "none"
    <3>1. r \in ReferenceRows(query)
      BY <2>2 DEF GraphInvariant, ReferencesMatch
    <3>2. PICK i \in query.recs : MatchType(i, query.word) # "none" /\ r.file = i.source /\ r.spec = i.spec
      BY <3>1 DEF ReferenceRows
    <3>3. \E c \in had[i.source] : i \in RecordsOf(i.source, c, listed)
      BY <2>2, <3>2 DEF GraphInvariant, Collected, RecordsTrue
    <3> QED
      BY <3>2, <3>3
  <2> QED
    BY <2>1, <2>2 DEF GraphInvariant, ImportersImport, Looked, VerdictsWereTrue, Says
<1>3. UnreferencedIsUnused
  <2> SUFFICES ASSUME query.at = "done", query.tool = "check", query.rows = {}, query.content = {}
               PROVE  /\ \A p \in listed : \E c \in had[p] :
                           \A i \in RecordsOf(p, c, listed) : MatchType(i, query.word) = "none"
                      /\ query.search_content =>
                           \A p \in listed \ DefinedIn[query.word] : \E c \in had[p] : Mentions(c, query.word) = {}
    BY DEF UnreferencedIsUnused, IsReferenced
  <2>1. ASSUME NEW i \in query.recs PROVE MatchType(i, query.word) = "none"
    <3>1. ReferenceRows(query) = {}
      BY DEF GraphInvariant, ReferencesMatch
    <3> QED
      BY <3>1 DEF ReferenceRows
  <2>2. \A p \in listed : \E c \in had[p] : RecordsOf(p, c, listed) \subseteq query.recs
    BY DEF GraphInvariant, Collected, RecordsCover
  <2> QED
    BY <1>1, <2>1, <2>2 DEF GraphInvariant, Looked
<1> QED
  BY <1>2, <1>3

-----------------------------------------------------------------------------
(* Sequences and scores. *)

LEMMA FewInSeq ==
  ASSUME NEW X, NEW s \in Seq(X)
  PROVE  /\ IsFiniteSet(ToSet(s)) /\ ToSet(s) \subseteq X
         /\ Len(s) \in Nat /\ DOMAIN s = 1 .. Len(s)
         /\ \A i \in 1 .. Len(s) : s[i] \in ToSet(s)
         /\ \A x \in ToSet(s) : \E i \in 1 .. Len(s) : s[i] = x
<1> DEFINE n == Len(s)
<1>1. n \in Nat /\ DOMAIN s = 1 .. n /\ \A i \in 1 .. n : s[i] \in X
  OBVIOUS
<1>2. ToSet(s) = {s[i] : i \in 1 .. n}
  BY <1>1 DEF ToSet
<1>3. [i \in 1 .. n |-> s[i]] \in Surjection(1 .. n, ToSet(s))
  <2> HIDE DEF n
  <2> QED
    BY <1>2 DEF Surjection
<1>4. IsFiniteSet(1 .. n)
  BY <1>1, FS_Interval
<1>5. IsFiniteSet(ToSet(s))
  <2> HIDE DEF n
  <2> QED
    BY <1>3, <1>4, FS_Surjection
<1> QED
  BY <1>1, <1>2, <1>5

LEMMA FewKeys ==
  ASSUME NEW X, NEW s \in Seq(X)
  PROVE  /\ IsFiniteSet(Keys(s)) /\ IsFiniteSet({c.score : c \in ToSet(s)})
<1> DEFINE T == ToSet(s)
<1>1. IsFiniteSet(T)
  BY FewInSeq
<1>2. [c \in T |-> Key(c)] \in Surjection(T, Keys(s))
  BY DEF Surjection, Keys
<1>3. [c \in T |-> c.score] \in Surjection(T, {c.score : c \in T})
  BY DEF Surjection
<1> HIDE DEF T
<1>4. IsFiniteSet(Keys(s)) /\ IsFiniteSet({c.score : c \in T})
  BY <1>1, <1>2, <1>3, FS_Surjection
<1> QED
  BY <1>4 DEF T

LEMMA Largest ==
  ASSUME NEW S \in SUBSET Int, IsFiniteSet(S), S # {}
  PROVE  \E x \in S : \A y \in S : y <= x
<1> DEFINE R == {p \in S \X S : p[1] < p[2]}
           n == Cardinality(S)
<1>1. Orders(R, S)
  BY DEF Orders
<1>2. n \in Nat /\ n # 0
  BY FS_CardinalityType, FS_EmptySet
<1> HIDE DEF n
<1>3. n \in 1 .. n
  BY <1>2
<1>4. PICK x \in S : Rank(R, S, x) = n - 1
  <2> HIDE DEF R
  <2> QED
    BY <1>1, <1>3, RankOnto DEF n
<1>5. ASSUME NEW y \in S PROVE y <= x
  <2> SUFFICES ASSUME x < y PROVE FALSE
    OBVIOUS
  <2>1. <<x, y>> \in R
    OBVIOUS
  <2> HIDE DEF R
  <2>2. Rank(R, S, x) < Rank(R, S, y) /\ Rank(R, S, y) \in 0 .. n - 1
    BY <1>1, <2>1, RankGrows DEF n
  <2> QED
    BY <1>2, <1>4, <2>2
<1> QED
  BY <1>5

\* The first elements of a sequence, at most so many.
IsStart(t, X, s, n) ==
  /\ t \in Seq(X) /\ Len(t) <= n /\ Len(t) <= Len(s) /\ Len(t) \in Nat /\ ToSet(t) \subseteq ToSet(s)
  /\ Len(s) <= n => t = s
  /\ Len(s) > n => Len(t) = n
  /\ \A i \in 1 .. Len(t) : t[i] = s[i]

LEMMA Prefix ==
  ASSUME NEW X, NEW s \in Seq(X), NEW n \in Nat
  PROVE  IsStart(SubSeq(s, 1, ClampInt(Len(s), 0, n)), X, s, n)
<1> DEFINE m == ClampInt(Len(s), 0, n)
           t == SubSeq(s, 1, m)
<1>1. Len(s) \in Nat /\ DOMAIN s = 1 .. Len(s) /\ s = [i \in 1 .. Len(s) |-> s[i]]
  OBVIOUS
<1>2. m \in 0 .. Len(s) /\ m <= n /\ (Len(s) <= n => m = Len(s)) /\ (Len(s) > n => m = n)
  BY <1>1 DEF ClampInt
<1>3. t = SubSeq(s, 1, m)
  OBVIOUS
<1> HIDE DEF m, t
<1>4. /\ t \in Seq(X) /\ Len(t) = m /\ \A i \in 1 .. m : t[i] = s[i]
  <2>1. m \in Int /\ m \in Nat /\ \A i \in 1 .. m : s[i] \in X
    BY <1>1, <1>2
  <2> DEFINE u == SubSeq(s, 1, m)
  <2>2. u \in Seq(X) /\ Len(u) = (IF 1 <= m THEN m - 1 + 1 ELSE 0) /\ \A i \in 1 .. m - 1 + 1 : u[i] = s[1 + i - 1]
    BY <2>1, SubSeqProperties
  <2> HIDE DEF u
  <2>3. Len(u) = m
    BY <2>1, <2>2
  <2>4. ASSUME NEW i \in 1 .. m PROVE u[i] = s[i]
    <3>1. i \in 1 .. m - 1 + 1 /\ 1 + i - 1 = i
      BY <2>1
    <3> QED
      BY <2>2, <3>1
  <2> QED
    BY <1>3, <2>2, <2>3, <2>4 DEF u
<1>5. ToSet(t) \subseteq ToSet(s)
  <2>1. DOMAIN t = 1 .. m
    BY <1>2, <1>4
  <2>2. \A i \in 1 .. m : i \in 1 .. Len(s)
    BY <1>1, <1>2
  <2> QED
    BY <1>1, <1>4, <2>1, <2>2 DEF ToSet
<1>6. Len(s) <= n => t = s
  <2>1. SubSeq(s, 1, Len(s)) = s
    BY SubSeqFull
  <2> QED
    BY <1>2, <1>3, <2>1
<1>7. IsStart(t, X, s, n)
  BY <1>1, <1>2, <1>4, <1>5, <1>6 DEF IsStart
<1> QED
  BY <1>7 DEF t, m

\* A candidate line.
Candidates == [file : Paths, line : Nat, score : Int]

\* A merged line scores what its best chunk scores.
LEMMA BestScoreIs ==
  ASSUME NEW s \in Seq(Candidates), NEW k
  PROVE  /\ BestScore(s, k) \in Nat
         /\ BestScore(s, k) = 0 \/ \E c \in ToSet(s) : Key(c) = k /\ c.score = BestScore(s, k)
         /\ \A c \in ToSet(s) : Key(c) = k => c.score <= BestScore(s, k)
<1> DEFINE T == {c.score : c \in ToSet(s)}
           S == {n \in T : n > 0 /\ \E c \in ToSet(s) : Key(c) = k /\ c.score = n}
           Is(n) == /\ n = 0 \/ (n > 0 /\ \E c \in ToSet(s) : Key(c) = k /\ c.score = n)
                    /\ \A c \in ToSet(s) : Key(c) = k => c.score <= n
<1>1. \A c \in ToSet(s) : c.score \in Int /\ c.score \in T
  <2>1. ToSet(s) \subseteq Candidates
    BY FewInSeq
  <2> QED
    BY <2>1 DEF Candidates
<1>2. IsFiniteSet(T)
  BY FewKeys
<1>3. S \in SUBSET Int /\ IsFiniteSet(S)
  <2>1. S \in SUBSET T
    OBVIOUS
  <2>2. IsFiniteSet(S)
    <3> HIDE DEF S, T
    <3> QED
      BY <1>2, <2>1, FS_Subset
  <2> QED
    BY <1>1, <2>2
<1>4. \E n \in {0} \cup T : Is(n)
  <2>1. CASE S = {}
    <3>1. ASSUME NEW c \in ToSet(s), Key(c) = k, c.score > 0 PROVE FALSE
      BY <1>1, <2>1, <3>1
    <3>2. Is(0)
      BY <1>1, <3>1
    <3> QED
      BY <3>2
  <2>2. CASE S # {}
    <3>1. PICK x \in S : \A y \in S : y <= x
      <4> HIDE DEF S
      <4> QED
        BY <1>3, <2>2, Largest
    <3>2. x \in T /\ x > 0 /\ x \in Int /\ \E c \in ToSet(s) : Key(c) = k /\ c.score = x
      BY <1>1
    <3>3. ASSUME NEW c \in ToSet(s), Key(c) = k PROVE c.score <= x
      <4>1. CASE c.score > 0
        <5>1. c.score \in S
          BY <1>1, <3>3, <4>1
        <5> QED
          BY <3>1, <5>1
      <4>2. CASE ~(c.score > 0)
        BY <1>1, <3>2, <4>2
      <4> QED
        BY <4>1, <4>2
    <3> QED
      BY <3>2, <3>3
  <2> QED
    BY <2>1, <2>2
<1>5. Is(BestScore(s, k)) /\ BestScore(s, k) \in {0} \cup T
  BY <1>4 DEF BestScore
<1> QED
  BY <1>1, <1>5

\* The scores that count in a measure, and the order that normalising keeps.
LEMMA NormalizedGrows ==
  ASSUME NEW T \in SUBSET Nat, IsFiniteSet(T), NEW S, S = T \ {0}
  PROVE  /\ SpanOf(S) \in Nat
         /\ \A m \in T \cup {0} : Normalized(m, S) \in Nat
         /\ \A m, n \in T \cup {0} : m <= n => Normalized(m, S) <= Normalized(n, S)
<1>1. S \in SUBSET Nat /\ IsFiniteSet(S) /\ Cardinality(S) \in Nat
  BY FS_Subset, FS_CardinalityType
<1>2. ASSUME S # {} PROVE Min(S) \in S /\ \A y \in S : Min(S) <= y
  <2>1. \E x \in S : \A y \in S : x <= y
    BY <1>1, <1>2, Smallest
  <2> QED
    BY <2>1 DEF Min
<1>3. ASSUME S # {} PROVE Max(S) \in S /\ \A y \in S : y <= Max(S)
  <2>1. \E x \in S : \A y \in S : y <= x
    BY <1>1, <1>3, Largest
  <2>2. \E x \in S : \A y \in S : x >= y
    BY <1>1, <2>1
  <2>3. Max(S) \in S /\ \A y \in S : Max(S) >= y
    BY <2>2 DEF Max
  <2> QED
    BY <1>1, <2>3
<1> DEFINE lo == Min(S)
           hi == Max(S)
           few == Cardinality(S)
<1>4. S # {} => lo \in Nat /\ hi \in Nat /\ lo <= hi
  BY <1>1, <1>2, <1>3
<1>5. S = {} => few = 0
  BY FS_EmptySet
<1> HIDE DEF few, lo, hi
<1>6. SpanOf(S) \in Nat
  BY <1>1, <1>4, <1>5 DEF SpanOf, few, lo, hi
<1>7. ASSUME NEW m \in S PROVE m \in Nat /\ m # 0 /\ lo \in Nat /\ lo <= m
  BY <1>1, <1>2, <1>4 DEF lo
<1>8. ASSUME NEW m \in S PROVE Normalized(m, S) = IF few = 1 THEN 1 ELSE m - lo
  BY <1>7 DEF Normalized, few, lo
<1>9. Normalized(0, S) = 0
  BY DEF Normalized
<1>10. ASSUME NEW m \in T \cup {0} PROVE Normalized(m, S) \in Nat
  <2>1. CASE m = 0
    BY <1>9, <2>1
  <2>2. CASE m # 0
    <3>1. m \in S
      BY <2>2
    <3>2. m \in Nat /\ lo \in Nat /\ lo <= m
      BY <1>7, <3>1
    <3>3. m - lo \in Nat
      BY <3>2
    <3>4. Normalized(m, S) = IF few = 1 THEN 1 ELSE m - lo
      BY <1>8, <3>1
    <3> QED
      BY <3>3, <3>4
  <2> QED
    BY <2>1, <2>2
<1>11. ASSUME NEW m \in T \cup {0}, NEW n \in T \cup {0}, m <= n
       PROVE  Normalized(m, S) <= Normalized(n, S)
  <2>1. CASE m = 0
    BY <1>9, <1>10, <2>1
  <2>2. CASE m # 0
    <3>1. m \in S /\ n \in S
      BY <1>11, <2>2
    <3> QED
      BY <1>7, <1>8, <1>11, <3>1
  <2> QED
    BY <2>1, <2>2
<1> QED
  BY <1>6, <1>10, <1>11

LEMMA TimesGrows ==
  ASSUME NEW w \in Nat, NEW a \in Nat, NEW b \in Nat, NEW z \in Nat, a <= b
  PROVE  w * a * z \in Nat /\ w * a * z <= w * b * z
<1>1. PICK d \in Nat : b = a + d
  <2>1. b - a \in Nat /\ b = a + (b - a)
    OBVIOUS
  <2> QED
    BY <2>1
<1>2. w * b * z = w * a * z + w * d * z
  BY <1>1
<1>3. w * a \in Nat /\ w * d \in Nat
  OBVIOUS
<1>4. w * a * z \in Nat /\ w * d * z \in Nat
  BY <1>3
<1> QED
  BY <1>2, <1>4

\* Grouping the rows by file loses none.
LEMMA GroupedLines ==
  ASSUME NEW X, NEW rows \in Seq(X), \A c \in X : c.file \in Paths
  PROVE  UNION {g.lines : g \in ToSet(Grouped(rows))} = ToSet(rows)
<1> DEFINE F == {c.file : c \in ToSet(rows)}
           best(f) == CHOOSE i \in DOMAIN rows : rows[i].file = f /\ \A j \in 1 .. i - 1 : rows[j].file # f
           R == {p \in F \X F : best(p[1]) < best(p[2])}
           P(x) == Cardinality({y \in F : best(y) < best(x)})
           order == [i \in 1 .. Cardinality(F) |-> CHOOSE x \in F : P(x) = i - 1]
           groups == [i \in DOMAIN order |-> [file |-> order[i], lines |-> {c \in ToSet(rows) : c.file = order[i]}]]
<1>1. Grouped(rows) = groups
  BY DEF Grouped, InOrder
<1>2. /\ Len(rows) \in Nat /\ DOMAIN rows = 1 .. Len(rows) /\ ToSet(rows) \subseteq X
      /\ \A x \in ToSet(rows) : \E i \in 1 .. Len(rows) : rows[i] = x
  BY FewInSeq
<1>3. ASSUME NEW f \in F PROVE best(f) \in Nat /\ rows[best(f)].file = f
  <2> DEFINE S == {i \in 1 .. Len(rows) : rows[i].file = f}
  <2>1. PICK c \in ToSet(rows) : c.file = f
    OBVIOUS
  <2>2. S \in SUBSET Nat /\ S # {}
    BY <1>2, <2>1
  <2>3. PICK i \in S : \A j \in S : i <= j
    BY <2>2, Smallest
  <2>4. i \in DOMAIN rows /\ rows[i].file = f /\ \A j \in 1 .. i - 1 : rows[j].file # f
    <3>1. ASSUME NEW j \in 1 .. i - 1, rows[j].file = f PROVE FALSE
      <4>1. i \in 1 .. Len(rows) /\ j \in 1 .. Len(rows) /\ ~(i <= j)
        BY <1>2, <3>1
      <4>2. j \in S
        BY <3>1, <4>1
      <4> QED
        BY <2>3, <4>1, <4>2
    <3> QED
      BY <1>2, <3>1
  <2>5. best(f) \in DOMAIN rows /\ rows[best(f)].file = f
    BY <2>4
  <2> QED
    BY <1>2, <2>5
<1> HIDE DEF best
<1>4. Orders(R, F)
  <2>1. \A x \in F : <<x, x>> \notin R
    BY <1>3
  <2>2. ASSUME NEW x \in F, NEW y \in F PROVE x = y \/ <<x, y>> \in R \/ <<y, x>> \in R
    <3>1. best(x) \in Nat /\ best(y) \in Nat /\ (best(x) = best(y) => x = y)
      BY <1>3
    <3>2. best(x) = best(y) \/ best(x) < best(y) \/ best(y) < best(x)
      BY <3>1
    <3> QED
      BY <3>1, <3>2
  <2>3. ASSUME NEW x \in F, NEW y \in F, NEW z \in F, <<x, y>> \in R, <<y, z>> \in R PROVE <<x, z>> \in R
    <3>1. best(x) \in Nat /\ best(y) \in Nat /\ best(z) \in Nat /\ best(x) < best(y) /\ best(y) < best(z)
      BY <1>3, <2>3
    <3>2. best(x) < best(z)
      BY <3>1
    <3> QED
      BY <3>2
  <2> QED
    BY <2>1, <2>2, <2>3 DEF Orders
<1>5. IsFiniteSet(F)
  <2>1. F \in SUBSET Paths
    BY <1>2
  <2> HIDE DEF F
  <2> QED
    BY <2>1, CodeAssumption, FS_Subset
<1>6. ASSUME NEW x \in F PROVE Rank(R, F, x) = P(x)
  <2>1. {y \in F : best(y) < best(x)} = {y \in F : <<y, x>> \in R}
    OBVIOUS
  <2> QED
    BY <2>1 DEF Rank
<1> HIDE DEF R, F, P
<1>7. ASSUME NEW i \in 1 .. Cardinality(F) PROVE order[i] \in F /\ Rank(R, F, order[i]) = i - 1
  <2>1. \E x \in F : P(x) = i - 1
    BY <1>4, <1>5, <1>6, RankOnto
  <2>2. order[i] \in F /\ P(order[i]) = i - 1
    BY <2>1
  <2> QED
    BY <1>6, <2>2
<1>8. order \in [1 .. Cardinality(F) -> F]
  BY <1>7
<1> HIDE DEF order
<1>9. ToSet(order) = F /\ order \in Seq(F) /\ DOMAIN order = 1 .. Cardinality(F)
  BY <1>4, <1>5, <1>7, <1>8, SortedIs
<1>10. ToSet(groups) = {groups[i] : i \in DOMAIN order}
  BY DEF ToSet
<1>11. ASSUME NEW c \in ToSet(rows) PROVE \E g \in ToSet(groups) : c \in g.lines
  <2>1. c.file \in F
    BY DEF F
  <2>2. PICK i \in DOMAIN order : order[i] = c.file
    BY <1>9, <2>1 DEF ToSet
  <2>3. c \in groups[i].lines
    BY <2>2
  <2> QED
    BY <1>10, <2>3
<1>12. \A g \in ToSet(groups) : g.lines \subseteq ToSet(rows)
  BY <1>10
<1> QED
  BY <1>1, <1>11, <1>12

-----------------------------------------------------------------------------
(* search_text. *)

AllContents == UNION {Contents[p] : p \in Paths}

TextTypes ==
  /\ corpus \in [Paths -> AllContents] /\ before \in [Paths -> SUBSET AllContents]
  /\ indexed \in SUBSET Paths /\ hits \in HitLists
  /\ search = [f \in DOMAIN SearchIdle |-> search[f]]
  /\ search.at \in {"idle", "vectors", "scan", "merge", "weigh", "rank", "group", "done"}
  /\ search.mode \in {"lexical", "semantic", "hybrid"}
  /\ search.max \in Nat /\ search.lw \in Nat /\ search.sw \in Nat
  /\ search.todo \in Seq(Paths)
  /\ search.lexical \in Seq(Candidates) /\ search.semantic \in Seq(Candidates)
  /\ search.at \in {"merge", "weigh"} => search.mode = "hybrid" /\ ~search.degraded
  /\ search.at = "vectors" => search.mode # "lexical" /\ ~search.degraded /\ search.lexical = <<>>
  /\ search.at = "scan" /\ search.mode = "semantic" => search.degraded

\* The files that a query is about, and a line that one of them had.
Searched(q) == indexed \cap q.pattern

Seen(c, q) == c.file \in Searched(q) /\ \E v \in before[c.file] : c.line \in Mentions(v, q.word)

\* The scan has the lines of what it read, up to its limit.
Scanned ==
  /\ search.at \in {"vectors", "scan"} => \A p \in Paths : corpus[p] \in before[p]
  /\ search.at # "idle" =>
       /\ \A c \in ToSet(search.lexical) : Seen(c, search)
       /\ ToSet(search.todo) \subseteq Searched(search)
       /\ Len(search.lexical) <= ScanLimit(search)
  /\ search.at = "scan" /\ search.truncated => search.todo = <<>>
  /\ search.at = "vectors" => ~search.truncated
  /\ search.at # "idle" /\ (search.at \in {"vectors", "scan"} \/ IsLexical(search)) =>
       \A f \in Searched(search) : \/ f \in ToSet(search.todo)
                                   \/ search.truncated
                                   \/ \E v \in before[f] : \A i \in Mentions(v, search.word) :
                                        <<f, i>> \in Keys(search.lexical)
  /\ search.at \in {"rank", "group", "done"} /\ IsLexical(search) => search.todo = <<>>

\* A lexical answer has all that was found.
LexicalAnswered ==
  IsLexical(search) =>
    /\ search.at = "group" => search.rows \in Seq(Candidates) /\ ToSet(search.rows) = ToSet(search.lexical)
    /\ search.at = "done" => Lines = ToSet(search.lexical)

\* A line is as good as another in one measure.
AsGood(seq, k, j) ==
  \A c \in ToSet(seq) : Key(c) = j /\ c.score > 0 =>
    \E d \in ToSet(seq) : Key(d) = k /\ d.score >= c.score

AllKeys(q) == Keys(q.lexical) \cup Keys(q.semantic)

Merged(q) ==
  {[file |-> k[1], line |-> k[2], lex |-> BestScore(q.lexical, k),
    sem |-> BestScore(q.semantic, k), score |-> 0] : k \in AllKeys(q)}

\* Each line is merged once, and its score grows with both measures.
WeighedWell(q) ==
  /\ IsFiniteSet(q.merged)
  /\ \A c \in q.merged : /\ c.file \in Paths /\ c.line \in Nat
                         /\ c.score \in Nat /\ c.lex \in Nat /\ c.sem \in Nat
  /\ \A a, b \in q.merged : Key(a) = Key(b) => a = b
  /\ \A c \in q.merged : Key(c) \in AllKeys(q)
  /\ \A k \in AllKeys(q) : \E c \in q.merged : Key(c) = k
  /\ \A a, b \in q.merged :
       AsGood(q.lexical, Key(a), Key(b)) /\ AsGood(q.semantic, Key(a), Key(b)) => a.score >= b.score

\* The lines shown are the best ones.
Best(shown, q) ==
  shown \subseteq q.merged /\ \A c \in q.merged \ shown : \A a \in shown : a.score >= c.score

HybridAnswered ==
  search.mode = "hybrid" /\ ~search.degraded =>
    /\ search.at = "weigh" => search.merged = Merged(search)
    /\ search.at \in {"rank", "group", "done"} => WeighedWell(search)
    /\ search.at = "group" => search.rows \in Seq(search.merged) /\ Best(ToSet(search.rows), search)
    /\ search.at = "done" => Best(Lines, search)

TextInvariant == TextTypes /\ Scanned /\ LexicalAnswered /\ HybridAnswered

LEMMA TextBegins == TextInit => TextInvariant
<1> SUFFICES ASSUME TextInit PROVE TextInvariant
  OBVIOUS
<1>1. /\ search = SearchIdle /\ search.at = "idle" /\ search.mode = "lexical" /\ search.max = 0 /\ search.lw = 0
      /\ search.sw = 0 /\ search.todo = <<>> /\ search.lexical = <<>> /\ search.semantic = <<>>
  BY DEF TextInit, SearchIdle
<1>2. search = [f \in DOMAIN SearchIdle |-> search[f]]
  <2>1. SearchIdle = [f \in DOMAIN SearchIdle |-> SearchIdle[f]]
    BY DEF SearchIdle
  <2> QED
    BY <1>1, <2>1
<1>3. TextTypes
  BY <1>1, <1>2 DEF TextInit, TextTypes, AllContents
<1>4. LexicalAnswered /\ HybridAnswered /\ Scanned
  BY <1>1 DEF Scanned, LexicalAnswered, HybridAnswered, IsLexical
<1> QED
  BY <1>3, <1>4 DEF TextInvariant

LEMMA ContentsAre == \A c \in AllContents : c = Missing \/ c \in Seq(TextLines)
<1> SUFFICES ASSUME NEW p \in Paths, NEW c \in Contents[p] PROVE c = Missing \/ c \in Seq(TextLines)
  BY DEF AllContents
<1>1. Contents[p] \subseteq Seq(TextLines) \cup {Missing}
  BY TextAssumption, Zenon
<1> QED
  BY <1>1

LEMMA NumbersInOrder ==
  ASSUME NEW S \in SUBSET Nat, IsFiniteSet(S)
  PROVE  InOrder(S, <) \in Seq(S) /\ ToSet(InOrder(S, <)) = S
<1> QED
  BY FilesInOrder DEF SortedFiles

\* The lines that match in a file.
LEMMA MatchesAre ==
  ASSUME NEW f \in Paths, NEW c \in AllContents, NEW w
  PROVE  /\ Matches(f, c, w) \in Seq(Candidates)
         /\ \A m \in ToSet(Matches(f, c, w)) : m.file = f /\ m.line \in Mentions(c, w)
         /\ \A i \in Mentions(c, w) : <<f, i>> \in Keys(Matches(f, c, w))
<1> DEFINE M == Mentions(c, w)
           lines == InOrder(M, <)
           out == [i \in DOMAIN lines |-> [file |-> f, line |-> lines[i], score |-> c[lines[i]].count]]
<1>1. /\ M \in SUBSET Nat /\ IsFiniteSet(M)
      /\ \A i \in M : c \in Seq(TextLines) /\ i \in 1 .. Len(c)
  <2>1. CASE c = Missing
    BY <2>1, FS_EmptySet DEF Mentions
  <2>2. CASE c # Missing
    <3>1. c \in Seq(TextLines)
      BY <2>2, ContentsAre
    <3>2. M \in SUBSET (1 .. Len(c)) /\ Len(c) \in Nat
      BY <2>2, <3>1 DEF Mentions
    <3>3. IsFiniteSet(1 .. Len(c))
      BY <3>2, FS_Interval
    <3>4. IsFiniteSet(M)
      BY <3>2, <3>3, FS_Subset
    <3> QED
      BY <3>1, <3>2, <3>4
  <2> QED
    BY <2>1, <2>2
<1> HIDE DEF M
<1>2. lines \in Seq(M) /\ ToSet(lines) = M
  BY <1>1, NumbersInOrder
<1>3. Matches(f, c, w) = out
  BY DEF Matches, M
<1> HIDE DEF lines
<1>4. /\ Len(lines) \in Nat /\ DOMAIN lines = 1 .. Len(lines)
      /\ \A i \in 1 .. Len(lines) : lines[i] \in M
      /\ \A x \in M : \E i \in 1 .. Len(lines) : lines[i] = x
  BY <1>2, FewInSeq
<1>5. \A i \in M : c[i].count \in Int
  <2> SUFFICES ASSUME NEW i \in M PROVE c[i].count \in Int
    OBVIOUS
  <2>1. c[i] \in TextLines
    BY <1>1
  <2> QED
    BY <2>1 DEF TextLines
<1>6. /\ DOMAIN out = 1 .. Len(lines)
      /\ \A i \in 1 .. Len(lines) : out[i] \in Candidates /\ out[i].file = f /\ out[i].line = lines[i]
  <2>1. \A i \in 1 .. Len(lines) : lines[i] \in Nat /\ c[lines[i]].count \in Int
    BY <1>1, <1>4, <1>5
  <2> QED
    BY <1>4, <2>1 DEF Candidates
<1>7. out \in Seq(Candidates)
  BY <1>4, <1>6
<1>8. ToSet(out) = {out[i] : i \in 1 .. Len(lines)}
  BY <1>6 DEF ToSet
<1> HIDE DEF out
<1>9. ASSUME NEW i \in M PROVE <<f, i>> \in Keys(out)
  <2>1. PICK j \in 1 .. Len(lines) : lines[j] = i
    BY <1>4
  <2>2. out[j] \in ToSet(out) /\ Key(out[j]) = <<f, i>>
    BY <1>6, <1>8, <2>1 DEF Key
  <2> QED
    BY <2>2 DEF Keys
<1> QED
  BY <1>3, <1>4, <1>6, <1>7, <1>8, <1>9 DEF M

LEMMA TextEditKeeps ==
  ASSUME TextInvariant, NEW p \in Paths, NEW v \in Contents[p], EditText(p, v)
  PROVE  TextInvariant'
<1>1. /\ search' = search /\ indexed' = indexed /\ hits' = hits /\ search.at \in {"vectors", "scan"}
      /\ corpus' = [corpus EXCEPT ![p] = v] /\ before' = [before EXCEPT ![p] = @ \cup {v}]
  BY DEF EditText
<1>2. corpus \in [Paths -> AllContents] /\ before \in [Paths -> SUBSET AllContents] /\ v \in AllContents
  BY DEF TextInvariant, TextTypes, AllContents
<1>3. /\ corpus' \in [Paths -> AllContents] /\ before' \in [Paths -> SUBSET AllContents]
      /\ \A f \in Paths : before[f] \subseteq before'[f] /\ (f # p => corpus'[f] = corpus[f])
      /\ corpus'[p] = v /\ v \in before'[p]
  <2> HIDE DEF AllContents
  <2> QED
    BY <1>1, <1>2
<1>4. TextTypes'
  BY <1>1, <1>3 DEF TextInvariant, TextTypes
<1>5. indexed \subseteq Paths
  BY DEF TextInvariant, TextTypes
<1>6. Scanned'
  <2>1. \A f \in Paths : corpus'[f] \in before'[f]
    BY <1>1, <1>3 DEF TextInvariant, Scanned
  <2>2. \A c \in ToSet(search.lexical) : Seen(c, search)'
    BY <1>1, <1>3, <1>5 DEF TextInvariant, Scanned, Seen, Searched
  <2>3. \A f \in Searched(search) : \/ f \in ToSet(search.todo)
                                    \/ search.truncated
                                    \/ \E c \in before'[f] : \A i \in Mentions(c, search.word) :
                                         <<f, i>> \in Keys(search.lexical)
    BY <1>1, <1>3, <1>5 DEF TextInvariant, Scanned, Searched
  <2> QED
    BY <1>1, <2>1, <2>2, <2>3 DEF TextInvariant, Scanned, Searched
<1>7. LexicalAnswered' /\ HybridAnswered'
  BY <1>1 DEF LexicalAnswered, HybridAnswered
<1> QED
  BY <1>4, <1>6, <1>7 DEF TextInvariant

LEMMA TextStarts ==
  ASSUME TextInvariant, NEW q \in TextQueries, StartSearch(q) PROVE TextInvariant'
<1>1. /\ q = [SearchIdle EXCEPT !.mode = q.mode, !.word = q.word, !.pattern = q.pattern,
                                !.max = q.max, !.lw = q.lw, !.sw = q.sw]
      /\ q.mode \in {"lexical", "semantic", "hybrid"}
      /\ q.max \in Nat /\ q.lw \in Nat /\ q.sw \in Nat
  BY TextAssumption
<1>2. /\ q = [f \in DOMAIN SearchIdle |-> q[f]] /\ q.degraded = FALSE /\ q.lexical = <<>> /\ q.semantic = <<>>
      /\ q.truncated = FALSE
  BY <1>1 DEF SearchIdle
<1>3. /\ corpus' = corpus /\ indexed' = indexed /\ hits' = hits /\ before' = [p \in Paths |-> {corpus[p]}]
      /\ search' = [Weights(q) EXCEPT !.at = IF q.mode = "lexical" THEN "scan" ELSE "vectors",
                                      !.todo = SortedFiles(indexed \cap q.pattern)]
  BY DEF StartSearch
<1>4. /\ search'.at = IF q.mode = "lexical" THEN "scan" ELSE "vectors"
      /\ search' = [f \in DOMAIN SearchIdle |-> search'[f]]
      /\ search'.mode = q.mode /\ search'.word = q.word /\ search'.pattern = q.pattern /\ search'.max = q.max
      /\ search'.degraded = FALSE /\ search'.lexical = <<>> /\ search'.semantic = <<>>
      /\ search'.truncated = FALSE /\ search'.todo = SortedFiles(indexed \cap q.pattern)
      /\ search'.lw \in Nat /\ search'.sw \in Nat
  BY <1>1, <1>2, <1>3, ZenonT(60) DEF Weights, SearchIdle
<1>5. corpus \in [Paths -> AllContents] /\ indexed \in SUBSET Paths /\ hits \in HitLists
  BY DEF TextInvariant, TextTypes
<1>6. /\ SortedFiles(indexed \cap q.pattern) \in Seq(Paths)
      /\ ToSet(SortedFiles(indexed \cap q.pattern)) = indexed \cap q.pattern
  <2>1. indexed \cap q.pattern \in SUBSET Paths
    BY <1>5
  <2> QED
    BY <2>1, FilesQueued
<1>7. TextTypes'
  <2>1. before' \in [Paths -> SUBSET AllContents]
    <3> HIDE DEF AllContents
    <3> QED
      BY <1>3, <1>5
  <2>2. <<>> \in Seq(Candidates)
    OBVIOUS
  <2>3. search'.todo \in Seq(Paths) /\ search'.lexical \in Seq(Candidates) /\ search'.semantic \in Seq(Candidates)
    BY <1>4, <1>6, <2>2
  <2>4. /\ search'.at \in {"vectors", "scan"} /\ (search'.at = "vectors" => search'.mode # "lexical")
        /\ (search'.at = "scan" => search'.mode = "lexical")
    BY <1>4
  <2> HIDE DEF AllContents, Candidates
  <2> QED
    BY <1>1, <1>3, <1>4, <1>5, <2>1, <2>3, <2>4 DEF TextTypes
<1>8. Scanned'
  <2>1. \A p \in Paths : corpus'[p] \in before'[p]
    BY <1>3
  <2>2. ToSet(<<>>) = {} /\ Len(<<>>) = 0
    BY DEF ToSet
  <2>3. ScanLimit(search)' \in Nat
    BY <1>1, <1>4 DEF ScanLimit
  <2>4. search'.at \in {"vectors", "scan"}
    BY <1>4
  <2>5. Searched(search)' = ToSet(search'.todo)
    BY <1>3, <1>4, <1>6 DEF Searched
  <2>6. search'.lexical = <<>> /\ search'.truncated = FALSE
    BY <1>4
  <2> QED
    BY <2>1, <2>2, <2>3, <2>4, <2>5, <2>6 DEF Scanned
<1>9. LexicalAnswered' /\ HybridAnswered'
  BY <1>4 DEF LexicalAnswered, HybridAnswered
<1> QED
  BY <1>7, <1>8, <1>9 DEF TextInvariant

\* What a step leaves of a search and its surroundings.
SearchKept ==
  /\ corpus' = corpus /\ before' = before /\ indexed' = indexed /\ hits' = hits
  /\ search'.mode = search.mode /\ search'.word = search.word /\ search'.pattern = search.pattern
  /\ search'.max = search.max /\ search'.lw = search.lw /\ search'.sw = search.sw
  /\ search' = [f \in DOMAIN SearchIdle |-> search'[f]]

\* A step that leaves the scan and its result alone.
LEMMA ScanKept ==
  ASSUME TextInvariant, SearchKept, search'.todo = search.todo, search'.lexical = search.lexical,
         search'.degraded = search.degraded, search.at # "idle", search'.at # "idle",
         search'.at \in {"vectors", "scan"} => search.at \in {"vectors", "scan"},
         search'.at \in {"vectors", "scan"} \/ IsLexical(search) => search'.truncated = search.truncated,
         search'.at = "scan" => search.at \in {"scan", "vectors"},
         search'.at = "vectors" => search.at = "vectors",
         search'.at \in {"rank", "group", "done"} /\ IsLexical(search) => search.todo = <<>>
  PROVE  Scanned'
<1>1. IsLexical(search)' <=> IsLexical(search)
  BY DEF IsLexical, SearchKept
<1>2. ScanLimit(search)' = ScanLimit(search) /\ Searched(search)' = Searched(search)
  BY <1>1 DEF ScanLimit, SearchKept, Searched
<1>3. \A c \in ToSet(search.lexical) : Seen(c, search)'
  BY <1>2 DEF TextInvariant, Scanned, Seen, SearchKept
<1> QED
  BY <1>1, <1>2, <1>3 DEF TextInvariant, Scanned, SearchKept

LEMMA VectorsKeep ==
  ASSUME TextInvariant, VectorsAnswer PROVE TextInvariant'
<1> DEFINE S == {i \in DOMAIN hits : hits[i].file \in search.pattern}
           found == InOrder(S, <)
           out == [i \in DOMAIN found |-> [hits[found[i]] EXCEPT !.line = IF @ = 0 THEN 1 ELSE @]]
<1>1. /\ search.at = "vectors" /\ SearchKept /\ search'.semantic = out
      /\ search'.at = (IF search.mode = "hybrid" THEN "scan" ELSE "rank") /\ search'.todo = search.todo
      /\ search'.lexical = search.lexical /\ search'.degraded = search.degraded
      /\ search'.truncated = search.truncated
  <2> HIDE DEF out
  <2> QED
    BY DEF TextInvariant, TextTypes, VectorsAnswer, SearchKept, SearchIdle, out
<1>2. hits \in Seq(Candidates)
  BY TextAssumption DEF TextInvariant, TextTypes, Candidates
<1>3. S \in SUBSET Nat /\ IsFiniteSet(S) /\ S \in SUBSET (1 .. Len(hits))
  <2>1. S \in SUBSET (1 .. Len(hits)) /\ Len(hits) \in Nat
    BY <1>2
  <2>2. IsFiniteSet(1 .. Len(hits))
    BY <2>1, FS_Interval
  <2> HIDE DEF S
  <2>3. IsFiniteSet(S)
    BY <2>1, <2>2, FS_Subset
  <2> QED
    BY <2>1, <2>3
<1> HIDE DEF S
<1>4. found \in Seq(S)
  BY <1>3, NumbersInOrder
<1> HIDE DEF found
<1>5. out \in Seq(Candidates)
  <2>1. Len(found) \in Nat /\ DOMAIN found = 1 .. Len(found)
    BY <1>4
  <2>2. ASSUME NEW i \in 1 .. Len(found)
        PROVE  [hits[found[i]] EXCEPT !.line = IF @ = 0 THEN 1 ELSE @] \in Candidates
    <3>1. found[i] \in 1 .. Len(hits)
      <4>1. found[i] \in S
        BY <1>4
      <4> QED
        BY <1>3, <4>1
    <3>2. hits[found[i]] \in Candidates
      BY <1>2, <3>1
    <3> QED
      BY <3>2 DEF Candidates
  <2> HIDE DEF Candidates
  <2> QED
    BY <2>1, <2>2
<1> HIDE DEF out
<1>6. search.mode \in {"semantic", "hybrid"} /\ ~search.degraded
  BY <1>1 DEF TextInvariant, TextTypes
<1>7. TextTypes'
  BY <1>1, <1>5, <1>6 DEF TextInvariant, TextTypes, SearchKept
<1>8. Scanned'
  BY <1>1, <1>6, ScanKept DEF IsLexical
<1>9. LexicalAnswered' /\ HybridAnswered'
  BY <1>1, <1>6 DEF LexicalAnswered, HybridAnswered, SearchKept
<1> QED
  BY <1>7, <1>8, <1>9, SMTT(40) DEF TextInvariant

LEMMA DegradedKeeps ==
  ASSUME TextInvariant, VectorsFail PROVE TextInvariant'
<1>1. /\ search.at = "vectors" /\ SearchKept /\ search'.semantic = search.semantic
      /\ search'.at = "scan" /\ search'.todo = search.todo
      /\ search'.lexical = search.lexical /\ search'.degraded = TRUE
      /\ search'.truncated = search.truncated
  BY DEF TextInvariant, TextTypes, VectorsFail, SearchKept, SearchIdle
<1>2. TextTypes'
  BY <1>1 DEF TextInvariant, TextTypes, SearchKept
<1>3. Scanned'
  <2>1. search.lexical = <<>> /\ search.max \in Nat
    BY <1>1 DEF TextInvariant, TextTypes
  <2>2. Len(search.lexical) = 0 /\ ScanLimit(search)' \in Nat
    BY <1>1, <2>1 DEF ScanLimit, IsLexical, SearchKept
  <2>3. \A c \in ToSet(search.lexical) : Seen(c, search)'
    BY <2>1 DEF ToSet
  <2>4. Searched(search)' = Searched(search)
    BY <1>1 DEF Searched, SearchKept
  <2> QED
    BY <1>1, <2>2, <2>3, <2>4 DEF TextInvariant, Scanned, SearchKept
<1>4. LexicalAnswered' /\ HybridAnswered'
  BY <1>1, SMTT(40) DEF LexicalAnswered, HybridAnswered, SearchKept
<1> QED
  BY <1>2, <1>3, <1>4 DEF TextInvariant

\* A file is scanned; the line that reaches the limit ends the scan.
LEMMA ScanKeeps ==
  ASSUME TextInvariant, ScanFile PROVE TextInvariant'
<1> DEFINE f == Head(search.todo)
           new == Matches(f, corpus[f], search.word)
           all == search.lexical \o new
           limit == ScanLimit(search)
           full == Len(all) >= limit
           kept == SubSeq(all, 1, ClampInt(Len(all), 0, limit))
<1>1. /\ search.at = "scan" /\ search'.at = "scan" /\ search.todo # <<>> /\ SearchKept
      /\ search'.lexical = kept /\ search'.todo = (IF full THEN <<>> ELSE Tail(search.todo))
      /\ search'.truncated = full /\ search'.degraded = search.degraded
      /\ search'.semantic = search.semantic
  <2> HIDE DEF kept, full, f
  <2> QED
    BY DEF TextInvariant, TextTypes, ScanFile, SearchKept, SearchIdle, kept, full, all, limit, new, f
<1>2. /\ search.todo \in Seq(Paths) /\ f \in Paths /\ Tail(search.todo) \in Seq(Paths) /\ <<>> \in Seq(Paths)
      /\ ToSet(search.todo) = {f} \cup ToSet(Tail(search.todo)) /\ ToSet(<<>>) = {}
  <2>1. search.todo \in Seq(Paths)
    BY DEF TextInvariant, TextTypes
  <2>2. ToSet(<<>>) = {}
    BY DEF ToSet
  <2> QED
    BY <1>1, <2>1, <2>2, QueueParts
<1>3. /\ corpus[f] \in AllContents /\ corpus[f] \in before[f] /\ f \in Searched(search)
      /\ limit \in Nat /\ search.lexical \in Seq(Candidates) /\ ~search.truncated
  <2>1. corpus[f] \in AllContents /\ search.lexical \in Seq(Candidates) /\ search.max \in Nat
    BY <1>2 DEF TextInvariant, TextTypes
  <2>2. corpus[f] \in before[f] /\ f \in Searched(search) /\ ~search.truncated
    BY <1>1, <1>2 DEF TextInvariant, Scanned
  <2>3. limit \in Nat
    BY <2>1 DEF ScanLimit
  <2> QED
    BY <2>1, <2>2, <2>3
<1>4. /\ new \in Seq(Candidates)
      /\ \A m \in ToSet(new) : m.file = f /\ m.line \in Mentions(corpus[f], search.word)
      /\ \A i \in Mentions(corpus[f], search.word) : <<f, i>> \in Keys(new)
  BY <1>2, <1>3, MatchesAre
<1> HIDE DEF f, new, limit
<1>5. all \in Seq(Candidates) /\ ToSet(all) = ToSet(search.lexical) \cup ToSet(new) /\ Len(all) \in Nat
  <2>1. IsJoined(all, Candidates, search.lexical, Candidates, new)
    BY <1>3, <1>4, QueueJoined
  <2> HIDE DEF all
  <2> QED
    BY <2>1 DEF IsJoined
<1> HIDE DEF all
<1>6. /\ kept \in Seq(Candidates) /\ Len(kept) <= limit /\ ToSet(kept) \subseteq ToSet(all)
      /\ ~full => kept = all
  <2>1. IsStart(kept, Candidates, all, limit)
    BY <1>3, <1>5, Prefix
  <2> HIDE DEF kept
  <2> QED
    BY <1>3, <1>5, <2>1 DEF IsStart
<1>7. full => search'.todo = <<>>
  BY <1>1
<1>8. ~full => search'.todo = Tail(search.todo)
  BY <1>1
<1> HIDE DEF full, kept
<1>9. search'.todo \in Seq(Paths) /\ ToSet(search'.todo) \subseteq ToSet(search.todo)
  BY <1>2, <1>7, <1>8
<1>10. TextTypes'
  BY <1>1, <1>6, <1>9 DEF TextInvariant, TextTypes, SearchKept
<1>11. Scanned'
  <2>1. ScanLimit(search)' = limit /\ Searched(search)' = Searched(search)
    BY <1>1 DEF ScanLimit, IsLexical, SearchKept, Searched, limit
  <2>2. \A c \in ToSet(kept) : Seen(c, search)'
    <3> SUFFICES ASSUME NEW c \in ToSet(all) PROVE Seen(c, search)'
      BY <1>6
    <3>1. CASE c \in ToSet(search.lexical)
      BY <1>1, <3>1 DEF TextInvariant, Scanned, Seen, SearchKept, Searched
    <3>2. CASE c \in ToSet(new)
      BY <1>1, <1>3, <1>4, <3>2 DEF Seen, SearchKept, Searched
    <3> QED
      BY <1>5, <3>1, <3>2
  <2>3. ASSUME ~full, NEW g \in Searched(search)
        PROVE  \/ g \in ToSet(Tail(search.todo))
               \/ \E v \in before[g] : \A i \in Mentions(v, search.word) : <<g, i>> \in Keys(all)
    <3>1. Keys(search.lexical) \subseteq Keys(all) /\ Keys(new) \subseteq Keys(all)
      BY <1>5 DEF Keys
    <3>2. CASE g = f
      BY <1>3, <1>4, <3>1, <3>2
    <3>3. CASE g # f
      <4>1. \/ g \in ToSet(search.todo)
            \/ \E v \in before[g] : \A i \in Mentions(v, search.word) : <<g, i>> \in Keys(search.lexical)
        BY <1>1, <1>3 DEF TextInvariant, Scanned
      <4> QED
        BY <1>2, <3>1, <3>3, <4>1
    <3> QED
      BY <3>2, <3>3
  <2>4. \A g \in Searched(search) :
          \/ g \in ToSet(search'.todo) \/ search'.truncated
          \/ \E v \in before[g] : \A i \in Mentions(v, search.word) : <<g, i>> \in Keys(search'.lexical)
    BY <1>1, <1>6, <1>8, <2>3
  <2>5. \A p \in Paths : corpus[p] \in before[p]
    BY <1>1 DEF TextInvariant, Scanned
  <2>6. ToSet(search'.todo) \subseteq Searched(search)
    BY <1>1, <1>9 DEF TextInvariant, Scanned
  <2> QED
    BY <1>1, <1>6, <1>7, <2>1, <2>2, <2>4, <2>5, <2>6 DEF Scanned, SearchKept
<1>12. LexicalAnswered' /\ HybridAnswered'
  BY <1>1 DEF LexicalAnswered, HybridAnswered
<1> QED
  BY <1>10, <1>11, <1>12 DEF TextInvariant

LEMMA ScanEnds ==
  ASSUME TextInvariant, EndScan PROVE TextInvariant'
<1>1. /\ search.at = "scan" /\ search.todo = <<>> /\ SearchKept
      /\ search'.at = (IF IsLexical(search) THEN "rank" ELSE "merge") /\ search'.todo = search.todo
      /\ search'.lexical = search.lexical /\ search'.degraded = search.degraded
      /\ search'.truncated = search.truncated /\ search'.semantic = search.semantic
  BY DEF TextInvariant, TextTypes, EndScan, SearchKept, SearchIdle
<1>2. ~IsLexical(search) => search.mode = "hybrid" /\ ~search.degraded
  BY <1>1 DEF TextInvariant, TextTypes, IsLexical
<1>3. TextTypes'
  BY <1>1, <1>2 DEF TextInvariant, TextTypes, SearchKept
<1>4. Scanned'
  BY <1>1, ScanKept
<1>5. LexicalAnswered'
  BY <1>1 DEF LexicalAnswered
<1>6. HybridAnswered'
  BY <1>1 DEF HybridAnswered, IsLexical, SearchKept
<1> QED
  BY <1>3, <1>4, <1>5, <1>6 DEF TextInvariant

LEMMA MergeKeeps ==
  ASSUME TextInvariant, MergeLines PROVE TextInvariant'
<1>1. /\ search.at = "merge" /\ SearchKept /\ search'.at = "weigh" /\ search'.todo = search.todo
      /\ search'.lexical = search.lexical /\ search'.degraded = search.degraded
      /\ search'.truncated = search.truncated /\ search'.semantic = search.semantic
      /\ search'.merged = Merged(search)
  BY DEF TextInvariant, TextTypes, MergeLines, SearchKept, SearchIdle, Merged, AllKeys
<1>2. search.mode = "hybrid" /\ ~search.degraded
  BY <1>1 DEF TextInvariant, TextTypes
<1>3. TextTypes'
  BY <1>1, <1>2 DEF TextInvariant, TextTypes, SearchKept
<1>4. Scanned'
  BY <1>1, ScanKept
<1>5. LexicalAnswered'
  BY <1>1 DEF LexicalAnswered
<1>6. Merged(search)' = Merged(search)
  BY <1>1 DEF Merged, AllKeys
<1>7. HybridAnswered'
  BY <1>1, <1>6 DEF HybridAnswered
<1> QED
  BY <1>3, <1>4, <1>5, <1>7 DEF TextInvariant

\* A line that is as good as another has no lower best score.
LEMMA AsGoodIs ==
  ASSUME NEW s \in Seq(Candidates), NEW k, NEW j, AsGood(s, k, j)
  PROVE  BestScore(s, j) <= BestScore(s, k)
<1>1. /\ BestScore(s, j) \in Nat /\ BestScore(s, k) \in Nat
      /\ BestScore(s, j) = 0 \/ \E c \in ToSet(s) : Key(c) = j /\ c.score = BestScore(s, j)
      /\ \A c \in ToSet(s) : Key(c) = k => c.score <= BestScore(s, k)
  BY BestScoreIs
<1>2. CASE BestScore(s, j) = 0
  BY <1>1, <1>2
<1>3. CASE BestScore(s, j) # 0
  <2>1. PICK c \in ToSet(s) : Key(c) = j /\ c.score = BestScore(s, j)
    BY <1>1, <1>3
  <2>2. c.score > 0
    BY <1>1, <1>3, <2>1
  <2>3. PICK d \in ToSet(s) : Key(d) = k /\ d.score >= c.score
    BY <2>1, <2>2 DEF AsGood
  <2>4. d.score \in Int
    <3>1. ToSet(s) \subseteq Candidates
      BY FewInSeq
    <3> QED
      BY <3>1 DEF Candidates
  <2>5. d.score <= BestScore(s, k)
    BY <1>1, <2>3
  <2> QED
    BY <1>1, <2>1, <2>3, <2>4, <2>5
<1> QED
  BY <1>2, <1>3

\* The keys of candidates are places.
LEMMA KeysArePlaces ==
  ASSUME NEW s \in Seq(Candidates), NEW k \in Keys(s)
  PROVE  k = <<k[1], k[2]>> /\ k[1] \in Paths /\ k[2] \in Nat
<1>1. ToSet(s) \subseteq Candidates
  BY FewInSeq
<1> QED
  BY <1>1 DEF Keys, Key, Candidates

\* What merging makes of the candidates.
LEMMA MergedIs ==
  ASSUME NEW q, q.lexical \in Seq(Candidates), q.semantic \in Seq(Candidates)
  PROVE  /\ IsFiniteSet(Merged(q))
         /\ \A c \in Merged(q) :
              /\ c = [file |-> c.file, line |-> c.line, lex |-> c.lex, sem |-> c.sem, score |-> c.score]
              /\ c.file \in Paths /\ c.line \in Nat /\ Key(c) \in AllKeys(q)
              /\ c.lex = BestScore(q.lexical, Key(c)) /\ c.lex \in Nat
              /\ c.sem = BestScore(q.semantic, Key(c)) /\ c.sem \in Nat
         /\ \A k \in AllKeys(q) : \E c \in Merged(q) : Key(c) = k
         /\ \A a, b \in Merged(q) : Key(a) = Key(b) => a = b
<1> DEFINE K == AllKeys(q)
           M(k) == [file |-> k[1], line |-> k[2], lex |-> BestScore(q.lexical, k),
                    sem |-> BestScore(q.semantic, k), score |-> 0]
<1>1. Merged(q) = {M(k) : k \in K}
  BY DEF Merged
<1>2. \A k \in K : k = <<k[1], k[2]>> /\ k[1] \in Paths /\ k[2] \in Nat
  BY KeysArePlaces DEF AllKeys
<1>3. \A k \in K : BestScore(q.lexical, k) \in Nat /\ BestScore(q.semantic, k) \in Nat
  BY BestScoreIs
<1>4. IsFiniteSet(K)
  <2>1. IsFiniteSet(Keys(q.lexical)) /\ IsFiniteSet(Keys(q.semantic))
    BY FewKeys
  <2> QED
    BY <2>1, FS_Union DEF AllKeys
<1> HIDE DEF K
<1>5. \A k \in K : Key(M(k)) = k
  BY <1>2 DEF Key
<1>6. IsFiniteSet(Merged(q))
  <2>1. [k \in K |-> M(k)] \in Surjection(K, Merged(q))
    <3> HIDE DEF M
    <3> QED
      BY <1>1 DEF Surjection
  <2> QED
    BY <1>4, <2>1, FS_Surjection
<1>7. ASSUME NEW c \in Merged(q)
      PROVE  /\ c = [file |-> c.file, line |-> c.line, lex |-> c.lex, sem |-> c.sem, score |-> c.score]
             /\ c.file \in Paths /\ c.line \in Nat /\ Key(c) \in K
             /\ c.lex = BestScore(q.lexical, Key(c)) /\ c.lex \in Nat
             /\ c.sem = BestScore(q.semantic, Key(c)) /\ c.sem \in Nat
  <2>1. PICK k \in K : c = M(k)
    BY <1>1
  <2>2. Key(c) = k
    BY <1>5, <2>1
  <2> QED
    BY <1>2, <1>3, <2>1, <2>2
<1>8. \A k \in K : \E c \in Merged(q) : Key(c) = k
  <2> HIDE DEF M
  <2> QED
    BY <1>1, <1>5
<1>9. \A a, b \in Merged(q) : Key(a) = Key(b) => a = b
  <2> SUFFICES ASSUME NEW a \in Merged(q), NEW b \in Merged(q), Key(a) = Key(b) PROVE a = b
    OBVIOUS
  <2>1. PICK k \in K : a = M(k)
    BY <1>1
  <2>2. PICK j \in K : b = M(j)
    BY <1>1
  <2> HIDE DEF M
  <2> QED
    BY <1>5, <2>1, <2>2
<1> QED
  BY <1>6, <1>7, <1>8, <1>9 DEF K

\* Weighing keeps the lines, and their order when one is as good as another in both measures.
LEMMA WeighKeeps ==
  ASSUME TextInvariant, WeighLines PROVE TextInvariant'
<1> DEFINE M == Merged(search)
           lexical == {c.lex : c \in M} \ {0}
           semantic == {c.sem : c \in M} \ {0}
           lex(c) == search.lw * Normalized(c.lex, lexical) * SpanOf(semantic)
           sem(c) == search.sw * Normalized(c.sem, semantic) * SpanOf(lexical)
           W(c) == [c EXCEPT !.lex = lex(c), !.sem = sem(c), !.score = lex(c) + sem(c)]
<1>1. /\ search.at = "weigh" /\ SearchKept /\ search'.at = "rank" /\ search'.todo = search.todo
      /\ search'.lexical = search.lexical /\ search'.degraded = search.degraded
      /\ search'.truncated = search.truncated /\ search'.semantic = search.semantic
  BY DEF TextInvariant, TextTypes, WeighLines, SearchKept, SearchIdle
<1>2. /\ search.mode = "hybrid" /\ ~search.degraded /\ search.lw \in Nat /\ search.sw \in Nat
      /\ search.lexical \in Seq(Candidates) /\ search.semantic \in Seq(Candidates)
  BY <1>1 DEF TextInvariant, TextTypes
<1>3. search.merged = M
  BY <1>1, <1>2 DEF TextInvariant, HybridAnswered
<1>4. search'.merged = {W(c) : c \in M}
  <2> DEFINE N == search.merged
             lx == {c.lex : c \in N} \ {0}
             sm == {c.sem : c \in N} \ {0}
             l(c) == search.lw * Normalized(c.lex, lx) * SpanOf(sm)
             s(c) == search.sw * Normalized(c.sem, sm) * SpanOf(lx)
             V == {[c EXCEPT !.lex = l(c), !.sem = s(c), !.score = l(c) + s(c)] : c \in N}
  <2>1. search' = [search EXCEPT !.at = "rank", !.merged = V]
    BY DEF WeighLines
  <2> HIDE DEF V
  <2>2. search'.merged = V
    BY <2>1 DEF TextInvariant, TextTypes, SearchIdle
  <2> QED
    BY <1>3, <2>2 DEF V
<1>5. /\ IsFiniteSet(M)
      /\ \A c \in M :
           /\ c = [file |-> c.file, line |-> c.line, lex |-> c.lex, sem |-> c.sem, score |-> c.score]
           /\ c.file \in Paths /\ c.line \in Nat /\ Key(c) \in AllKeys(search)
           /\ c.lex = BestScore(search.lexical, Key(c)) /\ c.lex \in Nat
           /\ c.sem = BestScore(search.semantic, Key(c)) /\ c.sem \in Nat
      /\ \A k \in AllKeys(search) : \E c \in M : Key(c) = k
      /\ \A a, b \in M : Key(a) = Key(b) => a = b
  BY <1>2, MergedIs
<1> HIDE DEF M
<1>6. /\ SpanOf(lexical) \in Nat
      /\ \A c \in M : Normalized(c.lex, lexical) \in Nat
      /\ \A a, b \in M : b.lex <= a.lex => Normalized(b.lex, lexical) <= Normalized(a.lex, lexical)
  <2> DEFINE T == {c.lex : c \in M}
  <2>1. [c \in M |-> c.lex] \in Surjection(M, T)
    BY DEF Surjection
  <2>2. T \in SUBSET Nat /\ \A c \in M : c.lex \in T
    BY <1>5
  <2> HIDE DEF T
  <2>3. IsFiniteSet(T)
    BY <1>5, <2>1, FS_Surjection
  <2>4. /\ SpanOf(T \ {0}) \in Nat
        /\ \A m \in T \cup {0} : Normalized(m, T \ {0}) \in Nat
        /\ \A m, n \in T \cup {0} : m <= n => Normalized(m, T \ {0}) <= Normalized(n, T \ {0})
    BY <2>2, <2>3, NormalizedGrows
  <2> QED
    BY <2>2, <2>4 DEF T
<1>7. /\ SpanOf(semantic) \in Nat
      /\ \A c \in M : Normalized(c.sem, semantic) \in Nat
      /\ \A a, b \in M : b.sem <= a.sem => Normalized(b.sem, semantic) <= Normalized(a.sem, semantic)
  <2> DEFINE T == {c.sem : c \in M}
  <2>1. [c \in M |-> c.sem] \in Surjection(M, T)
    BY DEF Surjection
  <2>2. T \in SUBSET Nat /\ \A c \in M : c.sem \in T
    BY <1>5
  <2> HIDE DEF T
  <2>3. IsFiniteSet(T)
    BY <1>5, <2>1, FS_Surjection
  <2>4. /\ SpanOf(T \ {0}) \in Nat
        /\ \A m \in T \cup {0} : Normalized(m, T \ {0}) \in Nat
        /\ \A m, n \in T \cup {0} : m <= n => Normalized(m, T \ {0}) <= Normalized(n, T \ {0})
    BY <2>2, <2>3, NormalizedGrows
  <2> QED
    BY <2>2, <2>4 DEF T
<1> HIDE DEF lexical, semantic
<1>8. ASSUME NEW c \in M PROVE lex(c) \in Nat /\ sem(c) \in Nat
  BY <1>2, <1>6, <1>7, TimesGrows
<1>9. ASSUME NEW a \in M, NEW b \in M, b.lex <= a.lex, b.sem <= a.sem
      PROVE  lex(b) + sem(b) <= lex(a) + sem(a)
  <2>1. lex(b) <= lex(a)
    BY <1>2, <1>6, <1>7, <1>9, TimesGrows
  <2>2. sem(b) <= sem(a)
    BY <1>2, <1>6, <1>7, <1>9, TimesGrows
  <2>3. lex(b) \in Nat /\ sem(b) \in Nat /\ lex(a) \in Nat /\ sem(a) \in Nat
    BY <1>8
  <2> HIDE DEF lex, sem
  <2> QED
    BY <2>1, <2>2, <2>3
<1> HIDE DEF lex, sem
<1>10. ASSUME NEW c \in M
       PROVE  /\ W(c).file = c.file /\ W(c).line = c.line /\ Key(W(c)) = Key(c)
              /\ W(c).lex = lex(c) /\ W(c).sem = sem(c) /\ W(c).score = lex(c) + sem(c)
  BY <1>5 DEF Key
<1> HIDE DEF W
<1>11. IsFiniteSet({W(c) : c \in M})
  <2>1. [c \in M |-> W(c)] \in Surjection(M, {W(c) : c \in M})
    BY DEF Surjection
  <2> QED
    BY <1>5, <2>1, FS_Surjection
<1>12. ASSUME NEW a \in M, NEW b \in M, AsGood(search.lexical, Key(a), Key(b)), AsGood(search.semantic, Key(a), Key(b))
       PROVE  W(a).score >= W(b).score
  <2>1. b.lex <= a.lex /\ b.sem <= a.sem
    BY <1>2, <1>5, <1>12, AsGoodIs
  <2> QED
    BY <1>8, <1>9, <1>10, <2>1
<1>13. WeighedWell(search)'
  <2>1. \A x \in search'.merged : \E c \in M : x = W(c)
    BY <1>4
  <2>2. AllKeys(search)' = AllKeys(search)
    BY <1>1 DEF AllKeys
  <2>3. ASSUME NEW x \in search'.merged
        PROVE  /\ x.file \in Paths /\ x.line \in Nat /\ x.score \in Nat /\ x.lex \in Nat /\ x.sem \in Nat
               /\ Key(x) \in AllKeys(search)
    <3>1. PICK c \in M : x = W(c)
      BY <2>1
    <3> QED
      BY <1>5, <1>8, <1>10, <3>1
  <2>4. ASSUME NEW x \in search'.merged, NEW y \in search'.merged, Key(x) = Key(y) PROVE x = y
    <3>1. PICK c \in M : x = W(c)
      BY <2>1
    <3>2. PICK d \in M : y = W(d)
      BY <2>1
    <3> QED
      BY <1>5, <1>10, <2>4, <3>1, <3>2
  <2>5. ASSUME NEW k \in AllKeys(search) PROVE \E x \in search'.merged : Key(x) = k
    BY <1>4, <1>5, <1>10
  <2>6. ASSUME NEW x \in search'.merged, NEW y \in search'.merged,
               AsGood(search.lexical, Key(x), Key(y)), AsGood(search.semantic, Key(x), Key(y))
        PROVE  x.score >= y.score
    <3>1. PICK c \in M : x = W(c)
      BY <2>1
    <3>2. PICK d \in M : y = W(d)
      BY <2>1
    <3> QED
      BY <1>10, <1>12, <2>6, <3>1, <3>2
  <2> QED
    BY <1>1, <1>4, <1>11, <2>2, <2>3, <2>4, <2>5, <2>6 DEF WeighedWell
<1>14. TextTypes'
  BY <1>1, <1>2 DEF TextInvariant, TextTypes, SearchKept
<1>15. Scanned'
  BY <1>1, <1>2, ScanKept DEF IsLexical
<1>16. LexicalAnswered' /\ HybridAnswered'
  BY <1>1, <1>13 DEF LexicalAnswered, HybridAnswered
<1> QED
  BY <1>14, <1>15, <1>16 DEF TextInvariant

\* The merged lines in the order of the answer.
LEMMA HybridOrder ==
  ASSUME NEW q, WeighedWell(q)
  PROVE  /\ InOrder(q.merged, HybridFirst) \in Seq(q.merged)
         /\ ToSet(InOrder(q.merged, HybridFirst)) = q.merged
         /\ \A i, j \in 1 .. Len(InOrder(q.merged, HybridFirst)) :
              i < j => InOrder(q.merged, HybridFirst)[i].score >= InOrder(q.merged, HybridFirst)[j].score
<1> DEFINE M == q.merged
           R == {p \in M \X M : HybridFirst(p[1], p[2])}
           P(x) == Cardinality({y \in M : HybridFirst(y, x)})
           s == InOrder(M, HybridFirst)
<1>1. /\ IsFiniteSet(M)
      /\ \A c \in M : c.file \in Nat /\ c.line \in Nat /\ c.score \in Nat /\ c.lex \in Nat /\ c.sem \in Nat
      /\ \A a, b \in M : a.file = b.file /\ a.line = b.line => a = b
  BY CodeAssumption DEF WeighedWell, Key
<1> HIDE DEF M
<1>2. ASSUME NEW a \in M, NEW b \in M
      PROVE  /\ ~HybridFirst(a, a)
             /\ a = b \/ HybridFirst(a, b) \/ HybridFirst(b, a)
             /\ HybridFirst(a, b) => a.score >= b.score
  BY <1>1 DEF HybridFirst, Earlier
<1>3. ASSUME NEW a \in M, NEW b \in M, NEW c \in M, HybridFirst(a, b), HybridFirst(b, c)
      PROVE  HybridFirst(a, c)
  BY <1>1, <1>3 DEF HybridFirst, Earlier
<1>4. Orders(R, M)
  BY <1>2, <1>3 DEF Orders
<1>5. ASSUME NEW x \in M PROVE Rank(R, M, x) = P(x)
  <2>1. {y \in M : HybridFirst(y, x)} = {y \in M : <<y, x>> \in R}
    OBVIOUS
  <2> QED
    BY <2>1 DEF Rank
<1>6. s = [i \in 1 .. Cardinality(M) |-> CHOOSE x \in M : P(x) = i - 1]
  BY DEF InOrder
<1>7. \A x, y \in M : <<x, y>> \in R => x.score >= y.score
  BY <1>2
<1> HIDE DEF R, s, P
<1>8. ASSUME NEW i \in 1 .. Cardinality(M) PROVE s[i] \in M /\ Rank(R, M, s[i]) = i - 1
  <2>1. \E x \in M : P(x) = i - 1
    BY <1>1, <1>4, <1>5, RankOnto
  <2>2. s[i] \in M /\ P(s[i]) = i - 1
    BY <1>6, <2>1
  <2> QED
    BY <1>5, <2>2
<1>9. s \in [1 .. Cardinality(M) -> M]
  BY <1>6, <1>8
<1>10. /\ s \in Seq(M) /\ ToSet(s) = M /\ Len(s) = Cardinality(M)
       /\ \A i, j \in 1 .. Cardinality(M) : i < j => <<s[i], s[j]>> \in R
  BY <1>1, <1>4, <1>8, <1>9, SortedIs
<1>11. \A i, j \in 1 .. Len(s) : i < j => s[i].score >= s[j].score
  BY <1>7, <1>8, <1>10
<1> QED
  BY <1>10, <1>11 DEF s, M

LEMMA RankKeeps ==
  ASSUME TextInvariant, RankLines PROVE TextInvariant'
<1> DEFINE ranked == RankedLines(search)
           rows == SubSeq(ranked, 1, ClampInt(Len(ranked), 0, search.max))
<1>1. /\ search.at = "rank" /\ SearchKept /\ search'.at = "group" /\ search'.todo = search.todo
      /\ search'.lexical = search.lexical /\ search'.degraded = search.degraded
      /\ search'.semantic = search.semantic /\ search'.merged = search.merged
      /\ search'.rows = rows
      /\ IsLexical(search) => search'.truncated = search.truncated
  <2> HIDE DEF ranked
  <2> QED
    BY DEF TextInvariant, TextTypes, RankLines, SearchKept, SearchIdle, ranked
<1>2. search.max \in Nat /\ search.lexical \in Seq(Candidates)
  BY DEF TextInvariant, TextTypes
<1> HIDE DEF rows
<1>3. TextTypes'
  BY <1>1 DEF TextInvariant, TextTypes, SearchKept
<1>4. Scanned'
  BY <1>1, ScanKept DEF TextInvariant, Scanned
<1>5. IsLexical(search)' <=> IsLexical(search)
  BY <1>1 DEF IsLexical, SearchKept
<1>6. ASSUME IsLexical(search) PROVE rows = search.lexical
  <2>1. ranked = search.lexical
    BY <1>6 DEF RankedLines
  <2>2. Len(search.lexical) <= search.max
    BY <1>1, <1>6 DEF TextInvariant, Scanned, ScanLimit
  <2>3. IsStart(rows, Candidates, search.lexical, search.max)
    BY <1>2, <2>1, Prefix DEF rows
  <2> QED
    BY <2>2, <2>3 DEF IsStart
<1>7. LexicalAnswered'
  BY <1>1, <1>2, <1>5, <1>6 DEF LexicalAnswered
<1>8. ASSUME search.mode = "hybrid", ~search.degraded
      PROVE  WeighedWell(search) /\ rows \in Seq(search.merged) /\ Best(ToSet(rows), search)
  <2> DEFINE M == search.merged
             s == InOrder(M, HybridFirst)
  <2>1. WeighedWell(search)
    BY <1>1, <1>8 DEF TextInvariant, HybridAnswered
  <2>2. ranked = s
    BY <1>8 DEF RankedLines, IsLexical
  <2>3. s \in Seq(M) /\ ToSet(s) = M /\ \A i, j \in 1 .. Len(s) : i < j => s[i].score >= s[j].score
    BY <2>1, HybridOrder
  <2> HIDE DEF s, M
  <2>4. IsStart(rows, M, s, search.max)
    BY <1>2, <2>2, <2>3, Prefix DEF rows
  <2>5. /\ rows \in Seq(M) /\ Len(rows) <= Len(s) /\ Len(rows) \in Nat /\ Len(s) \in Nat
        /\ \A i \in 1 .. Len(rows) : rows[i] = s[i]
    BY <2>3, <2>4 DEF IsStart
  <2>6. ToSet(rows) \subseteq M
    BY <2>5, FewInSeq
  <2>7. ASSUME NEW c \in M \ ToSet(rows), NEW a \in ToSet(rows) PROVE a.score >= c.score
    <3>1. PICK i \in 1 .. Len(rows) : rows[i] = a
      BY <2>5, FewInSeq
    <3>2. PICK j \in 1 .. Len(s) : s[j] = c
      BY <2>3, FewInSeq
    <3>3. ~(j \in 1 .. Len(rows))
      <4> SUFFICES ASSUME j \in 1 .. Len(rows) PROVE FALSE
        OBVIOUS
      <4>1. rows[j] \in ToSet(rows)
        BY <2>5, FewInSeq
      <4> QED
        BY <2>5, <2>7, <3>2, <4>1
    <3>4. i \in 1 .. Len(s) /\ i < j
      BY <2>5, <3>3
    <3> QED
      BY <2>3, <2>5, <3>1, <3>2, <3>4
  <2>8. Best(ToSet(rows), search)
    BY <2>6, <2>7 DEF Best, M
  <2> QED
    BY <2>1, <2>5, <2>8 DEF M
<1>9. HybridAnswered'
  <2> SUFFICES ASSUME search.mode = "hybrid", ~search.degraded PROVE HybridAnswered'
    BY <1>1 DEF HybridAnswered, SearchKept
  <2>1. WeighedWell(search)'
    BY <1>1, <1>8 DEF WeighedWell, AllKeys
  <2>2. Best(ToSet(search.rows), search)'
    BY <1>1, <1>8 DEF Best
  <2> QED
    BY <1>1, <1>8, <2>1, <2>2 DEF HybridAnswered
<1> QED
  BY <1>3, <1>4, <1>7, <1>9 DEF TextInvariant

\* Grouping by file shows the same lines.
LEMMA GroupKeeps ==
  ASSUME TextInvariant, GroupLines PROVE TextInvariant'
<1>1. /\ search.at = "group" /\ SearchKept /\ search'.at = "done" /\ search'.todo = search.todo
      /\ search'.lexical = search.lexical /\ search'.degraded = search.degraded
      /\ search'.semantic = search.semantic /\ search'.merged = search.merged
      /\ search'.rows = Grouped(search.rows) /\ search'.truncated = search.truncated
  BY DEF TextInvariant, TextTypes, GroupLines, SearchKept, SearchIdle
<1>2. TextTypes'
  BY <1>1 DEF TextInvariant, TextTypes, SearchKept
<1>3. Scanned'
  BY <1>1, ScanKept DEF TextInvariant, Scanned
<1>4. IsLexical(search)' <=> IsLexical(search)
  BY <1>1 DEF IsLexical, SearchKept
<1>5. Lines' = UNION {g.lines : g \in ToSet(Grouped(search.rows))}
  BY <1>1 DEF Lines
<1>6. LexicalAnswered'
  <2> SUFFICES ASSUME IsLexical(search) PROVE Lines' = ToSet(search.lexical)
    BY <1>1, <1>4 DEF LexicalAnswered
  <2>1. search.rows \in Seq(Candidates) /\ ToSet(search.rows) = ToSet(search.lexical)
    BY <1>1 DEF TextInvariant, LexicalAnswered
  <2>2. \A c \in Candidates : c.file \in Paths
    BY DEF Candidates
  <2> QED
    BY <1>5, <2>1, <2>2, GroupedLines
<1>7. HybridAnswered'
  <2> SUFFICES ASSUME search.mode = "hybrid", ~search.degraded PROVE HybridAnswered'
    BY <1>1 DEF HybridAnswered, SearchKept
  <2>1. WeighedWell(search) /\ search.rows \in Seq(search.merged) /\ Best(ToSet(search.rows), search)
    BY <1>1 DEF TextInvariant, HybridAnswered
  <2>2. \A c \in search.merged : c.file \in Paths
    BY <2>1 DEF WeighedWell
  <2>3. Lines' = ToSet(search.rows)
    BY <1>5, <2>1, <2>2, GroupedLines
  <2>4. WeighedWell(search)'
    BY <1>1, <2>1 DEF WeighedWell, AllKeys
  <2>5. Best(Lines, search)'
    BY <1>1, <2>1, <2>3 DEF Best
  <2> QED
    BY <1>1, <2>4, <2>5 DEF HybridAnswered
<1> QED
  BY <1>2, <1>3, <1>6, <1>7 DEF TextInvariant

LEMMA TextSteps == TextInvariant /\ [TextNext]_textVars => TextInvariant'
<1> SUFFICES ASSUME TextInvariant, [TextNext]_textVars PROVE TextInvariant'
  OBVIOUS
<1>1. CASE UNCHANGED textVars
  <2>1. /\ corpus' = corpus /\ indexed' = indexed /\ hits' = hits /\ search' = search /\ before' = before
    BY <1>1 DEF textVars
  <2>2. TextTypes'
    BY <2>1 DEF TextInvariant, TextTypes
  <2>3. Scanned'
    BY <2>1 DEF TextInvariant, Scanned, Seen, Searched
  <2>4. LexicalAnswered' /\ HybridAnswered'
    BY <2>1 DEF TextInvariant, LexicalAnswered, HybridAnswered, Lines
  <2> QED
    BY <2>2, <2>3, <2>4 DEF TextInvariant
<1>2. ASSUME NEW q \in TextQueries, StartSearch(q) PROVE TextInvariant'
  BY <1>2, TextStarts
<1>3. ASSUME NEW p \in Paths, NEW v \in Contents[p], EditText(p, v) PROVE TextInvariant'
  BY <1>3, TextEditKeeps
<1> QED
  BY <1>1, <1>2, <1>3, VectorsKeep, DegradedKeeps, ScanKeeps, ScanEnds, MergeKeeps, WeighKeeps,
     RankKeeps, GroupKeeps DEF TextNext, SearchStep

LEMMA TextHolds == TextSpec => []TextInvariant
<1> QED
  BY TextBegins, TextSteps, PTL DEF TextSpec

\* What the invariant says of the lines that are listed.
LEMMA TextAnswered == TextInvariant => TextBetweenSnapshots
<1> SUFFICES ASSUME TextInvariant, search.at = "done", IsLexical(search) PROVE TextBetweenSnapshots
  BY DEF TextBetweenSnapshots
<1>1. Lines = ToSet(search.lexical) /\ search.todo = <<>>
  BY DEF TextInvariant, Scanned, LexicalAnswered
<1>2. Listed = Keys(search.lexical)
  BY <1>1 DEF Listed, Keys
<1>3. ToSet(search.todo) = {}
  BY <1>1 DEF ToSet
<1>4. \A c \in Lines : Seen(c, search)
  BY <1>1 DEF TextInvariant, Scanned
<1>5. ASSUME NEW f \in Searched(search), NEW i, ~search.truncated,
             \A c \in before[f] : i \in Mentions(c, search.word)
      PROVE  <<f, i>> \in Listed
  BY <1>2, <1>3, <1>5 DEF TextInvariant, Scanned
<1> QED
  BY <1>4, <1>5 DEF TextBetweenSnapshots, Seen, Searched

LEMMA HybridHolds == TextInvariant => HybridMonotone
<1> SUFFICES ASSUME TextInvariant, search.at = "done", search.mode = "hybrid", ~search.degraded,
                    NEW b \in Lines, NEW k \in AllKeys(search),
                    AsGood(search.lexical, k, Key(b)), AsGood(search.semantic, k, Key(b))
             PROVE  \/ \E a \in Lines : Key(a) = k /\ a.score >= b.score
                    \/ k \notin Listed /\ \A a \in Lines : a.score >= b.score
  BY DEF HybridMonotone, AsGood, AllKeys
<1>1. WeighedWell(search) /\ Best(Lines, search)
  BY DEF TextInvariant, HybridAnswered
<1>2. PICK c \in search.merged : Key(c) = k
  BY <1>1 DEF WeighedWell
<1>3. b \in search.merged /\ c.score >= b.score
  BY <1>1, <1>2 DEF WeighedWell, Best
<1>4. CASE c \in Lines
  BY <1>2, <1>3, <1>4
<1>5. CASE c \notin Lines
  <2>1. k \notin Listed
    BY <1>1, <1>2, <1>5 DEF Listed, WeighedWell, Best
  <2>2. \A a \in Lines : a \in search.merged /\ a.score >= c.score
    BY <1>1, <1>5 DEF Best
  <2>3. \A a \in Lines : a.score \in Nat /\ c.score \in Nat /\ b.score \in Nat
    BY <1>1, <1>3, <2>2 DEF WeighedWell
  <2> QED
    BY <1>3, <2>1, <2>2, <2>3
<1> QED
  BY <1>4, <1>5

-----------------------------------------------------------------------------
(* Symbols by rank. *)

\* The symbols of an index are in one order by place, and none of them is two.
LEMMA PlaceOrders ==
  ASSUME NEW T \in Tables
  PROVE  /\ IsFiniteSet(T)
         /\ \A s \in T : ~Place(s, s)
         /\ \A s, t \in T : s = t \/ Place(s, t) \/ Place(t, s)
         /\ \A s, t, u \in T : Place(s, t) /\ Place(t, u) => Place(s, u)
<1>1. /\ IsFiniteSet(T)
      /\ \A s \in T : s.id \in Nat /\ s.file \in Nat /\ s.line \in Nat
      /\ \A s, t \in T : s.id = t.id /\ s.file = t.file /\ s.line = t.line => s = t
  BY SymbolAssumption
<1> QED
  BY <1>1 DEF Place

\* A set of symbols in the order of their places.
LEMMA PlacesInOrder ==
  ASSUME NEW T \in Tables, NEW S \in SUBSET T
  PROVE  ToSet(InOrder(S, Place)) = S
<1> DEFINE R == {p \in S \X S : Place(p[1], p[2])}
           P(x) == Cardinality({y \in S : Place(y, x)})
           s == InOrder(S, Place)
<1>1. IsFiniteSet(S)
  BY PlaceOrders, FS_Subset
<1>2. Orders(R, S)
  BY PlaceOrders DEF Orders
<1>3. ASSUME NEW x \in S PROVE Rank(R, S, x) = P(x)
  <2>1. {y \in S : Place(y, x)} = {y \in S : <<y, x>> \in R}
    OBVIOUS
  <2> QED
    BY <2>1 DEF Rank
<1>4. s = [i \in 1 .. Cardinality(S) |-> CHOOSE x \in S : P(x) = i - 1]
  BY DEF InOrder
<1> HIDE DEF R, s, P
<1>5. ASSUME NEW i \in 1 .. Cardinality(S) PROVE s[i] \in S /\ Rank(R, S, s[i]) = i - 1
  <2>1. \E x \in S : P(x) = i - 1
    BY <1>1, <1>2, <1>3, RankOnto
  <2>2. s[i] \in S /\ P(s[i]) = i - 1
    BY <1>4, <2>1
  <2> QED
    BY <1>3, <2>2
<1>6. s \in [1 .. Cardinality(S) -> S]
  BY <1>4, <1>5
<1> QED
  BY <1>1, <1>2, <1>5, <1>6, SortedIs DEF s

\* A symbol is listed before another one.
Ahead(q, T, s, t) ==
  \/ Score(q, T, s) > Score(q, T, t)
  \/ Score(q, T, s) = Score(q, T, t) /\ Place(s, t)

LEMMA ScoresAre ==
  ASSUME NEW T \in Tables, NEW q \in Searches, NEW s \in T PROVE Score(q, T, s) \in Nat
<1>1. s.inName \in Nat /\ s.inSignature \in Nat /\ s.inSummary \in Nat
  BY SymbolAssumption
<1>2. q.tool \in {"search", "related", "columns"}
  BY SymbolAssumption
<1>3. Centrality(T, s) \in Nat
  BY DEF Centrality
<1>4. Lexical(s) \in Nat
  BY <1>1 DEF Lexical
<1>5. SearchRank(q, T, s) \in Nat
  BY <1>3, <1>4 DEF SearchRank, SearchScore
<1>6. RelatedRank(q, s) \in Nat
  BY <1>1 DEF RelatedRank
<1>7. ColumnRank(s) \in Nat
  BY <1>1 DEF ColumnRank
<1> QED
  BY <1>2, <1>5, <1>6, <1>7 DEF Score

LEMMA AheadOrders ==
  ASSUME NEW T \in Tables, NEW q \in Searches
  PROVE  /\ \A s \in T : ~Ahead(q, T, s, s)
         /\ \A s, t \in T : s = t \/ Ahead(q, T, s, t) \/ Ahead(q, T, t, s)
         /\ \A s, t, u \in T : Ahead(q, T, s, t) /\ Ahead(q, T, t, u) => Ahead(q, T, s, u)
         /\ \A s, t \in T : Ahead(q, T, s, t) => Score(q, T, s) >= Score(q, T, t)
<1>1. \A s \in T : Score(q, T, s) \in Nat
  BY ScoresAre
<1> QED
  BY <1>1, PlaceOrders DEF Ahead

\* A list of symbols, each ahead of those after it.
IsRanked(q, T, s) ==
  /\ s \in Seq(T) /\ Len(s) \in Nat
  /\ \A i, j \in 1 .. Len(s) : i < j => Ahead(q, T, s[i], s[j])

LEMMA RankedIs ==
  ASSUME NEW T \in Tables, NEW q \in Searches PROVE IsRanked(q, T, Ranked(q, T))
<1> DEFINE F == {s \in T : s.name # 0}
           S == {s \in ToSet(Flattened(T)) : Score(q, T, s) > 0}
           Before(s, t) == \/ Score(q, T, s) > Score(q, T, t)
                           \/ Score(q, T, s) = Score(q, T, t) /\ Place(s, t)
           R == {p \in S \X S : Ahead(q, T, p[1], p[2])}
           P(x) == Cardinality({y \in S : Before(y, x)})
           r == InOrder(S, Before)
<1>1. ToSet(Flattened(T)) = F
  BY PlacesInOrder DEF Flattened
<1>2. S \in SUBSET T
  BY <1>1
<1>3. IsFiniteSet(S)
  BY <1>2, PlaceOrders, FS_Subset
<1>4. r = [i \in 1 .. Cardinality(S) |-> CHOOSE x \in S : P(x) = i - 1]
  BY DEF InOrder
<1>5. r = Ranked(q, T)
  BY DEF Ranked
<1> HIDE DEF S
<1>6. Orders(R, S)
  BY <1>2, AheadOrders DEF Orders
<1>7. ASSUME NEW x \in S PROVE Rank(R, S, x) = P(x)
  <2>1. {y \in S : Before(y, x)} = {y \in S : <<y, x>> \in R}
    BY DEF Ahead
  <2> QED
    BY <2>1 DEF Rank
<1>8. \A x, y \in S : <<x, y>> \in R => Ahead(q, T, x, y)
  OBVIOUS
<1> HIDE DEF R, r, P
<1>9. ASSUME NEW i \in 1 .. Cardinality(S) PROVE r[i] \in S /\ Rank(R, S, r[i]) = i - 1
  <2>1. \E x \in S : P(x) = i - 1
    BY <1>3, <1>6, <1>7, RankOnto
  <2>2. r[i] \in S /\ P(r[i]) = i - 1
    BY <1>4, <2>1
  <2> QED
    BY <1>7, <2>2
<1>10. r \in [1 .. Cardinality(S) -> S]
  BY <1>4, <1>9
<1>11. /\ r \in Seq(S) /\ Len(r) = Cardinality(S)
       /\ \A i, j \in 1 .. Cardinality(S) : i < j => <<r[i], r[j]>> \in R
  BY <1>3, <1>6, <1>9, <1>10, SortedIs
<1>12. \A i, j \in 1 .. Len(r) : i < j => Ahead(q, T, r[i], r[j])
  BY <1>8, <1>9, <1>11
<1>13. r \in Seq(T) /\ Len(r) \in Nat
  BY <1>2, <1>11
<1> QED
  BY <1>5, <1>12, <1>13 DEF IsRanked

LEMMA RankedTail ==
  ASSUME NEW T, NEW q, NEW s, IsRanked(q, T, s), s # <<>>
  PROVE  /\ IsRanked(q, T, Tail(s))
         /\ \A j \in 1 .. Len(Tail(s)) : Ahead(q, T, Head(s), Tail(s)[j])
<1>1. s \in Seq(T) /\ \A i, j \in 1 .. Len(s) : i < j => Ahead(q, T, s[i], s[j])
  BY DEF IsRanked
<1> DEFINE t == Tail(s)
           n == Len(s)
<1>2. /\ n \in Nat /\ n > 0 /\ Head(s) = s[1] /\ t \in Seq(T) /\ Len(t) = n - 1
      /\ \A i \in 1 .. n - 1 : t[i] = s[i + 1]
  BY <1>1, QueueParts
<1> HIDE DEF t, n
<1>3. \A i \in 1 .. Len(t) : i + 1 \in 1 .. n /\ t[i] = s[i + 1] /\ 1 < i + 1
  BY <1>2
<1>4. 1 \in 1 .. n /\ Len(t) \in Nat
  BY <1>2
<1>5. \A j \in 1 .. Len(t) : Ahead(q, T, Head(s), t[j])
  BY <1>1, <1>2, <1>3, <1>4 DEF n
<1>6. \A i, j \in 1 .. Len(t) : i < j => i + 1 < j + 1
  BY <1>4
<1>7. \A i, j \in 1 .. Len(t) : i < j => Ahead(q, T, t[i], t[j])
  BY <1>1, <1>3, <1>6 DEF n
<1> QED
  BY <1>2, <1>4, <1>5, <1>7 DEF IsRanked, t

LEMMA RankedAppend ==
  ASSUME NEW T, NEW q, NEW s, IsRanked(q, T, s), NEW x \in T,
         \A i \in 1 .. Len(s) : Ahead(q, T, s[i], x)
  PROVE  /\ IsRanked(q, T, Append(s, x)) /\ Len(Append(s, x)) = Len(s) + 1
         /\ \A i \in 1 .. Len(s) : Append(s, x)[i] = s[i]
         /\ Append(s, x)[Len(s) + 1] = x
         /\ ToSet(Append(s, x)) = ToSet(s) \cup {x}
<1> DEFINE t == Append(s, x)
           n == Len(s)
<1>1. /\ s \in Seq(T) /\ n \in Nat /\ \A i, j \in 1 .. n : i < j => Ahead(q, T, s[i], s[j])
  BY DEF IsRanked
<1>2. /\ t \in Seq(T) /\ Len(t) = n + 1 /\ DOMAIN t = 1 .. n + 1
      /\ \A i \in 1 .. n : t[i] = s[i]
      /\ t[n + 1] = x
  BY <1>1
<1>3. DOMAIN s = 1 .. n
  BY <1>1
<1> HIDE DEF t
<1>4. \A i, j \in 1 .. n + 1 : i < j => i \in 1 .. n /\ (j \in 1 .. n \/ j = n + 1)
  BY <1>1
<1>5. \A i \in 1 .. n : Ahead(q, T, s[i], x)
  OBVIOUS
<1> HIDE DEF n
<1>6. \A i, j \in 1 .. n + 1 : i < j => Ahead(q, T, t[i], t[j])
  BY <1>1, <1>2, <1>4, <1>5
<1>7. \A i \in 1 .. n + 1 : i \in 1 .. n \/ i = n + 1
  BY <1>1
<1>8. \A i \in 1 .. n : i \in 1 .. n + 1
  BY <1>1
<1>9. n + 1 \in 1 .. n + 1 /\ n + 1 \in Nat
  BY <1>1
<1>10. ToSet(t) = ToSet(s) \cup {x}
  BY <1>2, <1>3, <1>7, <1>8, <1>9 DEF ToSet
<1> QED
  BY <1>2, <1>6, <1>9, <1>10 DEF IsRanked, t, n

\* A ranked list has each symbol once.
LEMMA RankedOnce ==
  ASSUME NEW T \in Tables, NEW q \in Searches, NEW s, IsRanked(q, T, s)
  PROVE  Cardinality(ToSet(s)) = Len(s) /\ IsFiniteSet(ToSet(s))
<1>1. /\ s \in Seq(T) /\ \A i, j \in 1 .. Len(s) : i < j => Ahead(q, T, s[i], s[j])
  BY DEF IsRanked
<1>2. /\ Len(s) \in Nat /\ \A i \in 1 .. Len(s) : s[i] \in ToSet(s) /\ s[i] \in T
      /\ \A x \in ToSet(s) : \E i \in 1 .. Len(s) : s[i] = x
  BY <1>1, FewInSeq
<1> DEFINE n == Len(s)
           f == [i \in 1 .. n |-> s[i]]
<1>3. f \in Surjection(1 .. n, ToSet(s))
  BY <1>2 DEF Surjection
<1>4. \A i, j \in 1 .. n : i = j \/ i < j \/ j < i
  BY <1>2
<1>5. \A i, j \in 1 .. n : s[i] = s[j] => i = j
  BY <1>1, <1>2, <1>4, AheadOrders
<1>6. f \in Injection(1 .. n, ToSet(s))
  BY <1>2, <1>5 DEF Injection, IsInjective
<1>7. IsFiniteSet(1 .. n) /\ Cardinality(1 .. n) = n
  <2>1. n \in Nat /\ 1 \in Int /\ n \in Int
    BY <1>2
  <2> HIDE DEF n
  <2>2. IsFiniteSet(1 .. n) /\ Cardinality(1 .. n) = IF 1 > n THEN 0 ELSE n - 1 + 1
    BY <2>1, FS_Interval
  <2> QED
    BY <2>1, <2>2
<1> HIDE DEF f
<1> QED
  BY <1>3, <1>6, <1>7, FS_Surjection

-----------------------------------------------------------------------------
(* The invariant of the tools about symbols. *)

SymbolTypes ==
  /\ symbols \in Tables /\ other \in Tables
  /\ ask = [f \in DOMAIN AskIdle |-> ask[f]]

\* What a ranked answer is made of.
RankTypes ==
  ask.tool \in {"pack", "rank"} =>
    /\ ask.q \in Searches
    /\ answer = [f \in DOMAIN NoAnswer |-> answer[f]]
    /\ answer.matched \in SUBSET symbols /\ answer.used \in Nat
    /\ ToSet(answer.rows) \subseteq answer.matched
    /\ IsRanked(ask.q, symbols, answer.rows)

\* While packing, the rows are ahead of what is queued, and what is neither does not fit.
Packing ==
  ask.tool = "pack" =>
    /\ ask.q.budget > 0 /\ answer.used <= ask.q.budget
    /\ IsRanked(ask.q, symbols, ask.queue) /\ ToSet(ask.queue) \subseteq answer.matched
    /\ \A i \in 1 .. Len(answer.rows), j \in 1 .. Len(ask.queue) :
         Ahead(ask.q, symbols, answer.rows[i], ask.queue[j])
    /\ \A s \in answer.matched : \/ s \in ToSet(answer.rows) \/ s \in ToSet(ask.queue)
                                 \/ answer.used + Size(s) > ask.q.budget

Ranking == SymbolTypes /\ RankTypes /\ Packing /\ RankingHonest

LEMMA RankBegins ==
  ASSUME Ranking, NEW q \in Searches, RankSymbols(q) PROVE Ranking'
<1> DEFINE r == Ranked(q, symbols)
           cut == Cut(r, q)
<1>1. /\ symbols \in Tables /\ symbols' = symbols /\ other' = other
      /\ q.max \in Nat /\ q.budget \in Nat
  BY SymbolAssumption DEF Ranking, SymbolTypes, RankSymbols
<1>2. IsRanked(q, symbols, r)
  BY <1>1, RankedIs
<1>3. /\ ask' = [ask EXCEPT !.tool = IF q.budget > 0 THEN "pack" ELSE "rank", !.q = q, !.queue = r]
      /\ answer' = [NoAnswer EXCEPT !.matched = ToSet(r), !.rows = IF q.budget > 0 THEN <<>> ELSE cut,
                                    !.truncated = q.tool # "related" /\ Len(r) > q.max]
  BY DEF RankSymbols
<1> HIDE DEF r, cut
<1>4. /\ ask'.tool = (IF q.budget > 0 THEN "pack" ELSE "rank") /\ ask'.q = q /\ ask'.queue = r
      /\ ask' = [f \in DOMAIN AskIdle |-> ask'[f]]
  BY <1>3 DEF Ranking, SymbolTypes, AskIdle
<1>5. /\ answer'.matched = ToSet(r) /\ answer'.rows = (IF q.budget > 0 THEN <<>> ELSE cut)
      /\ answer'.truncated = (q.tool # "related" /\ Len(r) > q.max) /\ answer'.used = 0
      /\ answer' = [f \in DOMAIN NoAnswer |-> answer'[f]]
  BY <1>3 DEF NoAnswer
<1>6. /\ r \in Seq(symbols) /\ Len(r) \in Nat
      /\ \A i, j \in 1 .. Len(r) : i < j => Ahead(q, symbols, r[i], r[j])
  BY <1>2 DEF IsRanked
<1>7. /\ ToSet(r) \subseteq symbols /\ \A i \in 1 .. Len(r) : r[i] \in ToSet(r)
      /\ \A x \in ToSet(r) : \E i \in 1 .. Len(r) : r[i] = x
  BY <1>6, FewInSeq
<1>8. SymbolTypes'
  BY <1>1, <1>4 DEF Ranking, SymbolTypes
<1>9. ASSUME q.budget > 0 PROVE RankTypes' /\ Packing' /\ RankingHonest'
  <2>1. answer'.rows = <<>> /\ ask'.tool = "pack"
    BY <1>4, <1>5, <1>9
  <2>2. ToSet(answer'.rows) = {} /\ Len(answer'.rows) = 0
    BY <2>1 DEF ToSet
  <2>3. IsRanked(q, symbols, answer'.rows)
    BY <2>1, <2>2 DEF IsRanked
  <2>4. RankTypes'
    BY <1>1, <1>4, <1>5, <1>7, <2>1, <2>2, <2>3 DEF RankTypes
  <2>5. \A i \in 1 .. Len(answer'.rows) : FALSE
    BY <2>2
  <2>6. Packing'
    BY <1>1, <1>2, <1>4, <1>5, <1>9, <2>1, <2>5 DEF Packing
  <2> QED
    BY <2>1, <2>4, <2>6 DEF RankingHonest
<1>10. ASSUME ~(q.budget > 0) PROVE RankTypes' /\ Packing' /\ RankingHonest'
  <2>1. answer'.rows = cut /\ ask'.tool = "rank" /\ q.budget = 0
    BY <1>1, <1>4, <1>5, <1>10
  <2>2. IsStart(cut, symbols, r, q.max)
    BY <1>1, <1>6, Prefix DEF Cut, cut
  <2>3. /\ cut \in Seq(symbols) /\ Len(cut) \in Nat /\ Len(cut) <= q.max /\ Len(cut) <= Len(r)
        /\ ToSet(cut) \subseteq ToSet(r) /\ \A i \in 1 .. Len(cut) : cut[i] = r[i]
        /\ Len(r) <= q.max => cut = r
        /\ Len(r) > q.max => Len(cut) = q.max
    BY <2>2 DEF IsStart
  <2>4. \A i \in 1 .. Len(cut) : i \in 1 .. Len(r)
    BY <1>6, <2>3
  <2>5. \A i, j \in 1 .. Len(cut) : i < j => Ahead(q, symbols, cut[i], cut[j])
    BY <1>6, <2>3, <2>4
  <2>6. IsRanked(q, symbols, cut)
    BY <2>3, <2>5 DEF IsRanked
  <2>7. RankTypes' /\ Packing'
    BY <1>1, <1>4, <1>5, <1>7, <2>1, <2>3, <2>6 DEF RankTypes, Packing
  <2>8. /\ DOMAIN cut = 1 .. Len(cut) /\ \A i \in 1 .. Len(cut) : cut[i] \in ToSet(cut)
    BY <2>3, FewInSeq
  <2>9. \A i, j \in DOMAIN cut : i < j => Score(q, symbols, cut[i]) >= Score(q, symbols, cut[j])
    BY <1>1, <1>7, <2>3, <2>5, <2>8, AheadOrders
  <2>10. ASSUME NEW s \in ToSet(r) \ ToSet(cut), NEW i \in DOMAIN cut
         PROVE  Score(q, symbols, cut[i]) >= Score(q, symbols, s)
    <3>1. PICK j \in 1 .. Len(r) : r[j] = s
      BY <1>7
    <3>2. ~(j \in 1 .. Len(cut))
      BY <2>3, <2>8, <2>10, <3>1
    <3>3. i \in 1 .. Len(r) /\ i < j /\ cut[i] = r[i]
      BY <1>6, <2>3, <2>8, <3>2
    <3> QED
      BY <1>1, <1>6, <1>7, <3>1, <3>3, AheadOrders
  <2>11. Len(cut) < q.max \/ ~(Len(r) > q.max) => ToSet(r) \ ToSet(cut) = {}
    BY <1>1, <1>6, <2>3
  <2>12. LooksComplete(q)' => answer'.matched \ ToSet(answer'.rows) = {}
    <3>1. CASE q.tool = "related"
      BY <1>5, <2>1, <2>11, <3>1 DEF LooksComplete
    <3>2. CASE q.tool # "related"
      BY <1>5, <2>1, <2>11, <3>2 DEF LooksComplete
    <3> QED
      BY <3>1, <3>2
  <2> QED
    BY <1>1, <1>4, <1>5, <2>1, <2>3, <2>7, <2>9, <2>10, <2>12 DEF RankingHonest
<1> QED
  BY <1>8, <1>9, <1>10 DEF Ranking

LEMMA SizesAre ==
  ASSUME NEW T \in Tables, NEW s \in T PROVE Size(s) \in Nat
<1>1. s.size \in Nat
  BY SymbolAssumption
<1> QED
  BY <1>1 DEF Size

LEMMA PackKeeps ==
  ASSUME Ranking, Pack PROVE Ranking'
<1> DEFINE q == ask.q
           queue == ask.queue
           s == Head(queue)
           rest == Tail(queue)
           rows == answer.rows
           fits == answer.used + Size(s) <= q.budget
<1>1. /\ ask.tool = "pack" /\ queue # <<>> /\ symbols' = symbols /\ other' = other
      /\ ask' = [ask EXCEPT !.queue = rest]
      /\ answer' = IF fits THEN [answer EXCEPT !.rows = Append(rows, s), !.used = answer.used + Size(s)]
                   ELSE answer
  BY DEF Pack
<1>2. /\ symbols \in Tables /\ q \in Searches /\ q.budget \in Nat /\ q.budget > 0
      /\ answer.used \in Nat /\ answer.used <= q.budget /\ answer.matched \in SUBSET symbols
      /\ IsRanked(q, symbols, queue) /\ IsRanked(q, symbols, rows)
      /\ ToSet(queue) \subseteq answer.matched /\ ToSet(rows) \subseteq answer.matched
      /\ \A i \in 1 .. Len(rows), j \in 1 .. Len(queue) : Ahead(q, symbols, rows[i], queue[j])
      /\ \A t \in answer.matched : \/ t \in ToSet(rows) \/ t \in ToSet(queue)
                                   \/ answer.used + Size(t) > q.budget
  BY <1>1, SymbolAssumption DEF Ranking, SymbolTypes, RankTypes, Packing
<1>3. /\ ask'.tool = "pack" /\ ask'.q = q /\ ask'.queue = rest
      /\ ask' = [f \in DOMAIN AskIdle |-> ask'[f]]
  BY <1>1 DEF Ranking, SymbolTypes, AskIdle
<1>4. /\ answer'.matched = answer.matched
      /\ answer'.rows = (IF fits THEN Append(rows, s) ELSE rows)
      /\ answer'.used = (IF fits THEN answer.used + Size(s) ELSE answer.used)
      /\ answer' = [f \in DOMAIN NoAnswer |-> answer'[f]]
  <2>1. answer = [f \in DOMAIN NoAnswer |-> answer[f]]
    BY <1>1 DEF Ranking, RankTypes
  <2> HIDE DEF fits, s, rows
  <2> QED
    BY <1>1, <2>1 DEF NoAnswer, rows
<1> HIDE DEF q, queue, rows, fits, s, rest
<1>5. /\ IsRanked(q, symbols, rest) /\ \A j \in 1 .. Len(rest) : Ahead(q, symbols, s, rest[j])
  BY <1>1, <1>2, RankedTail DEF s, rest
<1>6. queue \in Seq(symbols) /\ rows \in Seq(symbols) /\ Len(rows) \in Nat
  BY <1>2 DEF IsRanked
<1>7. /\ s = queue[1] /\ s \in symbols /\ 1 \in 1 .. Len(queue)
      /\ Len(rest) = Len(queue) - 1 /\ Len(rest) \in Nat /\ Len(queue) \in Nat
      /\ \A i \in 1 .. Len(queue) - 1 : rest[i] = queue[i + 1]
      /\ ToSet(queue) = {s} \cup ToSet(rest)
  <2>1. /\ Len(queue) \in Nat /\ Len(queue) > 0 /\ s = queue[1] /\ s \in symbols
        /\ Len(rest) = Len(queue) - 1
        /\ \A i \in 1 .. Len(queue) - 1 : rest[i] = queue[i + 1]
        /\ ToSet(queue) = {s} \cup ToSet(rest)
    BY <1>1, <1>6, QueueParts DEF s, rest
  <2>2. 1 \in 1 .. Len(queue) /\ Len(rest) \in Nat
    BY <2>1
  <2> QED
    BY <2>1, <2>2
<1>8. Size(s) \in Nat
  BY <1>2, <1>7, SizesAre
<1>9. \A i \in 1 .. Len(rows), j \in 1 .. Len(rest) : Ahead(q, symbols, rows[i], rest[j])
  <2>1. \A j \in 1 .. Len(rest) : j + 1 \in 1 .. Len(queue) /\ rest[j] = queue[j + 1]
    BY <1>7
  <2> QED
    BY <1>2, <2>1
<1>10. SymbolTypes'
  BY <1>1, <1>2, <1>3 DEF Ranking, SymbolTypes
<1>11. CASE fits
  <2> DEFINE more == Append(rows, s)
  <2>1. \A i \in 1 .. Len(rows) : Ahead(q, symbols, rows[i], s)
    BY <1>2, <1>7
  <2>2. /\ IsRanked(q, symbols, more) /\ Len(more) = Len(rows) + 1
        /\ \A i \in 1 .. Len(rows) : more[i] = rows[i]
        /\ more[Len(rows) + 1] = s /\ ToSet(more) = ToSet(rows) \cup {s}
    BY <1>2, <1>7, <2>1, RankedAppend
  <2> HIDE DEF more
  <2>3. answer'.rows = more /\ answer'.used = answer.used + Size(s)
    BY <1>4, <1>11 DEF more
  <2>4. answer'.used \in Nat /\ answer'.used <= q.budget /\ answer'.used >= answer.used
    BY <1>2, <1>8, <1>11, <2>3 DEF fits
  <2>5. RankTypes'
    BY <1>1, <1>2, <1>3, <1>4, <1>7, <2>2, <2>3, <2>4 DEF RankTypes
  <2>6. \A i \in 1 .. Len(more) : i \in 1 .. Len(rows) \/ i = Len(rows) + 1
    BY <1>6, <2>2
  <2>7. \A i \in 1 .. Len(more), j \in 1 .. Len(rest) : Ahead(q, symbols, more[i], rest[j])
    BY <1>5, <1>9, <2>2, <2>6
  <2>8. ASSUME NEW t \in answer.matched
        PROVE  t \in ToSet(more) \/ t \in ToSet(rest) \/ answer'.used + Size(t) > q.budget
    <3>1. CASE t \in ToSet(rows) \/ t \in ToSet(queue)
      BY <1>7, <2>2, <3>1
    <3>2. CASE answer.used + Size(t) > q.budget
      <4>1. Size(t) \in Nat
        BY <1>2, SizesAre
      <4> QED
        BY <1>2, <2>4, <3>2, <4>1
    <3> QED
      BY <1>2, <3>1, <3>2
  <2>9. Packing'
    BY <1>1, <1>2, <1>3, <1>4, <1>5, <1>7, <2>3, <2>4, <2>7, <2>8, ZenonT(60) DEF Packing
  <2> QED
    BY <1>3, <1>10, <2>5, <2>9 DEF Ranking, RankingHonest
<1>12. CASE ~fits
  <2>1. answer'.rows = rows /\ answer'.used = answer.used
    BY <1>4, <1>12
  <2>2. RankTypes'
    BY <1>1, <1>2, <1>3, <1>4, <2>1 DEF RankTypes
  <2>3. answer.used + Size(s) > q.budget
    BY <1>2, <1>8, <1>12 DEF fits
  <2>4. \A t \in answer.matched : t \in ToSet(rows) \/ t \in ToSet(rest) \/ answer.used + Size(t) > q.budget
    BY <1>2, <1>7, <2>3
  <2>5. IsRanked(q, symbols, rest) /\ ToSet(rest) \subseteq answer.matched
    BY <1>2, <1>5, <1>7
  <2>6. Packing'
    BY <1>1, <1>2, <1>3, <1>4, <1>9, <2>1, <2>4, <2>5 DEF Packing
  <2> QED
    BY <1>3, <1>10, <2>2, <2>6 DEF Ranking, RankingHonest
<1> QED
  BY <1>11, <1>12

LEMMA PackEndsHonest ==
  ASSUME Ranking, PackEnds PROVE Ranking'
<1> DEFINE q == ask.q
           rows == answer.rows
<1>1. /\ ask.tool = "pack" /\ ask.queue = <<>> /\ symbols' = symbols /\ other' = other
      /\ ask' = [ask EXCEPT !.tool = "rank"]
      /\ answer' = [answer EXCEPT !.truncated = Cardinality(answer.matched) > Len(rows)]
  BY DEF PackEnds
<1>2. /\ symbols \in Tables /\ q \in Searches /\ q.budget \in Nat /\ q.budget > 0
      /\ q.tool = "search"
      /\ answer.used \in Nat /\ answer.used <= q.budget /\ answer.matched \in SUBSET symbols
      /\ IsRanked(q, symbols, rows) /\ ToSet(rows) \subseteq answer.matched
      /\ \A t \in answer.matched : \/ t \in ToSet(rows) \/ t \in ToSet(ask.queue)
                                   \/ answer.used + Size(t) > q.budget
  BY <1>1, SymbolAssumption DEF Ranking, SymbolTypes, RankTypes, Packing
<1>3. /\ ask'.tool = "rank" /\ ask'.q = q /\ ask' = [f \in DOMAIN AskIdle |-> ask'[f]]
  BY <1>1 DEF Ranking, SymbolTypes, AskIdle
<1>4. /\ answer'.matched = answer.matched /\ answer'.rows = rows /\ answer'.used = answer.used
      /\ answer'.truncated = (Cardinality(answer.matched) > Len(rows))
      /\ answer' = [f \in DOMAIN NoAnswer |-> answer'[f]]
  <2>1. answer = [f \in DOMAIN NoAnswer |-> answer[f]]
    BY <1>1 DEF Ranking, RankTypes
  <2> QED
    BY <1>1, <2>1 DEF NoAnswer
<1> HIDE DEF q, rows
<1>5. SymbolTypes' /\ RankTypes' /\ Packing'
  BY <1>1, <1>2, <1>3, <1>4 DEF Ranking, SymbolTypes, RankTypes, Packing
<1>6. /\ rows \in Seq(symbols) /\ Len(rows) \in Nat /\ DOMAIN rows = 1 .. Len(rows)
      /\ \A i, j \in 1 .. Len(rows) : i < j => Ahead(q, symbols, rows[i], rows[j])
      /\ \A i \in 1 .. Len(rows) : rows[i] \in symbols
  BY <1>2 DEF IsRanked
<1>7. \A i, j \in DOMAIN rows : i < j => Score(q, symbols, rows[i]) >= Score(q, symbols, rows[j])
  BY <1>2, <1>6, AheadOrders
<1>8. ASSUME ~(Cardinality(answer.matched) > Len(rows)) PROVE answer.matched \ ToSet(rows) = {}
  <2>1. Cardinality(ToSet(rows)) = Len(rows) /\ IsFiniteSet(ToSet(rows))
    BY <1>2, RankedOnce
  <2>2. IsFiniteSet(answer.matched)
    BY <1>2, PlaceOrders, FS_Subset
  <2>3. Cardinality(answer.matched) \in Nat /\ Cardinality(ToSet(rows)) <= Cardinality(answer.matched)
    BY <1>2, <2>2, FS_Subset, FS_CardinalityType
  <2>4. Cardinality(answer.matched) = Cardinality(ToSet(rows))
    BY <1>6, <1>8, <2>1, <2>3
  <2> QED
    BY <1>2, <2>2, <2>4, FS_Subset
<1>9. ToSet(ask.queue) = {}
  BY <1>1 DEF ToSet
<1>10. \A t \in answer.matched \ ToSet(rows) : answer.used + Size(t) > q.budget
  BY <1>2, <1>9
<1>11. RankingHonest'
  <2>1. answer'.used <= q.budget /\ ~(q.budget = 0)
    BY <1>2, <1>4
  <2>3. ~answer'.truncated => answer'.matched \ ToSet(answer'.rows) = {}
    BY <1>4, <1>8, Zenon
  <2>4. \A t \in answer'.matched \ ToSet(answer'.rows) : answer'.used + Size(t) > q.budget
    BY <1>4, <1>10
  <2>2. \A i, j \in DOMAIN answer'.rows :
          i < j => Score(q, symbols', answer'.rows[i]) >= Score(q, symbols', answer'.rows[j])
    BY <1>1, <1>4, <1>7
  <2>5. LooksComplete(ask.q)' => ~answer'.truncated
    BY <1>2, <1>3 DEF LooksComplete
  <2> QED
    BY <1>3, <2>1, <2>2, <2>3, <2>4, <2>5 DEF RankingHonest
<1> QED
  BY <1>5, <1>11 DEF Ranking

-----------------------------------------------------------------------------
(* The diff of two indexes. *)

\* Of the symbols of one name and kind, one is the first.
LEMMA FirstsAre ==
  ASSUME NEW T \in Tables
  PROVE  /\ Firsts(T) \in SUBSET T
         /\ \A s, t \in Firsts(T) : Identity(s) = Identity(t) => s = t
         /\ \A t \in T : \E s \in Firsts(T) : Identity(s) = Identity(t)
<1>1. ASSUME NEW s \in Firsts(T), NEW t \in Firsts(T), Identity(s) = Identity(t), s # t PROVE FALSE
  <2>1. s \in T /\ t \in T /\ Place(s, t) /\ Place(t, s)
    BY <1>1 DEF Firsts
  <2> QED
    BY <2>1, PlaceOrders
<1>2. ASSUME NEW t \in T PROVE \E s \in Firsts(T) : Identity(s) = Identity(t)
  <2> DEFINE S == {s \in T : Identity(s) = Identity(t)}
             R == {p \in S \X S : Place(p[1], p[2])}
  <2>1. IsFiniteSet(S) /\ S # {}
    BY PlaceOrders, FS_Subset
  <2>2. Orders(R, S)
    BY PlaceOrders DEF Orders
  <2>3. \A s \in S : s \in T /\ Identity(s) = Identity(t)
    OBVIOUS
  <2>4. \A s, u \in S : <<u, s>> \in R <=> Place(u, s)
    OBVIOUS
  <2>5. \A u \in T : Identity(u) = Identity(t) => u \in S
    OBVIOUS
  <2> HIDE DEF S, R
  <2>6. Cardinality(S) \in Nat /\ Cardinality(S) # 0
    BY <2>1, FS_CardinalityType, FS_EmptySet
  <2>7. 1 \in 1 .. Cardinality(S)
    BY <2>6
  <2>8. PICK s \in S : Rank(R, S, s) = 1 - 1
    BY <2>1, <2>2, <2>7, RankOnto
  <2> DEFINE B == {y \in S : <<y, s>> \in R}
  <2>9. IsFiniteSet(B)
    BY <2>1, FS_Subset
  <2>10. Cardinality(B) = 0
    BY <2>8 DEF Rank
  <2>11. B = {}
    BY <2>9, <2>10, FS_EmptySet
  <2>12. \A u \in S : u # s => Place(s, u)
    BY <2>3, <2>4, <2>11, PlaceOrders
  <2>13. s \in Firsts(T)
    BY <2>3, <2>5, <2>12 DEF Firsts
  <2> QED
    BY <2>3, <2>13
<1> QED
  BY <1>1, <1>2 DEF Firsts

\* The names and kinds of symbols.
Identities(T) == {Identity(s) : s \in T}

\* One pair for each name and kind that both have.
LEMMA PairsAre ==
  ASSUME NEW T \in Tables, NEW U \in Tables, NEW both,
         both = {p \in Firsts(T) \X Firsts(U) : Identity(p[1]) = Identity(p[2])}
  PROVE  IsFiniteSet(both) /\ Cardinality(both) = Cardinality(Identities(T) \cap Identities(U))
<1> DEFINE K == Identities(T) \cap Identities(U)
           f == [p \in both |-> Identity(p[1])]
<1>1. \A p \in both : /\ p[1] \in Firsts(T) /\ p[2] \in Firsts(U) /\ p = <<p[1], p[2]>>
                      /\ Identity(p[1]) = Identity(p[2])
  OBVIOUS
<1>2. \A p \in both : f[p] \in K
  BY <1>1, FirstsAre DEF Identities
<1>3. \A p, r \in both : f[p] = f[r] => p = r
  <2> SUFFICES ASSUME NEW p \in both, NEW r \in both, Identity(p[1]) = Identity(r[1]) PROVE p = r
    OBVIOUS
  <2>1. p[1] = r[1] /\ p[2] = r[2]
    BY <1>1, FirstsAre
  <2> QED
    BY <1>1, <2>1
<1>4. \A k \in K : \E p \in both : f[p] = k
  <2> SUFFICES ASSUME NEW k \in K PROVE \E p \in both : f[p] = k
    OBVIOUS
  <2>1. PICK s \in Firsts(T) : Identity(s) = k
    BY FirstsAre DEF Identities
  <2>2. PICK t \in Firsts(U) : Identity(t) = k
    BY FirstsAre DEF Identities
  <2>3. <<s, t>> \in both
    BY <2>1, <2>2
  <2> QED
    BY <2>1, <2>3
<1>5. f \in [both -> K]
  BY <1>2
<1>6. IsFiniteSet(both)
  <2>1. IsFiniteSet(Firsts(T)) /\ IsFiniteSet(Firsts(U))
    BY PlaceOrders, FirstsAre, FS_Subset
  <2>2. IsFiniteSet(Firsts(T) \X Firsts(U))
    BY <2>1, FS_Product
  <2>3. both \in SUBSET (Firsts(T) \X Firsts(U))
    OBVIOUS
  <2> QED
    BY <2>2, <2>3, FS_Subset
<1>7. f \in Surjection(both, K) /\ f \in Injection(both, K)
  BY <1>3, <1>4, <1>5 DEF Surjection, Injection, IsInjective
<1> HIDE DEF f, K
<1>8. Cardinality(K) = Cardinality(both)
  BY <1>6, <1>7, FS_Surjection
<1> QED
  BY <1>6, <1>8 DEF K

\* A diff has one entry for each name and kind.
IsDiff(d, T, U) ==
  /\ Identities(d.added) = Identities(U) \ Identities(T)
  /\ Identities(d.removed) = Identities(T) \ Identities(U)
  /\ Cardinality(d.changed) + d.unchanged = Cardinality(Identities(T) \cap Identities(U))

LEMMA DiffIs ==
  ASSUME NEW T \in Tables, NEW U \in Tables PROVE IsDiff(Diff(T, U), T, U)
<1> DEFINE A == Firsts(T)
           B == Firsts(U)
           both == {p \in A \X B : Identity(p[1]) = Identity(p[2])}
           C == {p \in both : Changed(p[1], p[2])}
           N == {p \in both : ~Changed(p[1], p[2])}
           added == {t \in B : \A s \in A : Identity(s) # Identity(t)}
           removed == {s \in A : \A t \in B : Identity(s) # Identity(t)}
<1>1. Diff(T, U) = [added |-> added, removed |-> removed, changed |-> C, unchanged |-> Cardinality(N)]
  BY DEF Diff
<1>2. IsFiniteSet(both) /\ Cardinality(both) = Cardinality(Identities(T) \cap Identities(U))
  BY PairsAre
<1>3. C \cap N = {} /\ C \cup N = both /\ C \in SUBSET both /\ N \in SUBSET both
  OBVIOUS
<1>4. /\ A \in SUBSET T /\ B \in SUBSET U
      /\ \A t \in T : \E s \in A : Identity(s) = Identity(t)
      /\ \A t \in U : \E s \in B : Identity(s) = Identity(t)
  BY FirstsAre
<1>5. Identities(added) = Identities(U) \ Identities(T)
  BY <1>4 DEF Identities
<1>6. Identities(removed) = Identities(T) \ Identities(U)
  BY <1>4 DEF Identities
<1> HIDE DEF C, N, both, added, removed
<1>7. Cardinality(C) + Cardinality(N) = Cardinality(both)
  <2>1. IsFiniteSet(C) /\ IsFiniteSet(N)
    BY <1>2, <1>3, FS_Subset
  <2>2. Cardinality(C \cup N) = Cardinality(C) + Cardinality(N) - Cardinality(C \cap N)
    BY <2>1, FS_Union
  <2>3. Cardinality(C \cap N) = 0
    BY <1>3, FS_EmptySet
  <2>4. Cardinality(C) \in Nat /\ Cardinality(N) \in Nat
    BY <2>1, FS_CardinalityType
  <2>5. Cardinality(both) = Cardinality(C) + Cardinality(N) - Cardinality(C \cap N)
    BY <1>3, <2>2, Zenon
  <2> QED
    BY <2>3, <2>4, <2>5
<1> QED
  BY <1>1, <1>2, <1>5, <1>6, <1>7 DEF IsDiff

Compared == ask.tool = "diff" => answer = Diff(symbols, other)

LEMMA DiffHolds ==
  ASSUME symbols \in Tables, other \in Tables, Compared PROVE DiffAccountsForAll
<1> SUFFICES ASSUME ask.tool = "diff" PROVE DiffAccountsForAll
  BY DEF DiffAccountsForAll
<1>1. IsDiff(answer, symbols, other)
  BY DiffIs DEF Compared
<1>2. \A T : Identities(T) = {<<s.name, s.kind>> : s \in T}
  BY DEF Identities, Identity
<1> QED
  BY <1>1, <1>2 DEF IsDiff, DiffAccountsForAll

-----------------------------------------------------------------------------
(* The class hierarchy. *)

LEMMA SetsAsSeqs ==
  ASSUME NEW S, IsFiniteSet(S)
  PROVE  SetToSeq(S) \in Seq(S) /\ ToSet(SetToSeq(S)) = S
<1> DEFINE n == Cardinality(S)
           f == SetToSeq(S)
<1>1. n \in Nat /\ ExistsBijection(1 .. n, S)
  BY FS_CardinalityType
<1>2. \E g \in [1 .. n -> S] : IsInjective(g)
  BY <1>1 DEF ExistsBijection, Bijection, Injection, IsInjective
<1>3. f \in [1 .. n -> S] /\ IsInjective(f)
  BY <1>2 DEF SetToSeq
<1>4. IsFiniteSet(1 .. n) /\ Cardinality(1 .. n) = n
  <2>1. 1 \in Int /\ n \in Int
    BY <1>1
  <2> HIDE DEF n
  <2>2. IsFiniteSet(1 .. n) /\ Cardinality(1 .. n) = IF 1 > n THEN 0 ELSE n - 1 + 1
    BY <2>1, FS_Interval
  <2> QED
    BY <1>1, <2>2
<1> HIDE DEF f
<1>5. f \in Injection(1 .. n, S)
  BY <1>3 DEF Injection, IsInjective
<1>6. f \in Surjection(1 .. n, S)
  BY <1>4, <1>5, FS_Injection
<1>7. f \in Seq(S) /\ DOMAIN f = 1 .. n
  BY <1>1, <1>3
<1>8. ToSet(f) = S
  <2> HIDE DEF n
  <2> QED
    BY <1>3, <1>6, <1>7 DEF ToSet, Surjection
<1> QED
  BY <1>7, <1>8 DEF f

\* What the steps F lead to from n: the smallest set closed under them.
Under(F, n) ==
  {c \in Classes : \A S \in SUBSET Classes :
     F[n] \subseteq S /\ (\A d \in S : F[d] \subseteq S) => c \in S}

\* A walk from n that has some classes yet to visit.
Stepping(F, n, seen, queue, out) ==
  /\ n \in seen /\ seen \subseteq Classes /\ out = seen \ {n}
  /\ queue \in Seq(Classes) /\ ToSet(queue) \subseteq Under(F, n) /\ out \subseteq Under(F, n)
  /\ \A d \in seen : F[d] \subseteq seen \cup ToSet(queue)

LEMMA UnderSteps ==
  ASSUME NEW F \in [Classes -> SUBSET Classes], NEW n \in Classes
  PROVE  F[n] \subseteq Under(F, n) /\ \A d \in Under(F, n) : F[d] \subseteq Under(F, n)
<1>1. ASSUME NEW d \in Under(F, n), NEW c \in F[d] PROVE c \in Under(F, n)
  <2>1. d \in Classes /\ c \in Classes
    BY <1>1 DEF Under
  <2>2. ASSUME NEW S \in SUBSET Classes, F[n] \subseteq S, \A e \in S : F[e] \subseteq S PROVE c \in S
    <3>1. d \in S
      BY <1>1, <2>2 DEF Under
    <3> QED
      BY <1>1, <2>2, <3>1
  <2> QED
    BY <2>1, <2>2 DEF Under
<1> QED
  BY <1>1 DEF Under

LEMMA StepsBegin ==
  ASSUME NEW F \in [Classes -> SUBSET Classes], NEW n \in Classes
  PROVE  Stepping(F, n, {n}, SetToSeq(F[n]), {})
<1>1. IsFiniteSet(F[n])
  BY SymbolAssumption, FS_Subset
<1> DEFINE q == SetToSeq(F[n])
<1>2. q \in Seq(F[n]) /\ ToSet(q) = F[n]
  BY <1>1, SetsAsSeqs
<1> HIDE DEF q
<1>3. q \in Seq(Classes)
  BY <1>2
<1> QED
  BY <1>2, <1>3, UnderSteps DEF Stepping, q

LEMMA StepsPass ==
  ASSUME NEW F \in [Classes -> SUBSET Classes], NEW n \in Classes, NEW seen, NEW queue, NEW out,
         Stepping(F, n, seen, queue, out), queue # <<>>, Head(queue) \in seen
  PROVE  Stepping(F, n, seen, Tail(queue), out)
<1>1. queue \in Seq(Classes)
  BY DEF Stepping
<1>2. Tail(queue) \in Seq(Classes) /\ ToSet(queue) = {Head(queue)} \cup ToSet(Tail(queue))
  BY <1>1, QueueParts
<1> QED
  BY <1>2 DEF Stepping

LEMMA StepsFollow ==
  ASSUME NEW F \in [Classes -> SUBSET Classes], NEW n \in Classes, NEW seen, NEW queue, NEW out,
         Stepping(F, n, seen, queue, out), queue # <<>>, Head(queue) \notin seen
  PROVE  Stepping(F, n, seen \cup {Head(queue)}, Tail(queue) \o SetToSeq(F[Head(queue)]),
                  out \cup {Head(queue)})
<1> DEFINE h == Head(queue)
           rest == Tail(queue)
           new == SetToSeq(F[h])
           all == rest \o new
<1>1. queue \in Seq(Classes)
  BY DEF Stepping
<1>2. rest \in Seq(Classes) /\ ToSet(queue) = {h} \cup ToSet(rest) /\ h \in Classes
  BY <1>1, QueueParts
<1>3. IsFiniteSet(F[h])
  BY <1>2, SymbolAssumption, FS_Subset
<1>4. new \in Seq(F[h]) /\ ToSet(new) = F[h]
  BY <1>3, SetsAsSeqs
<1> HIDE DEF h, rest, new
<1>5. new \in Seq(Classes)
  BY <1>2, <1>4
<1>6. IsJoined(all, Classes, rest, Classes, new)
  BY <1>2, <1>5, QueueJoined
<1> HIDE DEF all
<1>7. all \in Seq(Classes) /\ ToSet(all) = ToSet(rest) \cup F[h]
  BY <1>4, <1>6 DEF IsJoined
<1>8. h \in Under(F, n) /\ F[h] \subseteq Under(F, n)
  BY <1>2, UnderSteps DEF Stepping
<1>9. h # n /\ h \notin seen
  BY DEF Stepping, h
<1>10. Stepping(F, n, seen \cup {h}, all, out \cup {h})
  BY <1>2, <1>7, <1>8, <1>9 DEF Stepping
<1> QED
  BY <1>10 DEF all, rest, new, h

LEMMA StepsEnd ==
  ASSUME NEW F \in [Classes -> SUBSET Classes], NEW n \in Classes, NEW seen, NEW out,
         Stepping(F, n, seen, <<>>, out)
  PROVE  out = Under(F, n) \ {n}
<1>1. ToSet(<<>>) = {}
  BY DEF ToSet
<1>2. \A d \in seen : F[d] \subseteq seen
  BY <1>1 DEF Stepping
<1>3. Under(F, n) \subseteq seen
  BY <1>2 DEF Under, Stepping
<1> QED
  BY <1>3 DEF Stepping

\* The steps of a hierarchy in an index.
Upward(T) == [c \in Classes |-> Bases(T, c)]
Downward(T) == [c \in Classes |-> Children(T, c)]

LEMMA StepsAre ==
  ASSUME NEW T \in Tables
  PROVE  Upward(T) \in [Classes -> SUBSET Classes] /\ Downward(T) \in [Classes -> SUBSET Classes]
<1>1. \A s \in ClassSymbols(T) : s \in T /\ s.name \in Classes /\ s.bases \in Seq(Classes)
  BY SymbolAssumption DEF ClassSymbols
<1>2. \A s \in ClassSymbols(T) : ToSet(s.bases) \subseteq Classes
  BY <1>1, FewInSeq
<1>3. ASSUME NEW c \in Classes PROVE Bases(T, c) \subseteq Classes
  BY <1>2 DEF Bases, ClassOf
<1>4. ASSUME NEW c \in Classes PROVE Children(T, c) \subseteq Classes
  BY <1>1 DEF Children
<1> QED
  BY <1>3, <1>4 DEF Upward, Downward

\* Without two classes of one name, a step down is a step up the other way.
LEMMA StepsReverse ==
  ASSUME NEW T \in Tables, \A s, t \in ClassSymbols(T) : s.name = t.name => s = t,
         NEW c \in Classes, NEW d \in Downward(T)[c]
  PROVE  d \in Classes /\ c \in Upward(T)[d]
<1>1. d \in Classes
  BY StepsAre
<1>2. PICK t \in ClassSymbols(T) : c \in ToSet(t.bases) /\ t.name = d
  BY DEF Downward, Children
<1>3. t \in ClassOf(T, d)
  BY <1>2 DEF ClassOf
<1> QED
  BY <1>1, <1>2, <1>3 DEF Upward, Bases

LEMMA UnderReverses ==
  ASSUME NEW T \in Tables, \A s, t \in ClassSymbols(T) : s.name = t.name => s = t,
         NEW n \in Classes, NEW c \in Under(Downward(T), n)
  PROVE  n \in Under(Upward(T), c)
<1> DEFINE U == Upward(T)
           D == Downward(T)
           S == {e \in Classes : n \in Under(U, e)}
<1>1. U \in [Classes -> SUBSET Classes]
  BY StepsAre
<1>2. \A e \in Classes : \A d \in D[e] : d \in Classes /\ e \in U[d]
  BY StepsReverse
<1> HIDE DEF U, D
<1>3. ASSUME NEW d \in D[n] PROVE d \in S
  BY <1>1, <1>2, <1>3, UnderSteps
<1>4. ASSUME NEW e \in S, NEW d \in D[e] PROVE d \in S
  <2>1. d \in Classes /\ e \in U[d] /\ e \in Classes /\ n \in Under(U, e)
    BY <1>2, <1>4
  <2>2. ASSUME NEW X \in SUBSET Classes, U[d] \subseteq X, \A g \in X : U[g] \subseteq X PROVE n \in X
    <3>1. e \in X
      BY <2>1, <2>2
    <3>2. U[e] \subseteq X
      BY <2>2, <3>1
    <3> QED
      BY <2>1, <2>2, <3>2 DEF Under
  <2>3. n \in Under(U, d)
    BY <2>2 DEF Under
  <2> QED
    BY <2>1, <2>3
<1>5. S \in SUBSET Classes /\ D[n] \subseteq S /\ \A e \in S : D[e] \subseteq S
  BY <1>3, <1>4
<1> HIDE DEF S
<1>6. c \in S
  BY <1>5 DEF Under, D
<1> QED
  BY <1>6 DEF S, U

\* A hierarchy has followed the steps up, and then those down.
Climbing ==
  /\ ask.tool \in {"up", "down"} => ask.class \in Classes
  /\ ask.tool = "up" =>
       ask.down = {} /\ Stepping(Upward(symbols), ask.class, ask.seen, ask.queue, ask.up)
  /\ ask.tool = "down" =>
       /\ ask.up = Under(Upward(symbols), ask.class) \ {ask.class}
       /\ Stepping(Downward(symbols), ask.class, ask.seen, ask.queue, ask.down)

LEMMA ClimbKeeps ==
  ASSUME SymbolTypes, Climbing, Climb PROVE SymbolTypes' /\ Climbing' /\ ask'.tool = "up"
<1> DEFINE base == Head(ask.queue)
           F == Upward(symbols)
           more == Tail(ask.queue) \o SetToSeq(F[base])
<1>1. /\ ask.tool = "up" /\ ask.queue # <<>> /\ symbols' = symbols /\ other' = other
      /\ ask.class \in Classes /\ ask.down = {}
      /\ Stepping(F, ask.class, ask.seen, ask.queue, ask.up)
      /\ F \in [Classes -> SUBSET Classes]
  BY StepsAre DEF Climb, Climbing, SymbolTypes
<1>2. base \in Classes
  BY <1>1, QueueParts DEF Stepping
<1>3. F[base] = Bases(symbols, base)
  BY <1>2 DEF Upward
<1>4. ask' = IF base \in ask.seen THEN [ask EXCEPT !.queue = Tail(ask.queue)]
             ELSE [ask EXCEPT !.queue = more, !.seen = ask.seen \cup {base}, !.up = ask.up \cup {base}]
  <2>1. more = Tail(ask.queue) \o SetToSeq(Bases(symbols, base))
    BY <1>3
  <2> QED
    BY <2>1 DEF Climb
<1> HIDE DEF more, F, base
<1>5. /\ ask'.tool = "up" /\ ask'.class = ask.class /\ ask'.down = ask.down
      /\ ask'.queue = (IF base \in ask.seen THEN Tail(ask.queue) ELSE more)
      /\ ask'.seen = (IF base \in ask.seen THEN ask.seen ELSE ask.seen \cup {base})
      /\ ask'.up = (IF base \in ask.seen THEN ask.up ELSE ask.up \cup {base})
      /\ ask' = [f \in DOMAIN AskIdle |-> ask'[f]]
  BY <1>1, <1>4 DEF SymbolTypes, AskIdle
<1>6. SymbolTypes'
  BY <1>1, <1>5 DEF SymbolTypes
<1>7. CASE base \in ask.seen
  <2>1. Stepping(F, ask.class, ask.seen, Tail(ask.queue), ask.up)
    BY <1>1, <1>7, StepsPass DEF base
  <2> QED
    BY <1>1, <1>5, <1>6, <1>7, <2>1 DEF Climbing, F
<1>8. CASE base \notin ask.seen
  <2>1. Stepping(F, ask.class, ask.seen \cup {base}, more, ask.up \cup {base})
    BY <1>1, <1>8, StepsFollow DEF base, more
  <2> QED
    BY <1>1, <1>5, <1>6, <1>8, <2>1 DEF Climbing, F
<1> QED
  BY <1>5, <1>7, <1>8

LEMMA DescendKeeps ==
  ASSUME SymbolTypes, Climbing, Descend PROVE SymbolTypes' /\ Climbing' /\ ask'.tool = "down"
<1> DEFINE child == Head(ask.queue)
           F == Downward(symbols)
           more == Tail(ask.queue) \o SetToSeq(F[child])
<1>1. /\ ask.tool = "down" /\ ask.queue # <<>> /\ symbols' = symbols /\ other' = other
      /\ ask.class \in Classes /\ ask.up = Under(Upward(symbols), ask.class) \ {ask.class}
      /\ Stepping(F, ask.class, ask.seen, ask.queue, ask.down)
      /\ F \in [Classes -> SUBSET Classes]
  BY StepsAre DEF Descend, Climbing, SymbolTypes
<1>2. child \in Classes
  BY <1>1, QueueParts DEF Stepping
<1>3. F[child] = Children(symbols, child)
  BY <1>2 DEF Downward
<1>4. ask' = IF child \in ask.seen THEN [ask EXCEPT !.queue = Tail(ask.queue)]
             ELSE [ask EXCEPT !.queue = more, !.seen = ask.seen \cup {child},
                              !.down = ask.down \cup {child}]
  <2>1. more = Tail(ask.queue) \o SetToSeq(Children(symbols, child))
    BY <1>3
  <2> QED
    BY <2>1 DEF Descend
<1> HIDE DEF more, F, child
<1>5. /\ ask'.tool = "down" /\ ask'.class = ask.class /\ ask'.up = ask.up
      /\ ask'.queue = (IF child \in ask.seen THEN Tail(ask.queue) ELSE more)
      /\ ask'.seen = (IF child \in ask.seen THEN ask.seen ELSE ask.seen \cup {child})
      /\ ask'.down = (IF child \in ask.seen THEN ask.down ELSE ask.down \cup {child})
      /\ ask' = [f \in DOMAIN AskIdle |-> ask'[f]]
  BY <1>1, <1>4 DEF SymbolTypes, AskIdle
<1>6. SymbolTypes'
  BY <1>1, <1>5 DEF SymbolTypes
<1>7. CASE child \in ask.seen
  <2>1. Stepping(F, ask.class, ask.seen, Tail(ask.queue), ask.down)
    BY <1>1, <1>7, StepsPass DEF child
  <2> QED
    BY <1>1, <1>5, <1>6, <1>7, <2>1 DEF Climbing, F
<1>8. CASE child \notin ask.seen
  <2>1. Stepping(F, ask.class, ask.seen \cup {child}, more, ask.down \cup {child})
    BY <1>1, <1>8, StepsFollow DEF child, more
  <2> QED
    BY <1>1, <1>5, <1>6, <1>8, <2>1 DEF Climbing, F
<1> QED
  BY <1>5, <1>7, <1>8

LEMMA HierarchyStarts ==
  ASSUME SymbolTypes, NEW name \in Classes, StartHierarchy(name)
  PROVE  SymbolTypes' /\ Climbing' /\ ask'.tool = "up"
<1> DEFINE F == Upward(symbols)
<1>1. F \in [Classes -> SUBSET Classes] /\ F[name] = Bases(symbols, name)
  BY StepsAre DEF SymbolTypes, Upward
<1>2. /\ symbols' = symbols /\ other' = other /\ ask'.tool = "up" /\ ask'.class = name
      /\ ask'.seen = {name} /\ ask'.queue = SetToSeq(Bases(symbols, name)) /\ ask'.up = {} /\ ask'.down = {}
      /\ ask' = [f \in DOMAIN AskIdle |-> ask'[f]]
  BY DEF StartHierarchy, AskIdle
<1>3. Stepping(F, name, {name}, SetToSeq(F[name]), {})
  BY <1>1, StepsBegin
<1> QED
  BY <1>1, <1>2, <1>3 DEF SymbolTypes, Climbing

LEMMA HierarchyTurns ==
  ASSUME SymbolTypes, Climbing, TurnDown PROVE SymbolTypes' /\ Climbing' /\ ask'.tool = "down"
<1> DEFINE U == Upward(symbols)
           D == Downward(symbols)
<1>1. /\ ask.tool = "up" /\ ask.queue = <<>> /\ ask.class \in Classes /\ ask.down = {}
      /\ Stepping(U, ask.class, ask.seen, <<>>, ask.up)
      /\ U \in [Classes -> SUBSET Classes] /\ D \in [Classes -> SUBSET Classes]
  BY StepsAre DEF TurnDown, Climbing, SymbolTypes
<1>2. D[ask.class] = Children(symbols, ask.class)
  BY <1>1 DEF Downward
<1>3. /\ symbols' = symbols /\ other' = other /\ ask'.tool = "down" /\ ask'.class = ask.class
      /\ ask'.seen = {ask.class} /\ ask'.queue = SetToSeq(Children(symbols, ask.class))
      /\ ask'.up = ask.up /\ ask'.down = ask.down
      /\ ask' = [f \in DOMAIN AskIdle |-> ask'[f]]
  BY DEF TurnDown, SymbolTypes, AskIdle
<1> HIDE DEF U, D
<1>4. ask.up = Under(U, ask.class) \ {ask.class}
  BY <1>1, StepsEnd
<1>5. Stepping(D, ask.class, {ask.class}, SetToSeq(D[ask.class]), {})
  BY <1>1, StepsBegin
<1> QED
  BY <1>1, <1>2, <1>3, <1>4, <1>5 DEF SymbolTypes, Climbing, U, D

\* What has been climbed at the end is what the hierarchy answers with.
LEMMA ClimbedAll ==
  ASSUME SymbolTypes, Climbing, HierarchyDone PROVE Exact
<1> DEFINE U == Upward(symbols)
           D == Downward(symbols)
           above(c) == Bases(symbols, c)
           below(c) == Children(symbols, c)
<1>1. /\ ask.class \in Classes /\ symbols \in Tables /\ ask.up = Under(U, ask.class) \ {ask.class}
      /\ Stepping(D, ask.class, ask.seen, <<>>, ask.down)
      /\ U \in [Classes -> SUBSET Classes] /\ D \in [Classes -> SUBSET Classes]
  BY StepsAre DEF HierarchyDone, Climbing, SymbolTypes
<1>2. \A c \in Classes : U[c] = above(c) /\ D[c] = below(c)
  BY DEF Upward, Downward
<1> HIDE DEF U, D, above, below
<1>3. ask.down = Under(D, ask.class) \ {ask.class}
  BY <1>1, StepsEnd
<1>4. ASSUME NEW c \in Classes PROVE Closure(above, c) = Under(U, c)
  <2>1. U[c] = above(c) /\ \A S \in SUBSET Classes : \A d \in S : U[d] = above(d)
    BY <1>2, <1>4
  <2> QED
    BY <2>1 DEF Closure, Under
<1>5. Closure(below, ask.class) = Under(D, ask.class)
  <2>1. D[ask.class] = below(ask.class) /\ \A S \in SUBSET Classes : \A d \in S : D[d] = below(d)
    BY <1>1, <1>2
  <2> QED
    BY <2>1 DEF Closure, Under
<1>6. ASSUME \A s, t \in ClassSymbols(symbols) : s.name = t.name => s = t, NEW c \in ask.down
      PROVE  ask.class \in Closure(above, c)
  <2>1. c \in Under(D, ask.class) /\ c \in Classes
    BY <1>3, <1>6 DEF Under
  <2>2. ask.class \in Under(U, c)
    BY <1>1, <1>6, <2>1, UnderReverses DEF U, D
  <2> QED
    BY <1>4, <2>1, <2>2
<1>7. ask.up = Closure(above, ask.class) \ {ask.class} /\ ask.down = Closure(below, ask.class) \ {ask.class}
  BY <1>1, <1>3, <1>4, <1>5
<1> QED
  BY <1>6, <1>7 DEF Exact, above, below

-----------------------------------------------------------------------------
(* Context bundles. *)

\* All entries so far have the imports that the first worker stored.
Shared ==
  /\ \A a, b \in importCache : a = b
  /\ \A e \in entries : e.imports \in importCache

LEMMA LookupShares ==
  ASSUME Shared, NEW w \in Workers, LookupImports(w) PROVE Shared'
<1>1. importCache' = importCache
  BY DEF LookupImports
<1>2. CASE importCache # {}
  <2>1. PICK imports \in importCache : BundleEntry(w, imports)
    BY <1>2 DEF LookupImports
  <2>2. \A e \in entries' : e \in entries \/ e.imports = imports
    BY <2>1 DEF BundleEntry
  <2> QED
    BY <1>1, <2>2 DEF Shared
<1>3. CASE importCache = {}
  BY <1>1, <1>3 DEF LookupImports, Shared
<1> QED
  BY <1>2, <1>3

LEMMA ExtractShares ==
  ASSUME Shared, NEW w \in Workers, ExtractImports(w) PROVE Shared'
<1>1. PICK imports \in importCache' : BundleEntry(w, imports)
  BY DEF ExtractImports
<1>2. \A e \in entries' : e \in entries \/ e.imports = imports
  BY <1>1 DEF BundleEntry
<1>3. importCache' = IF importCache = {} THEN {BundleImports(worker[w].read)} ELSE importCache
  BY DEF ExtractImports
<1>4. importCache \subseteq importCache' /\ \A a, b \in importCache' : a = b
  BY <1>3 DEF Shared
<1> QED
  BY <1>1, <1>2, <1>4 DEF Shared

SymbolInvariant == Ranking /\ Compared /\ Climbing /\ Shared

LEMMA SymbolsBegin == SymbolInit => SymbolInvariant
<1> SUFFICES ASSUME SymbolInit PROVE SymbolInvariant
  OBVIOUS
<1>1. ask.tool = "none" /\ ask = [f \in DOMAIN AskIdle |-> ask[f]]
  BY DEF SymbolInit, AskIdle
<1>2. Ranking
  BY <1>1 DEF SymbolInit, Ranking, SymbolTypes, RankTypes, Packing, RankingHonest
<1>3. Compared /\ Climbing
  BY <1>1 DEF Compared, Climbing
<1>4. Shared
  BY DEF SymbolInit, Shared
<1> QED
  BY <1>2, <1>3, <1>4 DEF SymbolInvariant

\* A call of another tool leaves nothing to say of a ranking.
LEMMA NoRanking ==
  ASSUME SymbolTypes', ask'.tool \notin {"pack", "rank"} PROVE Ranking'
<1> QED
  BY DEF Ranking, RankTypes, Packing, RankingHonest

\* The workers of a bundle do not touch the other tools.
LEMMA OthersKeep ==
  ASSUME SymbolInvariant, UNCHANGED <<symbols, other, ask, answer>>
  PROVE  Ranking' /\ Compared' /\ Climbing'
<1>1. symbols' = symbols /\ other' = other /\ ask' = ask /\ answer' = answer
  OBVIOUS
<1>2. SymbolTypes'
  BY <1>1 DEF SymbolInvariant, Ranking, SymbolTypes
<1>3. RankTypes'
  BY <1>1 DEF SymbolInvariant, Ranking, RankTypes
<1>4. Packing'
  BY <1>1 DEF SymbolInvariant, Ranking, Packing
<1>5. RankingHonest'
  BY <1>1 DEF SymbolInvariant, Ranking, RankingHonest, LooksComplete
<1>6. Compared' /\ Climbing'
  BY <1>1 DEF SymbolInvariant, Compared, Climbing
<1> QED
  BY <1>2, <1>3, <1>4, <1>5, <1>6 DEF Ranking

LEMMA BundleKeeps ==
  ASSUME SymbolInvariant, NEW w \in Workers,
         \/ \E id \in jobs : TakeSymbol(w, id)
         \/ LookupImports(w) \/ LookupContent(w) \/ StoreContent(w) \/ ExtractImports(w)
  PROVE  SymbolInvariant'
<1>1. UNCHANGED <<symbols, other, ask, answer>>
  BY DEF TakeSymbol, LookupImports, LookupContent, StoreContent, ExtractImports
<1>2. Shared'
  <2>1. ASSUME UNCHANGED <<importCache, entries>> PROVE Shared'
    BY <2>1 DEF SymbolInvariant, Shared
  <2>2. CASE LookupImports(w)
    BY <2>2, LookupShares DEF SymbolInvariant
  <2>3. CASE ExtractImports(w)
    BY <2>3, ExtractShares DEF SymbolInvariant
  <2> QED
    BY <2>1, <2>2, <2>3 DEF TakeSymbol, LookupContent, StoreContent
<1> QED
  BY <1>1, <1>2, OthersKeep DEF SymbolInvariant

LEMMA SymbolSteps == SymbolInvariant /\ [SymbolNext]_symbolVars => SymbolInvariant'
<1> SUFFICES ASSUME SymbolInvariant, [SymbolNext]_symbolVars PROVE SymbolInvariant'
  OBVIOUS
<1>1. ASSUME UNCHANGED <<importCache, entries>> PROVE Shared'
  BY <1>1 DEF SymbolInvariant, Shared
<1>2. SymbolTypes /\ Climbing
  BY DEF SymbolInvariant, Ranking
<1>3. CASE UNCHANGED symbolVars
  BY <1>1, <1>3, OthersKeep DEF symbolVars, SymbolInvariant
<1>4. ASSUME NEW q \in Searches, RankSymbols(q) PROVE SymbolInvariant'
  <2>1. Ranking'
    BY <1>4, RankBegins DEF SymbolInvariant
  <2>2. UNCHANGED <<importCache, entries>>
    BY <1>4 DEF RankSymbols, bundleVars
  <2>3. ask'.tool \in {"pack", "rank"}
    BY <1>2, <1>4 DEF RankSymbols, SymbolTypes, AskIdle
  <2> QED
    BY <1>1, <2>1, <2>2, <2>3 DEF SymbolInvariant, Compared, Climbing
<1>5. CASE Pack \/ PackEnds
  <2>1. Ranking'
    BY <1>5, PackKeeps, PackEndsHonest DEF SymbolInvariant
  <2>2. UNCHANGED <<importCache, entries>>
    BY <1>5 DEF Pack, PackEnds, bundleVars
  <2>3. ask'.tool \in {"pack", "rank"}
    BY <1>2, <1>5 DEF Pack, PackEnds, SymbolTypes, AskIdle
  <2> QED
    BY <1>1, <2>1, <2>2, <2>3 DEF SymbolInvariant, Compared, Climbing
<1>6. CASE CompareIndexes
  <2>1. /\ symbols' = symbols /\ other' = other /\ answer' = Diff(symbols, other)
        /\ UNCHANGED <<importCache, entries>>
    BY <1>6 DEF CompareIndexes, bundleVars
  <2>2. ask'.tool = "diff" /\ SymbolTypes'
    BY <1>2, <1>6 DEF CompareIndexes, SymbolTypes, AskIdle
  <2>3. Ranking'
    BY <2>2, NoRanking
  <2>4. Compared' /\ Climbing'
    BY <2>1, <2>2 DEF Compared, Climbing
  <2> QED
    BY <1>1, <2>1, <2>3, <2>4 DEF SymbolInvariant
<1>7. ASSUME NEW name \in Classes, StartHierarchy(name) PROVE SymbolInvariant'
  <2>1. SymbolTypes' /\ Climbing' /\ ask'.tool = "up"
    BY <1>2, <1>7, HierarchyStarts
  <2>2. UNCHANGED <<importCache, entries>>
    BY <1>7 DEF StartHierarchy, bundleVars
  <2> QED
    BY <1>1, <2>1, <2>2, NoRanking DEF SymbolInvariant, Compared
<1>8. CASE HierarchyStep
  <2>1. SymbolTypes' /\ Climbing' /\ ask'.tool \in {"up", "down"}
    BY <1>2, <1>8, ClimbKeeps, HierarchyTurns, DescendKeeps DEF HierarchyStep
  <2>2. UNCHANGED <<importCache, entries>>
    BY <1>8 DEF HierarchyStep, Climb, TurnDown, Descend, bundleVars
  <2> QED
    BY <1>1, <2>1, <2>2, NoRanking DEF SymbolInvariant, Compared
<1>9. ASSUME NEW ids \in Bundles, StartBundle(ids) PROVE SymbolInvariant'
  <2>1. ask'.tool = "bundle" /\ SymbolTypes'
    BY <1>2, <1>9 DEF StartBundle, SymbolTypes, AskIdle
  <2>2. UNCHANGED <<importCache, entries>>
    BY <1>9 DEF StartBundle
  <2> QED
    BY <1>1, <2>1, <2>2, NoRanking DEF SymbolInvariant, Compared, Climbing
<1>10. ASSUME NEW content \in Texts0, EditBundled(content) PROVE SymbolInvariant'
  BY <1>1, <1>10, OthersKeep DEF EditBundled, SymbolInvariant
<1> QED
  BY <1>3, <1>4, <1>5, <1>6, <1>7, <1>8, <1>9, <1>10, BundleKeeps DEF SymbolNext

LEMMA SymbolHolds == SymbolSpec => []SymbolInvariant
<1> QED
  BY SymbolsBegin, SymbolSteps, PTL DEF SymbolSpec

LEMMA SymbolsAnswered ==
  SymbolInvariant =>
    RankingHonest /\ DiffAccountsForAll /\ OneImportListPerFile /\ (HierarchyDone => Exact)
<1> SUFFICES ASSUME SymbolInvariant
             PROVE  RankingHonest /\ DiffAccountsForAll /\ OneImportListPerFile /\ (HierarchyDone => Exact)
  OBVIOUS
<1>1. OneImportListPerFile
  BY DEF SymbolInvariant, Shared, OneImportListPerFile
<1>2. SymbolTypes /\ symbols \in Tables /\ other \in Tables
  BY DEF SymbolInvariant, Ranking, SymbolTypes
<1>3. DiffAccountsForAll
  BY <1>2, DiffHolds DEF SymbolInvariant
<1>4. HierarchyDone => Exact
  BY <1>2, ClimbedAll DEF SymbolInvariant
<1> QED
  BY <1>1, <1>3, <1>4 DEF SymbolInvariant, Ranking

-----------------------------------------------------------------------------
(* The service. *)

RetrievalInvariant == GraphInvariant /\ SymbolInvariant /\ TextInvariant

\* Each tool's step is a stutter of the others.
LEMMA RetrievalSteps == RetrievalInvariant /\ [RetrievalNext]_retrievalVars => RetrievalInvariant'
<1> SUFFICES ASSUME RetrievalInvariant, [RetrievalNext]_retrievalVars PROVE RetrievalInvariant'
  OBVIOUS
<1>1. [GraphNext]_graphVars /\ [SymbolNext]_symbolVars /\ [TextNext]_textVars
  BY Zenon DEF RetrievalNext, retrievalVars
<1> QED
  BY <1>1, GraphSteps, SymbolSteps, TextSteps DEF RetrievalInvariant

LEMMA RetrievalHolds == RetrievalSpec => []RetrievalInvariant
<1>1. RetrievalInit => RetrievalInvariant
  BY GraphBegins, SymbolsBegin, TextBegins DEF RetrievalInit, RetrievalInvariant
<1> QED
  BY <1>1, RetrievalSteps, PTL DEF RetrievalSpec

\* Whatever is edited while a tool reads files, its answer is one between what they were and
\* what they became: graphs, verdicts, lexical lines and import lists
\* (handleGetDependencyGraph, handleGetBlastRadius, handleCheckReferences, handleSearchText,
\* loadContextBundleImports).
THEOREM ReadsAreBetween == RetrievalSpec => []ReadsBetweenSnapshots
<1>1. RetrievalInvariant => ReadsBetweenSnapshots
  BY GraphAnswered, VerdictsHold, TextAnswered, SymbolsAnswered
     DEF RetrievalInvariant, ReadsBetweenSnapshots
<1> QED
  BY <1>1, RetrievalHolds, PTL

\* An answer that was ranked, packed, merged or compared has everything it must have before
\* what it has (handleSearchSymbols, rankHybridSearchTextCandidates, handleGetSymbolDiff).
THEOREM AnswersAreComplete == RetrievalSpec => []NothingLeftOut
<1>1. RetrievalInvariant => NothingLeftOut
  BY SymbolsAnswered, HybridHolds DEF RetrievalInvariant, NothingLeftOut
<1> QED
  BY <1>1, RetrievalHolds, PTL

\* A hierarchy that is answered has all ancestors and all descendants and nothing else,
\* however inheritance is tangled (handleGetClassHierarchy).
THEOREM HierarchyIsExact == RetrievalSpec => [](HierarchyDone => Exact)
<1>1. RetrievalInvariant => (HierarchyDone => Exact)
  BY SymbolsAnswered DEF RetrievalInvariant
<1> QED
  BY <1>1, RetrievalHolds, PTL
=============================================================================
