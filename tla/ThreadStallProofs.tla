------------------------- MODULE ThreadStallProofs -------------------------
(***************************************************************************)
(* Facts about the queues of stalled threads that the servers' proofs      *)
(* share: how many distinct threads fit in a queue, and what the elements  *)
(* taken from some positions of a queue are.                               *)
(***************************************************************************)
EXTENDS ThreadStall, FiniteSetTheorems, SequenceTheorems, TLAPS

Rank(W, i) == Cardinality({j \in W : j <= i})

\* The positions of a queue can be counted in order: every position of W has
\* its own rank, and every rank up to the size of W belongs to one.
LEMMA RankFacts ==
  ASSUME NEW n \in Nat, NEW W \in SUBSET (1..n)
  PROVE  /\ IsFiniteSet(W) /\ Cardinality(W) \in Nat
         /\ \A i \in W : Rank(W, i) \in 1..Cardinality(W)
         /\ \A i, j \in W : i < j => Rank(W, i) < Rank(W, j)
         /\ \A k \in 1..Cardinality(W) : \E i \in W : Rank(W, i) = k
<1>1. IsFiniteSet(W) /\ Cardinality(W) \in Nat
  <2>1. IsFiniteSet(1..n)
    BY FS_Interval
  <2>2. QED
    BY <2>1, FS_Subset, FS_CardinalityType
<1> DEFINE B(i) == {j \in W : j <= i}
           N == Cardinality(W)
<1>a. \A i \in W : i \in Int
  OBVIOUS
<1>2. \A i \in W : IsFiniteSet(B(i)) /\ Cardinality(B(i)) \in Nat
                   /\ Cardinality(B(i)) <= N
  <2> TAKE i \in W
  <2>1. B(i) \in SUBSET W
    OBVIOUS
  <2>2. QED
    BY <1>1, <2>1, FS_Subset, FS_CardinalityType
<1>3. \A i \in W : Cardinality(B(i)) \in 1..N
  <2> TAKE i \in W
  <2>1. i \in B(i)
    BY DEF B
  <2>2. Cardinality(B(i)) # 0
    BY <1>2, <2>1, FS_EmptySet
  <2>3. QED
    BY <1>1, <1>2, <2>2
<1>4. \A i, j \in W : i < j => Cardinality(B(i)) < Cardinality(B(j))
  <2> SUFFICES ASSUME NEW i \in W, NEW j \in W, i < j
               PROVE  Cardinality(B(i)) < Cardinality(B(j))
    OBVIOUS
  <2>1. B(i) \in SUBSET B(j)
    <3>1. \A x \in W : x <= i => x <= j
      BY <1>a
    <3>2. QED
      BY <3>1
  <2>2. j \in B(j) /\ j \notin B(i)
    BY <1>a
  <2>3. B(i) # B(j)
    BY <2>2
  <2>4. Cardinality(B(i)) <= Cardinality(B(j)) /\ Cardinality(B(j)) # Cardinality(B(i))
    BY <1>2, <2>1, <2>3, FS_Subset
  <2>5. QED
    BY <1>2, <2>4
<1>5. \A k \in 1..N : \E i \in W : Cardinality(B(i)) = k
  <2> DEFINE f == [i \in W |-> Cardinality(B(i))]
  <2>1. f \in [W -> 1..N]
    BY <1>3
  <2>2. \A i, j \in W : f[i] = f[j] => i = j
    <3> SUFFICES ASSUME NEW i \in W, NEW j \in W, i # j
                 PROVE  f[i] # f[j]
      OBVIOUS
    <3>1. i < j \/ j < i
      OBVIOUS
    <3>2. Cardinality(B(i)) < Cardinality(B(j)) \/ Cardinality(B(j)) < Cardinality(B(i))
      BY <1>4, <3>1
    <3>3. Cardinality(B(i)) # Cardinality(B(j))
      BY <1>2, <3>2
    <3>4. QED
      BY <3>3
  <2>3. f \in Injection(W, 1..N)
    BY <2>1, <2>2 DEF Injection, IsInjective
  <2>4. IsFiniteSet(1..N) /\ Cardinality(1..N) = N
    BY <1>1, FS_Interval
  <2>5. f \in Surjection(W, 1..N)
    BY <2>3, <2>4, FS_Injection
  <2>6. QED
    BY <2>5 DEF Surjection
<1>6. QED
  BY <1>1, <1>3, <1>4, <1>5 DEF Rank

\* Nth enumerates the positions of W in increasing order, each once.
LEMMA NthFacts ==
  ASSUME NEW n \in Nat, NEW W \in SUBSET (1..n)
  PROVE  /\ Cardinality(W) \in Nat
         /\ \A k \in 1..Cardinality(W) : Nth(W, k) \in W
         /\ \A k, l \in 1..Cardinality(W) : k < l => Nth(W, k) < Nth(W, l)
         /\ \A i \in W : \E k \in 1..Cardinality(W) : Nth(W, k) = i
<1>1. Cardinality(W) \in Nat
  BY RankFacts
<1>a. \A i \in W : i \in Int
  OBVIOUS
<1>2. \A k \in 1..Cardinality(W) : Nth(W, k) \in W /\ Rank(W, Nth(W, k)) = k
  <2> TAKE k \in 1..Cardinality(W)
  <2>1. \E i \in W : Rank(W, i) = k
    BY RankFacts
  <2>2. Nth(W, k) = CHOOSE i \in W : Rank(W, i) = k
    BY DEF Nth, Rank
  <2>3. QED
    BY <2>1, <2>2
<1>3. \A k, l \in 1..Cardinality(W) : k < l => Nth(W, k) < Nth(W, l)
  <2> SUFFICES ASSUME NEW k \in 1..Cardinality(W), NEW l \in 1..Cardinality(W),
                      k < l, ~(Nth(W, k) < Nth(W, l))
               PROVE  FALSE
    OBVIOUS
  <2> DEFINE a == Nth(W, k)
             b == Nth(W, l)
  <2>1. a \in W /\ b \in W /\ Rank(W, a) = k /\ Rank(W, b) = l
    BY <1>2
  <2>2. a \in Int /\ b \in Int
    BY <2>1, <1>a, Zenon
  <2>3. a = b \/ b < a
    BY <2>2
  <2>4. a # b
    BY <2>1
  <2> HIDE DEF a, b
  <2>5. Rank(W, b) < Rank(W, a)
    BY <2>1, <2>3, <2>4, RankFacts
  <2>6. QED
    BY <2>1, <2>5
<1>4. \A i \in W : \E k \in 1..Cardinality(W) : Nth(W, k) = i
  <2> SUFFICES ASSUME NEW i \in W
               PROVE  \E k \in 1..Cardinality(W) : Nth(W, k) = i
    OBVIOUS
  <2> DEFINE k == Rank(W, i)
             j == Nth(W, k)
  <2>1. k \in 1..Cardinality(W)
    BY RankFacts
  <2>2. j \in W /\ Rank(W, j) = k
    BY <1>2, <2>1
  <2>a. /\ \A x, y \in W : x < y => Rank(W, x) < Rank(W, y)
        /\ Cardinality(W) \in Nat
    BY RankFacts
  <2> HIDE DEF j
  <2>3. ~(i < j) /\ ~(j < i)
    <3>1. k \in Nat
      BY <2>1, <2>a
    <3>2. QED
      BY <2>a, <2>2, <3>1
  <2>4. i = j
    BY <2>2, <2>3, <1>a
  <2>5. QED
    BY <2>1, <2>4 DEF j
<1>5. QED
  BY <1>1, <1>2, <1>3, <1>4

\* A nonempty set of positions has a first one.
LEMMA FirstPosition ==
  ASSUME NEW n \in Nat, NEW W \in SUBSET (1..n), W # {}
  PROVE  \E i \in W : \A j \in W : i <= j
<1> DEFINE N == Cardinality(W)
<1>a. \A i \in W : i \in Int
  OBVIOUS
<1>b. /\ N \in Nat
      /\ \A k, l \in 1..N : k < l => Nth(W, k) < Nth(W, l)
      /\ \A i \in W : \E k \in 1..N : Nth(W, k) = i
  BY NthFacts
<1> HIDE DEF N
<1>1. PICK x \in W : TRUE
  OBVIOUS
<1>2. N \in Nat /\ N >= 1
  <2>1. PICK k \in 1..N : Nth(W, k) = x
    BY <1>b
  <2>2. QED
    BY <1>b
<1>3. Nth(W, 1) \in W
  BY <1>2, NthFacts DEF N
<1>4. ASSUME NEW j \in W PROVE Nth(W, 1) <= j
  <2>1. PICK k \in 1..N : Nth(W, k) = j
    BY <1>b
  <2>2. k = 1 \/ 1 < k
    BY <1>2
  <2>3. Nth(W, 1) \in Int /\ j \in Int
    BY <1>3, <1>a, Zenon
  <2>4. 1 < k => Nth(W, 1) < Nth(W, k)
    BY <1>2, <1>b
  <2>5. QED
    BY <2>1, <2>2, <2>3, <2>4
<1>5. QED
  BY <1>3, <1>4

\* What InOrder takes from a queue: a queue of the same kind of elements,
\* that are those at the positions of W, each taken once.
LEMMA InOrderFacts ==
  ASSUME NEW S, NEW q \in Seq(S), NEW W \in SUBSET (DOMAIN q)
  PROVE  /\ InOrder(q, W) \in Seq(S)
         /\ DOMAIN InOrder(q, W) = 1..Cardinality(W)
         /\ \A k \in DOMAIN InOrder(q, W) :
               Nth(W, k) \in W /\ InOrder(q, W)[k] = q[Nth(W, k)]
         /\ \A k, l \in DOMAIN InOrder(q, W) : Nth(W, k) = Nth(W, l) => k = l
         /\ \A i \in W : \E k \in DOMAIN InOrder(q, W) : InOrder(q, W)[k] = q[i]
<1>1. Len(q) \in Nat /\ DOMAIN q = 1..Len(q)
  BY LenProperties
<1>2. W \in SUBSET (1..Len(q))
  BY <1>1
<1>3. /\ Cardinality(W) \in Nat
      /\ \A k \in 1..Cardinality(W) : Nth(W, k) \in W
      /\ \A k, l \in 1..Cardinality(W) : k < l => Nth(W, k) < Nth(W, l)
      /\ \A i \in W : \E k \in 1..Cardinality(W) : Nth(W, k) = i
  BY <1>1, <1>2, NthFacts
<1>4. \A i \in W : q[i] \in S /\ i \in Int
  BY <1>1, <1>2, ElementOfSeq
<1>5. InOrder(q, W) \in [1..Cardinality(W) -> S]
  BY <1>3, <1>4 DEF InOrder
<1>6. InOrder(q, W) \in Seq(S)
  BY <1>3, <1>5, SeqDef
<1>7. \A k, l \in 1..Cardinality(W) : Nth(W, k) = Nth(W, l) => k = l
  <2> SUFFICES ASSUME NEW k \in 1..Cardinality(W), NEW l \in 1..Cardinality(W),
                      k # l
               PROVE  Nth(W, k) # Nth(W, l)
    OBVIOUS
  <2>1. k < l \/ l < k
    BY <1>3
  <2>2. Nth(W, k) \in Int /\ Nth(W, l) \in Int
    BY <1>3, <1>4
  <2>3. QED
    BY <1>3, <2>1, <2>2
<1>8. QED
  BY <1>3, <1>5, <1>6, <1>7 DEF InOrder

\* x waits in queue q, and q holds nothing twice.
In(q, x) == \E i \in DOMAIN q : q[i] = x
Distinct(q) == \A i, j \in DOMAIN q : q[i] = q[j] => i = j

\* Who is in the queue that InOrder takes from q.
LEMMA InInOrder ==
  ASSUME NEW S, NEW q \in Seq(S), NEW W \in SUBSET (DOMAIN q)
  PROVE  /\ \A x : In(InOrder(q, W), x) <=> \E i \in W : q[i] = x
         /\ Distinct(q) => Distinct(InOrder(q, W))
<1> DEFINE r == InOrder(q, W)
<1>1. /\ \A k \in DOMAIN r : Nth(W, k) \in W /\ r[k] = q[Nth(W, k)]
      /\ \A k, l \in DOMAIN r : Nth(W, k) = Nth(W, l) => k = l
      /\ \A i \in W : \E k \in DOMAIN r : r[k] = q[i]
  BY InOrderFacts
<1> HIDE DEF r
<1>2. \A x : In(r, x) <=> \E i \in W : q[i] = x
  BY <1>1, Zenon DEF In
<1>3. ASSUME Distinct(q) PROVE Distinct(r)
  <2> SUFFICES ASSUME NEW k \in DOMAIN r, NEW l \in DOMAIN r, r[k] = r[l]
               PROVE  k = l
    BY DEF Distinct
  <2>1. Nth(W, k) \in DOMAIN q /\ Nth(W, l) \in DOMAIN q
    BY <1>1
  <2>2. q[Nth(W, k)] = q[Nth(W, l)]
    BY <1>1
  <2>3. Nth(W, k) = Nth(W, l)
    BY <1>3, <2>1, <2>2 DEF Distinct
  <2>4. QED
    BY <1>1, <2>3
<1>4. QED
  BY <1>2, <1>3 DEF r

\* The end of a queue: push_back.
LEMMA JoinQueue ==
  ASSUME NEW S, NEW q \in Seq(S), NEW e \in S
  PROVE  /\ Append(q, e) \in Seq(S)
         /\ Len(Append(q, e)) = Len(q) + 1
         /\ \A x : In(Append(q, e), x) <=> In(q, x) \/ x = e
         /\ Distinct(q) /\ ~In(q, e) => Distinct(Append(q, e))
<1> DEFINE r == Append(q, e)
<1>1. /\ r \in Seq(S) /\ Len(r) = Len(q) + 1 /\ Len(q) \in Nat
      /\ DOMAIN q = 1..Len(q) /\ DOMAIN r = 1..(Len(q) + 1)
      /\ \A i \in 1..Len(q) : r[i] = q[i]
      /\ r[Len(q) + 1] = e
  BY AppendProperties, LenProperties
<1> HIDE DEF r
<1>2. /\ \A i \in DOMAIN r : i \in DOMAIN q \/ i = Len(q) + 1
      /\ \A i \in DOMAIN q : i \in DOMAIN r
      /\ Len(q) + 1 \in DOMAIN r
      /\ \A i \in DOMAIN q : r[i] = q[i]
  BY <1>1
<1>3. \A x : In(r, x) <=> In(q, x) \/ x = e
  BY <1>1, <1>2, Zenon DEF In
<1>4. ASSUME Distinct(q), ~In(q, e) PROVE Distinct(r)
  BY <1>1, <1>2, <1>4, Zenon DEF In, Distinct
<1>5. QED
  BY <1>1, <1>3, <1>4 DEF r

\* The front of a queue: pop_front.
LEMMA LeaveQueue ==
  ASSUME NEW S, NEW q \in Seq(S), q # <<>>
  PROVE  /\ Head(q) \in S /\ In(q, Head(q))
         /\ Tail(q) \in Seq(S) /\ Len(Tail(q)) = Len(q) - 1
         /\ Distinct(q) => /\ Distinct(Tail(q))
                           /\ \A x : In(Tail(q), x) <=> In(q, x) /\ x # Head(q)
<1> DEFINE r == Tail(q)
<1>1. /\ Head(q) \in S /\ Head(q) = q[1] /\ Len(q) \in Nat /\ Len(q) # 0
      /\ DOMAIN q = 1..Len(q)
      /\ r \in Seq(S) /\ Len(r) = Len(q) - 1 /\ DOMAIN r = 1..(Len(q) - 1)
      /\ \A i \in 1..(Len(q) - 1) : r[i] = q[i + 1]
  <2>1. /\ Head(q) \in S /\ r \in Seq(S) /\ Len(r) = Len(q) - 1
        /\ \A i \in 1..Len(r) : r[i] = q[i + 1]
    BY HeadTailProperties
  <2>2. Len(q) \in Nat /\ DOMAIN q = 1..Len(q) /\ Len(q) # 0
    BY LenProperties, EmptySeq
  <2>3. DOMAIN r = 1..Len(r)
    BY <2>1, LenProperties
  <2>4. Head(q) = q[1]
    BY <2>2
  <2>5. QED
    BY <2>1, <2>2, <2>3, <2>4
<1> HIDE DEF r
<1>2. /\ \A i \in DOMAIN r : i + 1 \in DOMAIN q /\ i + 1 # 1 /\ i \in Int
      /\ \A i \in DOMAIN q : i = 1 \/ (i - 1 \in DOMAIN r /\ r[i - 1] = q[i])
      /\ 1 \in DOMAIN q
      /\ \A i \in DOMAIN r : r[i] = q[i + 1]
  BY <1>1
<1>3. ASSUME Distinct(q)
      PROVE  Distinct(r) /\ \A x : In(r, x) <=> In(q, x) /\ x # Head(q)
  <2>1. \A x : In(r, x) => In(q, x) /\ x # Head(q)
    <3> SUFFICES ASSUME NEW i \in DOMAIN r
                 PROVE  In(q, r[i]) /\ r[i] # Head(q)
      BY DEF In
    <3>1. r[i] = q[i + 1] /\ i + 1 \in DOMAIN q /\ i + 1 # 1
      BY <1>2
    <3>2. QED
      BY <3>1, <1>1, <1>2, <1>3, Zenon DEF In, Distinct
  <2>2. \A x : In(q, x) /\ x # Head(q) => In(r, x)
    BY <1>1, <1>2, Zenon DEF In
  <2>3. \A i, j \in DOMAIN r : r[i] = r[j] => i + 1 = j + 1
    BY <1>2, <1>3 DEF Distinct
  <2>4. Distinct(r)
    BY <1>2, <2>3 DEF Distinct
  <2>5. QED
    BY <2>1, <2>2, <2>4
<1>4. In(q, Head(q))
  BY <1>1, <1>2 DEF In
<1>5. QED
  BY <1>1, <1>3, <1>4 DEF r

\* The first n elements are gone.
LEMMA DropQueue ==
  ASSUME NEW S, NEW q \in Seq(S), NEW n \in 0..Len(q)
  PROVE  /\ SubSeq(q, n + 1, Len(q)) \in Seq(S)
         /\ Distinct(q) => Distinct(SubSeq(q, n + 1, Len(q)))
         /\ \A x : In(SubSeq(q, n + 1, Len(q)), x) <=>
                      \E i \in (n + 1)..Len(q) : q[i] = x
<1> DEFINE r == SubSeq(q, n + 1, Len(q))
<1>1. /\ r \in Seq(S) /\ Len(q) \in Nat /\ DOMAIN q = 1..Len(q)
      /\ DOMAIN r = 1..(Len(q) - n)
      /\ \A i \in 1..(Len(q) - n) : r[i] = q[n + i]
  <2>1. Len(q) \in Nat /\ DOMAIN q = 1..Len(q)
    BY LenProperties
  <2>2. n + 1 \in 1..(Len(q) + 1) /\ Len(q) \in n..Len(q) /\ Len(q) - (n + 1) + 1 = Len(q) - n
    BY <2>1
  <2>3. /\ r \in Seq(S) /\ Len(r) = IF n + 1 <= Len(q) THEN Len(q) - (n + 1) + 1 ELSE 0
        /\ \A i \in 1..(Len(q) - (n + 1) + 1) : r[i] = q[(n + 1) + i - 1]
    BY <2>1, <2>2, SubSeqProperties
  <2>a. n \in Int /\ n <= Len(q)
    BY <2>1
  <2>b. n + 1 <= Len(q) \/ n = Len(q)
    <3>1. \A l \in Nat, k \in Int : k <= l => k + 1 <= l \/ k = l
      OBVIOUS
    <3>2. QED
      BY <2>1, <2>a, <3>1, Zenon
  <2>4. Len(r) = Len(q) - n
    <3>1. CASE n + 1 <= Len(q)
      BY <2>2, <2>3, <3>1
    <3>2. CASE n = Len(q)
      <4>1. ~(n + 1 <= Len(q)) /\ Len(q) - n = 0
        BY <3>2, <2>1, <2>a
      <4>2. QED
        BY <2>3, <4>1
    <3>3. QED
      BY <2>b, <3>1, <3>2
  <2>5. DOMAIN r = 1..Len(r)
    BY <2>3, LenProperties
  <2> HIDE DEF r
  <2>6. \A i \in 1..(Len(q) - n) : r[i] = q[n + i]
    <3> TAKE i \in 1..(Len(q) - n)
    <3>1. (n + 1) + i - 1 = n + i
      BY <2>a
    <3>2. QED
      BY <2>2, <2>3, <3>1
  <2>7. QED
    BY <2>1, <2>3, <2>4, <2>5, <2>6
<1> HIDE DEF r
<1>2. /\ \A i \in DOMAIN r : n + i \in (n + 1)..Len(q) /\ n + i \in DOMAIN q /\ r[i] = q[n + i]
      /\ \A i \in (n + 1)..Len(q) : i - n \in DOMAIN r /\ r[i - n] = q[i]
  BY <1>1
<1>3. \A x : In(r, x) <=> \E i \in (n + 1)..Len(q) : q[i] = x
  BY <1>2, Zenon DEF In
<1>4. ASSUME Distinct(q) PROVE Distinct(r)
  <2>1. \A i, j \in DOMAIN r : r[i] = r[j] => n + i = n + j
    BY <1>2, <1>4, Zenon DEF Distinct
  <2>2. \A i \in DOMAIN r : i \in Int
    BY <1>1
  <2>3. QED
    BY <2>1, <2>2 DEF Distinct
<1>5. QED
  BY <1>1, <1>3, <1>4 DEF r

\* One queue is put behind another.
LEMMA JoinQueues ==
  ASSUME NEW S, NEW q \in Seq(S), NEW r \in Seq(S)
  PROVE  /\ q \o r \in Seq(S)
         /\ \A x : In(q \o r, x) <=> In(q, x) \/ In(r, x)
         /\ Distinct(q) /\ Distinct(r) /\ (\A x : ~(In(q, x) /\ In(r, x)))
              => Distinct(q \o r)
<1> DEFINE s == q \o r
<1>1. /\ s \in Seq(S) /\ Len(s) = Len(q) + Len(r)
      /\ Len(q) \in Nat /\ Len(r) \in Nat
      /\ DOMAIN q = 1..Len(q) /\ DOMAIN r = 1..Len(r)
      /\ DOMAIN s = 1..(Len(q) + Len(r))
      /\ \A i \in 1..(Len(q) + Len(r)) :
            s[i] = IF i <= Len(q) THEN q[i] ELSE r[i - Len(q)]
  <2>1. /\ s \in Seq(S) /\ Len(s) = Len(q) + Len(r)
        /\ \A i \in 1..(Len(q) + Len(r)) :
              s[i] = IF i <= Len(q) THEN q[i] ELSE r[i - Len(q)]
    BY ConcatProperties
  <2>2. /\ Len(q) \in Nat /\ Len(r) \in Nat
        /\ DOMAIN q = 1..Len(q) /\ DOMAIN r = 1..Len(r)
    BY LenProperties
  <2>3. DOMAIN s = 1..Len(s)
    BY <2>1, LenProperties
  <2>4. QED
    BY <2>1, <2>2, <2>3
<1> HIDE DEF s
<1>2. /\ \A i \in DOMAIN s : \/ i \in DOMAIN q /\ s[i] = q[i]
                             \/ i - Len(q) \in DOMAIN r /\ s[i] = r[i - Len(q)]
      /\ \A i \in DOMAIN q : i \in DOMAIN s /\ s[i] = q[i]
      /\ \A i \in DOMAIN r : i + Len(q) \in DOMAIN s /\ s[i + Len(q)] = r[i]
  <2>1. ASSUME NEW i \in DOMAIN s
        PROVE  \/ i \in DOMAIN q /\ s[i] = q[i]
               \/ i - Len(q) \in DOMAIN r /\ s[i] = r[i - Len(q)]
    BY <1>1
  <2>2. ASSUME NEW i \in DOMAIN q PROVE i \in DOMAIN s /\ s[i] = q[i]
    BY <1>1
  <2>3. ASSUME NEW i \in DOMAIN r
        PROVE  i + Len(q) \in DOMAIN s /\ s[i + Len(q)] = r[i]
    <3>1. /\ i + Len(q) \in 1..(Len(q) + Len(r)) /\ ~(i + Len(q) <= Len(q))
          /\ (i + Len(q)) - Len(q) = i
      BY <1>1
    <3>2. QED
      BY <1>1, <3>1
  <2>4. QED
    BY <2>1, <2>2, <2>3
<1>3. \A x : In(s, x) <=> In(q, x) \/ In(r, x)
  BY <1>2, Zenon DEF In
<1>4. ASSUME Distinct(q), Distinct(r), \A x : ~(In(q, x) /\ In(r, x))
      PROVE  Distinct(s)
  <2> SUFFICES ASSUME NEW i \in DOMAIN s, NEW j \in DOMAIN s, s[i] = s[j]
               PROVE  i = j
    BY DEF Distinct
  <2>1. CASE i \in DOMAIN q /\ s[i] = q[i] /\ j \in DOMAIN q /\ s[j] = q[j]
    BY <2>1, <1>4 DEF Distinct
  <2>2. CASE /\ i - Len(q) \in DOMAIN r /\ s[i] = r[i - Len(q)]
             /\ j - Len(q) \in DOMAIN r /\ s[j] = r[j - Len(q)]
    <3>1. i - Len(q) = j - Len(q)
      BY <2>2, <1>4 DEF Distinct
    <3>2. QED
      BY <3>1, <1>1
  <2>3. CASE /\ i \in DOMAIN q /\ s[i] = q[i]
             /\ j - Len(q) \in DOMAIN r /\ s[j] = r[j - Len(q)]
    BY <2>3, <1>4, Zenon DEF In
  <2>4. CASE /\ j \in DOMAIN q /\ s[j] = q[j]
             /\ i - Len(q) \in DOMAIN r /\ s[i] = r[i - Len(q)]
    BY <2>4, <1>4, Zenon DEF In
  <2>5. QED
    BY <1>2, <2>1, <2>2, <2>3, <2>4
<1>5. QED
  BY <1>1, <1>3, <1>4 DEF s

\* Nobody waits in an empty queue.
LEMMA EmptyQueue ==
  /\ \A x : ~In(<<>>, x)
  /\ Distinct(<<>>)
  BY DEF In, Distinct

\* A queue that nobody waits in is empty.
LEMMA NobodyIn ==
  ASSUME NEW S, NEW q \in Seq(S), \A x \in S : ~In(q, x)
  PROVE  q = <<>>
<1> SUFFICES ASSUME q # <<>> PROVE FALSE
  OBVIOUS
<1>1. Head(q) \in S /\ In(q, Head(q))
  BY LeaveQueue
<1>2. QED
  BY <1>1

\* A queue of distinct threads is no longer than there are threads, and one
\* that lacks a single thread holds all the others.
LEMMA QueueBound ==
  ASSUME NEW T, IsFiniteSet(T), NEW q \in Seq(T),
         Distinct(q)
  PROVE  /\ Len(q) <= Cardinality(T)
         /\ \A t \in T : ~In(q, t) =>
               /\ Len(q) < Cardinality(T)
               /\ Len(q) = Cardinality(T) - 1 =>
                     \A v \in T \ {t} : In(q, v)
<1>1. Len(q) \in Nat /\ DOMAIN q = 1..Len(q) /\ q \in [1..Len(q) -> T]
  BY LenProperties
<1>2. IsFiniteSet(1..Len(q)) /\ Cardinality(1..Len(q)) = Len(q)
  BY <1>1, FS_Interval
<1>3. q \in Injection(1..Len(q), T)
  BY <1>1 DEF Injection, IsInjective, Distinct
<1>4. Len(q) <= Cardinality(T)
  BY <1>2, <1>3, FS_Injection
<1>5. ASSUME NEW t \in T, ~In(q, t)
      PROVE  /\ Len(q) < Cardinality(T)
             /\ Len(q) = Cardinality(T) - 1 =>
                     \A v \in T \ {t} : In(q, v)
  <2>1. q \in [1..Len(q) -> T \ {t}]
    BY <1>1, <1>5 DEF In
  <2>2. q \in Injection(1..Len(q), T \ {t})
    BY <1>3, <2>1 DEF Injection, IsInjective
  <2>3. /\ IsFiniteSet(T \ {t}) /\ Cardinality(T \ {t}) = Cardinality(T) - 1
        /\ Cardinality(T) \in Nat
    BY FS_RemoveElement, FS_CardinalityType
  <2>4. /\ Len(q) <= Cardinality(T \ {t})
        /\ Len(q) = Cardinality(T \ {t}) => q \in Surjection(1..Len(q), T \ {t})
    BY <1>2, <2>2, <2>3, FS_Injection
  <2>5. Len(q) < Cardinality(T)
    BY <1>1, <2>3, <2>4
  <2>6. QED
    BY <1>1, <2>3, <2>4, <2>5 DEF Surjection, In
<1>6. QED
  BY <1>4, <1>5
=============================================================================
