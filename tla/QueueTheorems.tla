----------------------------- MODULE QueueTheorems -----------------------------
(* Facts about inserting into and removing from a queue held as a sequence,  *)
(* used in the proofs about the kernel's linked queues: what the queue       *)
(* contains afterwards, that no element occurs twice, and that it stays      *)
(* sorted by a key; and about sums over finite sets, used in the proofs      *)
(* about memory in use.                                                      *)
EXTENDS Integers, Sequences, SequencesExt, SequenceTheorems, FiniteSetTheorems,
        TLAPS, WellFoundedInduction

\* The queue is sorted by the key f.
SortedBy(q, f) == \A i, j \in 1..Len(q) : i < j => f[q[i]] <= f[q[j]]

\* A nonempty set of naturals has a least element, which Min picks: the
\* kernel's searches for a first free slot or a first larger entry succeed.
LEMMA MinOfNaturals ==
  ASSUME NEW S \in SUBSET Nat, S # {}
  PROVE  Min(S) \in S /\ \A y \in S : Min(S) <= y
<1>1. PICK x \in S : \A y \in S : ~(<<y, x>> \in OpToRel(<, Nat))
  BY WFMin, NatLessThanWellFounded
<1>2. ASSUME NEW y \in S, y < x PROVE FALSE
  <2>1. <<y, x>> \in Nat \X Nat
    OBVIOUS
  <2>2. <<y, x>> \in OpToRel(<, Nat)
    BY <1>2, <2>1 DEF OpToRel
  <2> QED BY <1>1, <2>2
<1>3. \A y \in S : x <= y
  BY <1>2
<1> QED BY <1>3 DEF Min

-----------------------------------------------------------------------------
\* r is q, of n elements, with t put at position k.
Inserted(S, n, q, k, t, r) ==
  /\ n \in Nat /\ q \in [1..n -> S] /\ k \in 1..(n + 1) /\ t \in S
  /\ r \in [1..(n + 1) -> S]
  /\ \A j \in 1..(n + 1) : r[j] = IF j < k THEN q[j] ELSE IF j = k THEN t ELSE q[j - 1]

\* r is q, of n elements, without its k-th element.
Removed(S, n, q, k, r) ==
  /\ n \in Nat /\ q \in [1..n -> S] /\ k \in 1..n
  /\ r \in [1..(n - 1) -> S]
  /\ \A j \in 1..(n - 1) : r[j] = IF j < k THEN q[j] ELSE q[j + 1]

Occurs(n, q, s) == \E j \in 1..n : q[j] = s
Once(n, q)      == \A i, j \in 1..n : q[i] = q[j] => i = j
Ordered(n, q, f) == \A i, j \in 1..n : i < j => f[q[i]] <= f[q[j]]

\* Insertion adds t and keeps the elements different when t is new.
LEMMA InsertPositions ==
  ASSUME NEW S, NEW n, NEW q, NEW k, NEW t, NEW r, Inserted(S, n, q, k, t, r)
  PROVE  /\ \A s : Occurs(n + 1, r, s) <=> Occurs(n, q, s) \/ s = t
         /\ Once(n, q) /\ ~Occurs(n, q, t) => Once(n + 1, r)
<1>0. /\ n \in Nat /\ q \in [1..n -> S] /\ k \in 1..(n + 1) /\ t \in S
      /\ r \in [1..(n + 1) -> S]
      /\ \A j \in 1..(n + 1) : r[j] = IF j < k THEN q[j] ELSE IF j = k THEN t ELSE q[j - 1]
  BY DEF Inserted
<1>1. ASSUME NEW s, NEW j \in 1..n, q[j] = s PROVE \E i \in 1..(n + 1) : r[i] = s
  <2>1. CASE j < k
    BY <1>0, <1>1, <2>1
  <2>2. CASE j >= k
    <3>1. j + 1 \in 1..(n + 1) /\ r[j + 1] = q[j]
      BY <1>0, <2>2
    <3> QED BY <1>1, <3>1
  <2> QED BY <1>0, <2>1, <2>2
<1>2. ASSUME NEW s, NEW j \in 1..(n + 1), r[j] = s, s # t PROVE \E i \in 1..n : q[i] = s
  <2>1. CASE j < k
    BY <1>0, <1>2, <2>1
  <2>2. CASE j > k
    <3>1. j - 1 \in 1..n /\ r[j] = q[j - 1]
      BY <1>0, <2>2
    <3> QED BY <1>2, <3>1
  <2> QED BY <1>0, <1>2, <2>1, <2>2
<1>3. k \in 1..(n + 1) /\ r[k] = t
  BY <1>0
<1>4. (\A i, j \in 1..n : q[i] = q[j] => i = j) /\ (\A j \in 1..n : q[j] # t)
      => \A i, j \in 1..(n + 1) : r[i] = r[j] => i = j
  BY <1>0
<1> QED BY <1>1, <1>2, <1>3, <1>4 DEF Occurs, Once

\* Insertion between the keys not above and the keys above that of t keeps the
\* order: the place ready_queue_insert stops at.
LEMMA InsertOrder ==
  ASSUME NEW S, NEW n, NEW q, NEW k, NEW t, NEW r, Inserted(S, n, q, k, t, r),
         NEW f \in [S -> Nat], Ordered(n, q, f),
         \A j \in 1..n : j < k => f[q[j]] <= f[t],
         k <= n => f[q[k]] >= f[t]
  PROVE  Ordered(n + 1, r, f)
<1>0. /\ n \in Nat /\ q \in [1..n -> S] /\ k \in 1..(n + 1) /\ t \in S
      /\ r \in [1..(n + 1) -> S]
      /\ \A j \in 1..(n + 1) : r[j] = IF j < k THEN q[j] ELSE IF j = k THEN t ELSE q[j - 1]
      /\ \A i, j \in 1..n : i < j => f[q[i]] <= f[q[j]]
  BY DEF Inserted, Ordered
<1> SUFFICES ASSUME NEW i \in 1..(n + 1), NEW j \in 1..(n + 1), i < j
             PROVE  f[r[i]] <= f[r[j]]
  BY DEF Ordered
<1>1. ASSUME NEW m \in 1..n, m >= k PROVE f[q[m]] >= f[t]
  <2>1. k \in 1..n /\ f[q[k]] >= f[t]
    BY <1>0, <1>1
  <2>2. f[q[k]] \in Nat /\ f[q[m]] \in Nat /\ f[t] \in Nat
    BY <1>0, <2>1
  <2>3. k < m => f[q[k]] <= f[q[m]]
    BY <1>0, <2>1
  <2> QED BY <1>0, <1>1, <2>1, <2>2, <2>3
<1>2. CASE j < k
  <2>1. i \in 1..n /\ j \in 1..n /\ r[i] = q[i] /\ r[j] = q[j]
    BY <1>0, <1>2
  <2> QED BY <1>0, <2>1
<1>3. CASE j = k
  <2>1. i \in 1..n /\ r[i] = q[i] /\ r[j] = t
    BY <1>0, <1>3
  <2> QED BY <1>0, <1>3, <2>1
<1>4. CASE j > k /\ i < k
  <2>1. i \in 1..n /\ j - 1 \in 1..n /\ r[i] = q[i] /\ r[j] = q[j - 1]
    BY <1>0, <1>4
  <2>2. f[q[i]] <= f[t] /\ f[q[j - 1]] >= f[t]
    BY <1>0, <1>1, <1>4, <2>1
  <2>3. f[q[i]] \in Nat /\ f[q[j - 1]] \in Nat /\ f[t] \in Nat
    BY <1>0, <2>1
  <2> QED BY <1>0, <2>1, <2>2, <2>3
<1>5. CASE j > k /\ i = k
  <2>1. j - 1 \in 1..n /\ j - 1 >= k /\ r[i] = t /\ r[j] = q[j - 1]
    BY <1>0, <1>5
  <2>2. f[q[j - 1]] \in Nat /\ f[t] \in Nat
    BY <1>0, <2>1
  <2> QED BY <1>0, <1>1, <2>1, <2>2
<1>6. CASE i > k
  <2>1. /\ i - 1 \in 1..n /\ j - 1 \in 1..n /\ i - 1 < j - 1
        /\ r[i] = q[i - 1] /\ r[j] = q[j - 1]
    BY <1>0, <1>6
  <2> QED BY <1>0, <2>1
<1> QED BY <1>0, <1>2, <1>3, <1>4, <1>5, <1>6

\* Removal removes one element only, which does not occur any more.
LEMMA RemovePositions ==
  ASSUME NEW S, NEW n, NEW q, NEW k, NEW r, Removed(S, n, q, k, r), Once(n, q)
  PROVE  /\ \A s : Occurs(n - 1, r, s) <=> Occurs(n, q, s) /\ s # q[k]
         /\ Once(n - 1, r)
         /\ \A f \in [S -> Nat] : Ordered(n, q, f) => Ordered(n - 1, r, f)
<1>0. /\ n \in Nat /\ q \in [1..n -> S] /\ k \in 1..n
      /\ r \in [1..(n - 1) -> S]
      /\ \A j \in 1..(n - 1) : r[j] = IF j < k THEN q[j] ELSE q[j + 1]
      /\ \A i, j \in 1..n : q[i] = q[j] => i = j
  BY DEF Removed, Once
<1>1. ASSUME NEW s, NEW j \in 1..(n - 1), r[j] = s
      PROVE  s # q[k] /\ \E i \in 1..n : q[i] = s
  <2>1. CASE j < k
    <3>1. j \in 1..n /\ j # k /\ r[j] = q[j]
      BY <1>0, <2>1
    <3> QED BY <1>0, <1>1, <3>1
  <2>2. CASE j >= k
    <3>1. j + 1 \in 1..n /\ j + 1 # k /\ r[j] = q[j + 1]
      BY <1>0, <2>2
    <3> QED BY <1>0, <1>1, <3>1
  <2> QED BY <1>0, <2>1, <2>2
<1>2. ASSUME NEW s, NEW j \in 1..n, q[j] = s, s # q[k]
      PROVE  \E i \in 1..(n - 1) : r[i] = s
  <2>1. CASE j < k
    <3>1. j \in 1..(n - 1) /\ r[j] = q[j]
      BY <1>0, <2>1
    <3> QED BY <1>0, <1>2, <3>1
  <2>2. CASE j > k
    <3>1. j - 1 \in 1..(n - 1) /\ r[j - 1] = q[j]
      BY <1>0, <2>2
    <3> QED BY <1>0, <1>2, <3>1
  <2> QED BY <1>0, <1>2, <2>1, <2>2
<1>3. \A i, j \in 1..(n - 1) : r[i] = r[j] => i = j
  BY <1>0
<1>4. ASSUME NEW f \in [S -> Nat], \A i, j \in 1..n : i < j => f[q[i]] <= f[q[j]],
             NEW i \in 1..(n - 1), NEW j \in 1..(n - 1), i < j
      PROVE  f[r[i]] <= f[r[j]]
  <2>1. CASE j < k
    <3>1. i \in 1..n /\ j \in 1..n /\ r[i] = q[i] /\ r[j] = q[j]
      BY <1>0, <1>4, <2>1
    <3> QED BY <1>0, <1>4, <3>1
  <2>2. CASE i < k /\ j >= k
    <3>1. i \in 1..n /\ j + 1 \in 1..n /\ i < j + 1 /\ r[i] = q[i] /\ r[j] = q[j + 1]
      BY <1>0, <1>4, <2>2
    <3> QED BY <1>0, <1>4, <3>1
  <2>3. CASE i >= k
    <3>1. /\ i + 1 \in 1..n /\ j + 1 \in 1..n /\ i + 1 < j + 1
          /\ r[i] = q[i + 1] /\ r[j] = q[j + 1]
      BY <1>0, <1>4, <2>3
    <3> QED BY <1>0, <1>4, <3>1
  <2> QED BY <1>0, <2>1, <2>2, <2>3
<1> QED BY <1>0, <1>1, <1>2, <1>3, <1>4 DEF Occurs, Once, Ordered

-----------------------------------------------------------------------------
\* The elements of a queue after the insertion of t at position i.
LEMMA InsertAtSeq ==
  ASSUME NEW S, NEW q \in Seq(S), NEW i \in 1..(Len(q) + 1), NEW t \in S
  PROVE  /\ InsertAt(q, i, t) \in Seq(S)
         /\ Len(InsertAt(q, i, t)) = Len(q) + 1
         /\ Inserted(S, Len(q), q, i, t, InsertAt(q, i, t))
<1> DEFINE a == SubSeq(q, 1, i - 1)
           b == SubSeq(q, i, Len(q))
<1>1. a \in Seq(S) /\ Len(a) = i - 1 /\ \A j \in 1..(i - 1) : a[j] = q[j]
  OBVIOUS
<1>2. b \in Seq(S) /\ Len(b) = Len(q) - i + 1 /\ \A j \in 1..Len(b) : b[j] = q[i + j - 1]
  OBVIOUS
<1>3. InsertAt(q, i, t) = (a \o <<t>>) \o b
  BY DEF InsertAt
<1> HIDE DEF a, b
<1>4. (a \o <<t>>) \in Seq(S) /\ Len(a \o <<t>>) = i
      /\ \A j \in 1..i : (a \o <<t>>)[j] = IF j < i THEN a[j] ELSE t
  BY <1>1
<1> DEFINE c == a \o <<t>>
<1>4a. c \in Seq(S) /\ Len(c) = i /\ \A j \in 1..i : c[j] = IF j < i THEN a[j] ELSE t
  BY <1>4
<1> HIDE DEF c
<1>5. c \o b \in Seq(S) /\ Len(c \o b) = i + Len(b)
      /\ \A j \in 1..(i + Len(b)) : (c \o b)[j] = IF j <= i THEN c[j] ELSE b[j - i]
  <2>1. /\ c \o b \in Seq(S) /\ Len(c \o b) = Len(c) + Len(b)
        /\ \A j \in 1..(Len(c) + Len(b)) :
             (c \o b)[j] = IF j <= Len(c) THEN c[j] ELSE b[j - Len(c)]
    BY <1>2, <1>4a, ConcatProperties
  <2> QED BY <1>4a, <2>1
<1>6. /\ Len(q) \in Nat /\ i \in Nat /\ i + Len(b) = Len(q) + 1
      /\ \A j \in 1..i : c[j] = IF j < i THEN a[j] ELSE t
  <2>1. Len(q) \in Nat /\ i \in Nat
    OBVIOUS
  <2>2. i + Len(b) = Len(q) + 1
    BY <1>2, <2>1
  <2> QED BY <1>4a, <2>1, <2>2
<1>7. ASSUME NEW j \in 1..(Len(q) + 1)
      PROVE  (c \o b)[j] = IF j < i THEN q[j] ELSE IF j = i THEN t ELSE q[j - 1]
  <2> DEFINE x == (c \o b)[j]
  <2>1. ASSUME j <= i PROVE x = IF j < i THEN q[j] ELSE t
    <3>1. j \in 1..i /\ x = c[j]
      BY <1>5, <1>6, <2>1
    <3>2. j < i => j \in 1..(i - 1)
      BY <1>6, <3>1
    <3>3. c[j] = IF j < i THEN a[j] ELSE t
      BY <1>6, <3>1
    <3>4. j < i => a[j] = q[j]
      BY <1>1, <3>2
    <3> HIDE DEF x
    <3> QED BY <3>1, <3>3, <3>4
  <2>2. ASSUME j > i PROVE x = q[j - 1]
    <3>1. x = b[j - i] /\ j - i \in 1..Len(b) /\ i + (j - i) - 1 = j - 1
      BY <1>5, <1>6, <2>2
    <3>2. b[j - i] = q[i + (j - i) - 1]
      BY <1>2, <3>1
    <3> HIDE DEF x
    <3> QED BY <3>1, <3>2
  <2> HIDE DEF x
  <2>3. i \in Int /\ j \in Int
    BY <1>6
  <2>4. x = IF j < i THEN q[j] ELSE IF j = i THEN t ELSE q[j - 1]
    BY <2>1, <2>2, <2>3
  <2> QED BY <2>4 DEF x
<1>8. InsertAt(q, i, t) \in Seq(S) /\ Len(InsertAt(q, i, t)) = Len(q) + 1
  BY <1>3, <1>5, <1>6 DEF c
<1>9. \A j \in 1..(Len(q) + 1) : InsertAt(q, i, t)[j] =
         IF j < i THEN q[j] ELSE IF j = i THEN t ELSE q[j - 1]
  BY <1>3, <1>7 DEF c
<1>10. q \in [1..Len(q) -> S] /\ InsertAt(q, i, t) \in [1..(Len(q) + 1) -> S]
  BY <1>8, LenProperties
<1> QED BY <1>6, <1>8, <1>9, <1>10 DEF Inserted

\* The elements of a queue after the removal of position i.
LEMMA RemoveAtSeq ==
  ASSUME NEW S, NEW q \in Seq(S), NEW i \in 1..Len(q)
  PROVE  /\ RemoveAt(q, i) \in Seq(S)
         /\ Len(RemoveAt(q, i)) = Len(q) - 1
         /\ \A j \in 1..(Len(q) - 1) : RemoveAt(q, i)[j] =
              IF j < i THEN q[j] ELSE q[j + 1]
<1> DEFINE a == SubSeq(q, 1, i - 1)
           b == SubSeq(q, i + 1, Len(q))
           m == i - 1
<1>1. a \in Seq(S) /\ Len(a) = m /\ \A j \in 1..m : a[j] = q[j]
  OBVIOUS
<1>2. b \in Seq(S) /\ Len(b) = Len(q) - i /\ \A j \in 1..Len(b) : b[j] = q[i + j]
  OBVIOUS
<1>3. RemoveAt(q, i) = a \o b
  BY DEF RemoveAt
<1>4. m \in Nat /\ m = i - 1
  OBVIOUS
<1> HIDE DEF a, b, m
<1>5. a \o b \in Seq(S) /\ Len(a \o b) = Len(a) + Len(b)
      /\ \A j \in 1..(Len(a) + Len(b)) : (a \o b)[j] = IF j <= Len(a) THEN a[j] ELSE b[j - Len(a)]
  BY <1>1, <1>2, ConcatProperties
<1>6. Len(q) \in Nat /\ Len(a) + Len(b) = Len(q) - 1
  BY <1>1, <1>2, <1>4
<1>7. ASSUME NEW j \in 1..(Len(q) - 1)
      PROVE  (a \o b)[j] = IF j < i THEN q[j] ELSE q[j + 1]
  <2>1. CASE j < i
    BY <1>1, <1>4, <1>5, <1>6, <2>1
  <2>2. CASE j >= i
    <3>1. (a \o b)[j] = b[j - m] /\ j - m \in 1..Len(b) /\ i + (j - m) = j + 1
      BY <1>1, <1>2, <1>4, <1>5, <1>6, <2>2
    <3>2. b[j - m] = q[i + (j - m)]
      BY <1>2, <3>1
    <3> QED BY <2>2, <3>1, <3>2
  <2>3. j < i \/ j >= i
    BY <1>6
  <2> QED BY <2>1, <2>2, <2>3, Zenon
<1> QED BY <1>3, <1>5, <1>6, <1>7

-----------------------------------------------------------------------------
\* Inserting t adds t, keeps an injective queue injective when t was not in
\* it, and keeps it sorted when the position suits the key of t.
LEMMA InsertAtFacts ==
  ASSUME NEW S, NEW q \in Seq(S), NEW k \in 1..(Len(q) + 1), NEW t \in S
  PROVE  /\ \A s \in S : Contains(InsertAt(q, k, t), s) <=> Contains(q, s) \/ s = t
         /\ IsInjective(q) /\ ~Contains(q, t) => IsInjective(InsertAt(q, k, t))
         /\ \A f \in [S -> Nat] :
              /\ SortedBy(q, f)
              /\ \A j \in 1..Len(q) : j < k => f[q[j]] <= f[t]
              /\ k <= Len(q) => f[q[k]] >= f[t]
              => SortedBy(InsertAt(q, k, t), f)
<1> DEFINE n == Len(q)
           r == InsertAt(q, k, t)
<1>1. r \in Seq(S) /\ Len(r) = n + 1 /\ Inserted(S, n, q, k, t, r)
  BY InsertAtSeq
<1>2. DOMAIN q = 1..n /\ DOMAIN r = 1..(n + 1)
  BY <1>1, LenProperties
<1> HIDE DEF r
<1>4. \A s : Contains(q, s) = Occurs(n, q, s) /\ Contains(r, s) = Occurs(n + 1, r, s)
  BY <1>1 DEF Contains, Occurs
<1>5. IsInjective(q) = Once(n, q) /\ IsInjective(r) = Once(n + 1, r)
  BY <1>2 DEF IsInjective, Once
<1>6. \A f : SortedBy(q, f) = Ordered(n, q, f) /\ SortedBy(r, f) = Ordered(n + 1, r, f)
  BY <1>1 DEF SortedBy, Ordered
<1>7. ASSUME NEW f \in [S -> Nat], Ordered(n, q, f),
             \A j \in 1..n : j < k => f[q[j]] <= f[t], k <= n => f[q[k]] >= f[t]
      PROVE  Ordered(n + 1, r, f)
  BY <1>1, <1>7, InsertOrder
<1>8. \A s \in S : Contains(r, s) <=> Contains(q, s) \/ s = t
  BY <1>1, <1>4, InsertPositions
<1>9. IsInjective(q) /\ ~Contains(q, t) => IsInjective(r)
  <2>1. Once(n, q) /\ ~Occurs(n, q, t) => Once(n + 1, r)
    BY <1>1, InsertPositions
  <2> QED BY <1>4, <1>5, <2>1
<1>10. \A f \in [S -> Nat] : /\ SortedBy(q, f)
                             /\ \A j \in 1..Len(q) : j < k => f[q[j]] <= f[t]
                             /\ k <= Len(q) => f[q[k]] >= f[t]
                             => SortedBy(r, f)
  BY <1>6, <1>7
<1> QED BY <1>8, <1>9, <1>10 DEF r

\* Removing one position of an injective queue removes exactly its element,
\* and the queue stays injective and sorted.
LEMMA RemoveAtFacts ==
  ASSUME NEW S, NEW q \in Seq(S), NEW k \in 1..Len(q), IsInjective(q)
  PROVE  /\ RemoveAt(q, k) \in Seq(S)
         /\ IsInjective(RemoveAt(q, k))
         /\ \A s \in S : Contains(RemoveAt(q, k), s) <=> Contains(q, s) /\ s # q[k]
         /\ \A f \in [S -> Nat] : SortedBy(q, f) => SortedBy(RemoveAt(q, k), f)
<1> DEFINE n == Len(q)
           r == RemoveAt(q, k)
<1>1. /\ r \in Seq(S) /\ Len(r) = n - 1
      /\ \A j \in 1..(n - 1) : r[j] = IF j < k THEN q[j] ELSE q[j + 1]
  BY RemoveAtSeq, Zenon
<1>2. n \in Nat /\ q \in [1..n -> S] /\ r \in [1..(n - 1) -> S]
      /\ DOMAIN q = 1..n /\ DOMAIN r = 1..(n - 1)
  BY <1>1, LenProperties
<1>3. \A i, j \in 1..n : q[i] = q[j] => i = j
  BY <1>2 DEF IsInjective
<1> HIDE DEF r
<1>4. Removed(S, n, q, k, r) /\ Once(n, q)
  BY <1>1, <1>2, <1>3 DEF Removed, Once
<1>5. \A s : Contains(q, s) = Occurs(n, q, s) /\ Contains(r, s) = Occurs(n - 1, r, s)
  BY <1>1 DEF Contains, Occurs
<1>6. IsInjective(r) = Once(n - 1, r)
  BY <1>2 DEF IsInjective, Once
<1>7. \A f : SortedBy(q, f) = Ordered(n, q, f) /\ SortedBy(r, f) = Ordered(n - 1, r, f)
  BY <1>1 DEF SortedBy, Ordered
<1> QED BY <1>1, <1>4, <1>5, <1>6, <1>7, RemovePositions DEF r

\* Taking the head of an injective queue; in a sorted one it is least.
LEMMA TailFacts ==
  ASSUME NEW S, NEW q \in Seq(S), q # <<>>, IsInjective(q)
  PROVE  /\ Head(q) \in S /\ Contains(q, Head(q))
         /\ Tail(q) \in Seq(S)
         /\ IsInjective(Tail(q))
         /\ \A s \in S : Contains(Tail(q), s) <=> Contains(q, s) /\ s # Head(q)
         /\ \A f \in [S -> Nat] : SortedBy(q, f) =>
              /\ SortedBy(Tail(q), f)
              /\ \A s \in S : Contains(q, s) => f[Head(q)] <= f[s]
<1> DEFINE n == Len(q)
           r == Tail(q)
<1>1. /\ Head(q) = q[1] /\ 1 \in 1..n /\ q[1] \in S
      /\ r \in Seq(S) /\ Len(r) = n - 1
      /\ \A j \in 1..(n - 1) : r[j] = q[j + 1]
  OBVIOUS
<1>2. n \in Nat /\ q \in [1..n -> S] /\ r \in [1..(n - 1) -> S]
      /\ DOMAIN q = 1..n /\ DOMAIN r = 1..(n - 1)
  BY <1>1, LenProperties
<1>3. \A i, j \in 1..n : q[i] = q[j] => i = j
  BY <1>2 DEF IsInjective
<1> HIDE DEF r
<1>4. \A j \in 1..(n - 1) : r[j] = IF j < 1 THEN q[j] ELSE q[j + 1]
  BY <1>1
<1>5. Removed(S, n, q, 1, r) /\ Once(n, q)
  BY <1>1, <1>2, <1>3, <1>4 DEF Removed, Once
<1>6. \A s : Contains(q, s) = Occurs(n, q, s) /\ Contains(r, s) = Occurs(n - 1, r, s)
  BY <1>1 DEF Contains, Occurs
<1>7. IsInjective(r) = Once(n - 1, r)
  BY <1>2 DEF IsInjective, Once
<1>8. \A f : SortedBy(q, f) = Ordered(n, q, f) /\ SortedBy(r, f) = Ordered(n - 1, r, f)
  BY <1>1 DEF SortedBy, Ordered
<1>9. ASSUME NEW f \in [S -> Nat], SortedBy(q, f), NEW s \in S, Contains(q, s)
      PROVE  f[q[1]] <= f[s]
  <2>1. PICK j \in 1..n : q[j] = s
    BY <1>9 DEF Contains
  <2>2. 1 < j => f[q[1]] <= f[q[j]]
    BY <1>1, <1>9, <2>1 DEF SortedBy
  <2>3. f[s] \in Nat
    OBVIOUS
  <2>4. j = 1 \/ 1 < j
    OBVIOUS
  <2> QED BY <2>1, <2>2, <2>3, <2>4
<1>10. Contains(q, q[1])
  BY <1>1 DEF Contains
<1> QED BY <1>1, <1>5, <1>6, <1>7, <1>8, <1>9, <1>10, RemovePositions DEF r

-----------------------------------------------------------------------------
(* Sums over finite sets, as MapThenSumSet of the community modules        *)
(* computes them.                                                          *)

Total(f, S) == MapThenSumSet(LAMBDA i : f[i], S)

First(s) == CHOOSE x \in s : TRUE

\* g holds the sum of f over every subset of S.
Sums(f, S, g) ==
  g = [s \in SUBSET S |-> IF s = {} THEN 0 ELSE f[First(s)] + g[s \ {First(s)}]]

\* A family of subsets of a finite set has a smallest member.
LEMMA SmallestSubset ==
  ASSUME NEW S, IsFiniteSet(S), NEW B \in SUBSET SUBSET S, B # {}
  PROVE  \E s \in B : \A t \in B : Cardinality(s) <= Cardinality(t)
<1> DEFINE C == {Cardinality(s) : s \in B}
           m == Min(C)
<1>1. \A s \in B : Cardinality(s) \in Nat
  BY FS_Subset, FS_CardinalityType
<1>2. C \in SUBSET Nat /\ C # {}
  BY <1>1
<1>3. m \in C /\ \A y \in C : m <= y
  BY <1>2, MinOfNaturals
<1> HIDE DEF m
<1>4. PICK s \in B : m = Cardinality(s)
  BY <1>3
<1> QED BY <1>3, <1>4

\* Taking the element that is counted first leaves a smaller subset.
LEMMA Smaller ==
  ASSUME NEW S, IsFiniteSet(S), NEW s \in SUBSET S, NEW a \in s
  PROVE  /\ s \ {a} \in SUBSET S /\ IsFiniteSet(s)
         /\ Cardinality(s) \in Nat /\ Cardinality(s \ {a}) = Cardinality(s) - 1
         /\ Cardinality(s \ {a}) \in Nat /\ Cardinality(s \ {a}) < Cardinality(s)
<1>1. IsFiniteSet(s) /\ IsFiniteSet(s \ {a})
  BY FS_Subset
<1>2. Cardinality(s) \in Nat /\ Cardinality(s \ {a}) \in Nat
  BY <1>1, FS_CardinalityType
<1>3. Cardinality(s \ {a}) = Cardinality(s) - 1
  BY <1>1, FS_RemoveElement
<1> QED BY <1>1, <1>2, <1>3

LEMMA FirstIn == \A s : s # {} => First(s) \in s
BY DEF First

\* g is right for the subsets of up to n elements.
SumsTo(f, S, g, n) ==
  \A s \in SUBSET S : Cardinality(s) <= n =>
     g[s] = IF s = {} THEN 0 ELSE f[First(s)] + g[s \ {First(s)}]

Solvable(f, S, n) == \E g : g = [s \in SUBSET S |-> g[s]] /\ SumsTo(f, S, g, n)

LEMMA SumsToEvery ==
  ASSUME NEW f, NEW S, IsFiniteSet(S), NEW n \in Nat
  PROVE  Solvable(f, S, n)
<1> DEFINE B == {k \in Nat : ~Solvable(f, S, k)}
           m == Min(B)
<1>0. \A s \in SUBSET S : IsFiniteSet(s) /\ Cardinality(s) \in Nat
  BY FS_Subset, FS_CardinalityType
<1>1. SUFFICES ASSUME B # {} PROVE FALSE
  OBVIOUS
<1>2. m \in B /\ \A y \in B : m <= y
  BY <1>1, MinOfNaturals
<1> HIDE DEF m
<1>3. m \in Nat /\ ~Solvable(f, S, m)
  BY <1>2
<1>3a. \A k \in Nat : ~Solvable(f, S, k) => m <= k
  BY <1>2
<1> HIDE DEF B
<1>4. m # 0
  <2> SUFFICES ASSUME m = 0 PROVE FALSE
    OBVIOUS
  <2> DEFINE z == [s \in SUBSET S |-> 0]
  <2>1. \A s \in SUBSET S : Cardinality(s) <= 0 => s = {}
    BY <1>0, FS_EmptySet
  <2>2. \A s \in SUBSET S : z[s] = 0
    OBVIOUS
  <2>3. z = [s \in SUBSET S |-> z[s]]
    OBVIOUS
  <2> HIDE DEF z
  <2>4. SumsTo(f, S, z, 0)
    BY <2>1, <2>2 DEF SumsTo
  <2> QED BY <1>3, <2>3, <2>4 DEF Solvable
<1>5. (m - 1) \in Nat /\ m - 1 < m
  BY <1>3, <1>4
<1>6. PICK g : g = [s \in SUBSET S |-> g[s]] /\ SumsTo(f, S, g, m - 1)
  <2>1. Solvable(f, S, m - 1)
    BY <1>3, <1>3a, <1>5
  <2> QED BY <2>1 DEF Solvable
<1> DEFINE h == [s \in SUBSET S |-> IF Cardinality(s) = m THEN f[First(s)] + g[s \ {First(s)}] ELSE g[s]]
<1>7. \A s \in SUBSET S : h[s] = IF Cardinality(s) = m THEN f[First(s)] + g[s \ {First(s)}] ELSE g[s]
  OBVIOUS
<1>8. h = [s \in SUBSET S |-> h[s]]
  OBVIOUS
<1> HIDE DEF h
<1>9. SumsTo(f, S, h, m)
  <2> SUFFICES ASSUME NEW s \in SUBSET S, Cardinality(s) <= m
               PROVE  h[s] = IF s = {} THEN 0 ELSE f[First(s)] + h[s \ {First(s)}]
    BY DEF SumsTo
  <2>1. CASE s = {}
    <3>1. Cardinality(s) = 0
      BY <2>1, FS_EmptySet
    <3>2. Cardinality(s) # m
      BY <1>4, <3>1
    <3>3. h[s] = g[s]
      BY <1>7, <3>2
    <3>4. Cardinality(s) <= m - 1
      BY <1>5, <3>1
    <3>5. g[s] = 0
      BY <1>6, <2>1, <3>4 DEF SumsTo
    <3> QED BY <2>1, <3>3, <3>5
  <2>2. CASE s # {}
    <3> DEFINE r == s \ {First(s)}
    <3>1. First(s) \in s
      BY <2>2, FirstIn
    <3>2. r \in SUBSET S /\ Cardinality(s) \in Nat /\ Cardinality(r) \in Nat /\ Cardinality(r) < Cardinality(s)
      BY <3>1, Smaller
    <3> HIDE DEF r
    <3>3. h[r] = g[r]
      <4>1. Cardinality(r) # m
        BY <1>3, <3>2
      <4> QED BY <1>7, <3>2, <4>1
    <3>4. CASE Cardinality(s) = m
      BY <1>7, <2>2, <3>3, <3>4 DEF r
    <3>5. CASE Cardinality(s) # m
      <4>1. Cardinality(s) <= m - 1
        BY <1>3, <3>2, <3>5
      <4>2. h[s] = g[s]
        BY <1>7, <3>5
      <4> QED BY <1>6, <2>2, <3>3, <4>1, <4>2 DEF SumsTo, r
    <3> QED BY <3>4, <3>5
  <2> QED BY <2>1, <2>2
<1> QED BY <1>3, <1>8, <1>9 DEF Solvable

\* The recursive definition has a solution, and MapThenSumSet takes it.
LEMMA SumsExist ==
  ASSUME NEW f, NEW S, IsFiniteSet(S)
  PROVE  \E g : Sums(f, S, g)
<1> DEFINE n == Cardinality(S)
<1>1. n \in Nat /\ \A s \in SUBSET S : Cardinality(s) <= n
  BY FS_Subset, FS_CardinalityType
<1> HIDE DEF n
<1>2. PICK g : g = [s \in SUBSET S |-> g[s]] /\ SumsTo(f, S, g, n)
  BY <1>1, SumsToEvery DEF Solvable
<1>3. \A s \in SUBSET S : g[s] = IF s = {} THEN 0 ELSE f[First(s)] + g[s \ {First(s)}]
  BY <1>1, <1>2 DEF SumsTo
<1>4. Sums(f, S, g)
  BY <1>2, <1>3 DEF Sums
<1> QED BY <1>4

LEMMA TotalIs ==
  ASSUME NEW f, NEW S, IsFiniteSet(S)
  PROVE  \E g : Sums(f, S, g) /\ Total(f, S) = g[S]
<1>1. Total(f, S) = (CHOOSE g : Sums(f, S, g))[S]
  BY DEF Total, MapThenSumSet, MapThenFoldSet, Sums, First
<1>2. Sums(f, S, CHOOSE g : Sums(f, S, g))
  BY SumsExist
<1> QED BY <1>1, <1>2

LEMMA SumsAt ==
  ASSUME NEW f, NEW S, NEW g, Sums(f, S, g), NEW s \in SUBSET S
  PROVE  g[s] = IF s = {} THEN 0 ELSE f[First(s)] + g[s \ {First(s)}]
<1>1. g[s] = [t \in SUBSET S |-> IF t = {} THEN 0 ELSE f[First(t)] + g[t \ {First(t)}]][s]
  BY DEF Sums
<1> QED BY <1>1

\* Sums of naturals are naturals.
LEMMA SumsNat ==
  ASSUME NEW f, NEW S, IsFiniteSet(S), NEW g, Sums(f, S, g), \A i \in S : f[i] \in Nat,
         NEW s \in SUBSET S
  PROVE  g[s] \in Nat
<1> DEFINE B == {t \in SUBSET S : g[t] \notin Nat}
<1>1. SUFFICES ASSUME B # {} PROVE FALSE
  OBVIOUS
<1>2. PICK t \in B : \A u \in B : Cardinality(t) <= Cardinality(u)
  BY <1>1, SmallestSubset
<1>3. t # {} /\ First(t) \in t
  <2>1. g[t] = IF t = {} THEN 0 ELSE f[First(t)] + g[t \ {First(t)}]
    BY <1>2, SumsAt
  <2>2. t # {}
    BY <1>2, <2>1
  <2> QED BY <2>2, FirstIn
<1> DEFINE r == t \ {First(t)}
<1>4. r \in SUBSET S /\ Cardinality(r) \in Nat /\ Cardinality(t) \in Nat /\ Cardinality(r) < Cardinality(t)
  BY <1>2, <1>3, Smaller
<1>5. g[t] = f[First(t)] + g[r]
  BY <1>2, <1>3, SumsAt
<1>6. r \notin B
  BY <1>2, <1>4
<1> QED BY <1>2, <1>3, <1>4, <1>5, <1>6

\* The order of summing does not matter: any element can be taken out.
LEMMA SumsAny ==
  ASSUME NEW f, NEW S, IsFiniteSet(S), NEW g, Sums(f, S, g), \A i \in S : f[i] \in Nat,
         NEW s \in SUBSET S, NEW a \in s
  PROVE  g[s] = f[a] + g[s \ {a}]
<1> DEFINE Freely(t) == \A b \in t : g[t] = f[b] + g[t \ {b}]
           B == {t \in SUBSET S : ~Freely(t)}
<1>1. SUFFICES ASSUME B # {} PROVE FALSE
  OBVIOUS
<1>2. PICK t \in B : \A u \in B : Cardinality(t) <= Cardinality(u)
  BY <1>1, SmallestSubset
<1>3. PICK b \in t : g[t] # f[b] + g[t \ {b}]
  BY <1>2
<1> DEFINE x == First(t)
<1>4. x \in t /\ g[t] = f[x] + g[t \ {x}]
  <2>0. t \in SUBSET S
    BY <1>2
  <2> HIDE DEF B
  <2>1. g[t] = IF t = {} THEN 0 ELSE f[First(t)] + g[t \ {First(t)}]
    BY <2>0, SumsAt
  <2>2. t # {}
    BY <1>3
  <2> QED BY <2>1, <2>2, FirstIn
<1> HIDE DEF x
<1>5. x # b
  BY <1>3, <1>4
<1>6. /\ t \ {x} \in SUBSET S /\ Cardinality(t \ {x}) < Cardinality(t) /\ Cardinality(t \ {x}) \in Nat
      /\ t \ {b} \in SUBSET S /\ Cardinality(t \ {b}) < Cardinality(t) /\ Cardinality(t \ {b}) \in Nat
      /\ Cardinality(t) \in Nat
  BY <1>2, <1>3, <1>4, Smaller
<1>7. Freely(t \ {x}) /\ Freely(t \ {b})
  <2> HIDE DEF Freely
  <2>1. t \ {x} \notin B /\ t \ {b} \notin B
    BY <1>2, <1>6
  <2> QED BY <1>6, <2>1
<1>8. g[t \ {x}] = f[b] + g[(t \ {x}) \ {b}] /\ g[t \ {b}] = f[x] + g[(t \ {b}) \ {x}]
  BY <1>3, <1>4, <1>5, <1>6, <1>7
<1>9. (t \ {x}) \ {b} = (t \ {b}) \ {x} /\ (t \ {b}) \ {x} \in SUBSET S
  BY <1>2
<1>10. g[(t \ {b}) \ {x}] \in Nat /\ f[x] \in Nat /\ f[b] \in Nat
  BY <1>2, <1>3, <1>4, <1>9, SumsNat
<1> HIDE DEF B
<1> DEFINE v == g[(t \ {b}) \ {x}]
<1>11. g[t] = f[x] + (f[b] + v) /\ f[b] + g[t \ {b}] = f[b] + (f[x] + v)
  BY <1>4, <1>8, <1>9
<1>12. f[x] + (f[b] + v) = f[b] + (f[x] + v)
  BY <1>10
<1> QED BY <1>3, <1>11, <1>12

\* Sums depend only on the values summed.
LEMMA SumsSame ==
  ASSUME NEW f, NEW S, IsFiniteSet(S), NEW g, Sums(f, S, g),
         NEW h, NEW T, NEW k, Sums(h, T, k),
         NEW s, s \subseteq S, s \subseteq T, \A i \in s : f[i] = h[i]
  PROVE  g[s] = k[s]
<1> DEFINE B == {t \in SUBSET s : g[t] # k[t]}
<1>1. SUFFICES ASSUME B # {} PROVE FALSE
  OBVIOUS
<1>2. IsFiniteSet(s)
  BY FS_Subset
<1>3. PICK t \in B : \A u \in B : Cardinality(t) <= Cardinality(u)
  BY <1>1, <1>2, SmallestSubset
<1>4. t \in SUBSET S /\ t \in SUBSET T /\ t \in SUBSET s
  BY <1>3
<1>5. /\ g[t] = IF t = {} THEN 0 ELSE f[First(t)] + g[t \ {First(t)}]
      /\ k[t] = IF t = {} THEN 0 ELSE h[First(t)] + k[t \ {First(t)}]
  BY <1>4, SumsAt
<1>6. t # {} /\ First(t) \in t
  <2>1. t # {}
    BY <1>3, <1>5
  <2> QED BY <2>1, FirstIn
<1> DEFINE r == t \ {First(t)}
<1>7. r \in SUBSET s /\ Cardinality(r) \in Nat /\ Cardinality(t) \in Nat /\ Cardinality(r) < Cardinality(t)
  BY <1>2, <1>4, <1>6, Smaller
<1>8. g[r] = k[r]
  BY <1>3, <1>7
<1> QED BY <1>3, <1>4, <1>5, <1>6, <1>8

\* What follows for MapThenSumSet.
LEMMA TotalNat ==
  ASSUME NEW f, NEW S, IsFiniteSet(S), \A i \in S : f[i] \in Nat
  PROVE  Total(f, S) \in Nat
BY TotalIs, SumsNat

LEMMA TotalEmpty == \A f : Total(f, {}) = 0
<1> SUFFICES ASSUME NEW f PROVE Total(f, {}) = 0
  OBVIOUS
<1> DEFINE E == {}
<1>1. IsFiniteSet(E) /\ E \in SUBSET E /\ E = {}
  BY FS_EmptySet
<1> HIDE DEF E
<1>2. PICK g : Sums(f, E, g) /\ Total(f, E) = g[E]
  BY <1>1, TotalIs
<1>3. g[E] = 0
  BY <1>1, <1>2, SumsAt
<1> QED BY <1>1, <1>2, <1>3

LEMMA TotalSame ==
  ASSUME NEW f, NEW h, NEW S, IsFiniteSet(S), \A i \in S : f[i] = h[i]
  PROVE  Total(f, S) = Total(h, S)
<1>1. PICK g : Sums(f, S, g) /\ Total(f, S) = g[S]
  BY TotalIs
<1>2. PICK k : Sums(h, S, k) /\ Total(h, S) = k[S]
  BY TotalIs
<1>3. g[S] = k[S]
  BY <1>1, <1>2, SumsSame
<1> QED BY <1>1, <1>2, <1>3

LEMMA TotalTake ==
  ASSUME NEW f, NEW S, IsFiniteSet(S), \A i \in S : f[i] \in Nat, NEW a \in S
  PROVE  Total(f, S) = f[a] + Total(f, S \ {a})
<1> DEFINE T == S \ {a}
<1>1. IsFiniteSet(T) /\ T \in SUBSET S /\ T \in SUBSET T
  BY FS_Subset
<1>2. PICK g : Sums(f, S, g) /\ Total(f, S) = g[S]
  BY TotalIs
<1>3. g[S] = f[a] + g[T]
  <2>1. S \in SUBSET S
    OBVIOUS
  <2> QED BY <1>2, <2>1, SumsAny
<1> HIDE DEF T
<1>4. PICK k : Sums(f, T, k) /\ Total(f, T) = k[T]
  BY <1>1, TotalIs
<1>5. g[T] = k[T]
  BY <1>1, <1>2, <1>4, SumsSame
<1> QED BY <1>2, <1>3, <1>4, <1>5 DEF T
=============================================================================
