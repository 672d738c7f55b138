---------------------------- MODULE VirtioProofs ----------------------------
(***************************************************************************)
(* Proofs about Virtqueue and about the two drivers that use it, VirtioBlk *)
(* and VirtioNet, for any queue sizes, index widths, buffers and data.     *)
(***************************************************************************)
EXTENDS MCVirtio, QueueTheorems, FiniteSetTheorems

-----------------------------------------------------------------------------
(* Arithmetic.                                                             *)

\* A set of naturals below a bound has a maximum.
LEMMA MaxOfBounded ==
  ASSUME NEW S \in SUBSET Nat, S # {}, NEW M \in Nat, \A n \in S : n < M
  PROVE  Max(S) \in S /\ \A n \in S : n <= Max(S)
<1> DEFINE T == {M - n : n \in S}
<1>1. T \in SUBSET Nat /\ T # {}
  <2>1. \A n \in S : M - n \in Nat
    OBVIOUS
  <2> QED BY <2>1
<1>2. PICK t \in T : \A y \in T : t <= y
  BY <1>1, MinOfNaturals
<1>3. PICK x \in S : t = M - x
  BY <1>2
<1>4. \A n \in S : x >= n
  <2> TAKE n \in S
  <2>1. M - n \in T
    OBVIOUS
  <2>2. t <= M - n
    BY <1>2, <2>1
  <2> QED BY <1>3, <2>2
<1>5. \E z \in S : \A n \in S : z >= n
  BY <1>4
<1>6. Max(S) \in S /\ \A n \in S : Max(S) >= n
  BY <1>5 DEF Max
<1> QED BY <1>6

\* The ring index after i.
LEMMA NextIndex ==
  ASSUME NEW M \in Nat \ {0}, NEW i \in 0..(M - 1)
  PROVE  (i + 1) % M = (IF i = M - 1 THEN 0 ELSE i + 1)
<1>1. CASE i = M - 1
  <2>1. M % M = 0
    OBVIOUS
  <2> QED BY <1>1, <2>1
<1>2. CASE i # M - 1
  <2>1. i + 1 \in 0..(M - 1)
    BY <1>2
  <2> QED BY <1>2, <2>1
<1> QED BY <1>1, <1>2

\* How far index i is ahead of index j.
LEMMA Distance ==
  ASSUME NEW M \in Nat \ {0}, NEW i \in 0..(M - 1), NEW j \in 0..(M - 1)
  PROVE  (i - j + M) % M = (IF i >= j THEN i - j ELSE i - j + M)
<1>1. CASE i >= j
  <2>1. i - j \in 0..(M - 1)
    BY <1>1
  <2>2. ((i - j) + M) % M = i - j
    BY <2>1
  <2> QED BY <1>1, <2>2
<1>2. CASE i < j
  <2>1. i - j + M \in 0..(M - 1)
    BY <1>2
  <2> QED BY <1>2, <2>1
<1> QED BY <1>1, <1>2

-----------------------------------------------------------------------------
(* Linked lists in a descriptor table.                                     *)

\* The n-th element (from 0) of the list of table d that starts at h.
Nth(d, h, n) ==
  LET at[k \in 0..n] == IF k = 0 THEN h
                        ELSE IF at[k - 1] = Nil THEN Nil ELSE d[at[k - 1]].next
  IN at[n]

\* The elements f[0], f[1] ... f[n] follow each other in d.
Path(f, d, n) == \A k \in 0..(n - 1) : f[k] # Nil /\ d[f[k]].next = f[k + 1]

LEMMA NthOfPath ==
  ASSUME NEW f, NEW d, NEW n \in Nat, Path(f, d, n), NEW m \in 0..n
  PROVE  Nth(d, f[0], m) = f[m]
<1> DEFINE Def(at) == at = [k \in 0..m |-> IF k = 0 THEN f[0]
                              ELSE IF at[k - 1] = Nil THEN Nil ELSE d[at[k - 1]].next]
           g == [k \in 0..m |-> f[k]]
           c == CHOOSE at : Def(at)
<1>1. Nth(d, f[0], m) = c[m]
  BY DEF Nth
<1>2. Def(g)
  <2>1. ASSUME NEW k \in 0..m, k # 0
        PROVE  g[k] = IF g[k - 1] = Nil THEN Nil ELSE d[g[k - 1]].next
    <3>1. k - 1 \in 0..(n - 1) /\ k - 1 \in 0..m /\ (k - 1) + 1 = k
      BY <2>1
    <3>2. f[k - 1] # Nil /\ d[f[k - 1]].next = f[(k - 1) + 1]
      BY <3>1 DEF Path
    <3>3. f[k - 1] # Nil /\ d[f[k - 1]].next = f[k]
      BY <3>1, <3>2
    <3>4. g[k - 1] = f[k - 1] /\ g[k] = f[k]
      BY <3>1
    <3> QED BY <3>3, <3>4
  <2> QED BY <2>1
<1>3. Def(c)
  <2> HIDE DEF Def, g
  <2> QED BY <1>2
<1>4. c = [k \in 0..m |-> IF k = 0 THEN f[0]
                           ELSE IF c[k - 1] = Nil THEN Nil ELSE d[c[k - 1]].next]
  BY <1>3
<1> HIDE DEF c
<1> DEFINE Bad == {k \in 0..m : c[k] # f[k]}
<1>5. Bad = {}
  <2> SUFFICES ASSUME Bad # {} PROVE FALSE
    OBVIOUS
  <2>1. Bad \in SUBSET Nat
    OBVIOUS
  <2>2. PICK b \in Bad : \A y \in Bad : b <= y
    BY <2>1, MinOfNaturals
  <2>3. b \in 0..m /\ c[b] # f[b]
    OBVIOUS
  <2>4. b # 0
    BY <1>4, <2>3
  <2>5. b - 1 \in 0..m /\ b - 1 \notin Bad /\ b - 1 \in 0..(n - 1) /\ (b - 1) + 1 = b
    BY <2>2, <2>3, <2>4
  <2>6. c[b - 1] = f[b - 1]
    BY <2>5
  <2>7. f[b - 1] # Nil /\ d[f[b - 1]].next = f[(b - 1) + 1]
    BY <2>5 DEF Path
  <2>8. c[b] = IF c[b - 1] = Nil THEN Nil ELSE d[c[b - 1]].next
    BY <1>4, <2>3, <2>4
  <2>9. d[f[b - 1]].next = f[b]
    BY <2>5, <2>7
  <2> QED BY <2>3, <2>6, <2>7, <2>8, <2>9
<1>6. c[m] = f[m]
  BY <1>5
<1> QED BY <1>1, <1>6

-----------------------------------------------------------------------------
(* The free list.                                                          *)

\* f lists the n free descriptors of table d from h on: of the sz there are
\* all but those of C, each once, and then Nil.
IsList(f, d, h, n, sz, C) ==
  /\ f[0] = h /\ f[n] = Nil
  /\ \A k \in 0..(n - 1) : f[k] \in (0..(sz - 1)) \ C /\ d[f[k]].next = f[k + 1]
  /\ \A j, k \in 0..(n - 1) : f[j] = f[k] => j = k
  /\ \A i \in (0..(sz - 1)) \ C : \E k \in 0..(n - 1) : f[k] = i

Free(d, h, n, sz, C) == n \in Nat /\ \E f : IsList(f, d, h, n, sz, C)

LEMMA NthOfList ==
  ASSUME NEW d, NEW h, NEW n \in Nat, NEW sz \in Nat, NEW C, NEW f, IsList(f, d, h, n, sz, C)
  PROVE  \A k \in 0..n : Nth(d, h, k) = f[k]
<1>1. Path(f, d, n)
  BY DEF Path, IsList, Nil
<1>2. f[0] = h
  BY DEF IsList
<1> QED BY <1>1, <1>2, NthOfPath

\* What the list holds.
Listing(d, h, n, sz, C) ==
  /\ n \in 0..sz /\ n = Cardinality((0..(sz - 1)) \ C)
  /\ Nth(d, h, 0) = h /\ Nth(d, h, n) = Nil
  /\ \A k \in 0..(n - 1) : Nth(d, h, k) \in (0..(sz - 1)) \ C
  /\ \A j, k \in 0..(n - 1) : Nth(d, h, j) = Nth(d, h, k) => j = k
  /\ {Nth(d, h, k) : k \in 0..(n - 1)} = (0..(sz - 1)) \ C
  /\ h \in (0..(sz - 1)) \cup {Nil} /\ (h = Nil <=> n = 0)

LEMMA FreeFacts ==
  ASSUME NEW d, NEW h, NEW n, NEW sz \in Nat, NEW C, Free(d, h, n, sz, C)
  PROVE  Listing(d, h, n, sz, C)
<1>1. PICK f : IsList(f, d, h, n, sz, C)
  BY DEF Free
<1>2. n \in Nat
  BY DEF Free
<1>3. \A k \in 0..n : Nth(d, h, k) = f[k]
  BY <1>1, <1>2, NthOfList
<1> DEFINE S == (0..(sz - 1)) \ C
           g == [k \in 1..n |-> f[k - 1]]
<1>4. g \in Bijection(1..n, S)
  <2>1. ASSUME NEW k \in 1..n PROVE g[k] = f[k - 1] /\ k - 1 \in 0..(n - 1)
    BY <1>2
  <2>2. g \in [1..n -> S]
    BY <1>1, <2>1 DEF IsList
  <2>3. ASSUME NEW j \in 1..n, NEW k \in 1..n, g[j] = g[k] PROVE j = k
    <3>1. j - 1 = k - 1
      BY <1>1, <2>1, <2>3 DEF IsList
    <3> QED BY <3>1
  <2>4. ASSUME NEW i \in S PROVE \E k \in 1..n : g[k] = i
    <3>1. PICK k \in 0..(n - 1) : f[k] = i
      BY <1>1 DEF IsList
    <3>2. k + 1 \in 1..n /\ (k + 1) - 1 = k
      BY <1>2
    <3> QED BY <3>1, <3>2, <2>1
  <2> HIDE DEF g, S
  <2> QED BY <2>2, <2>3, <2>4 DEF Bijection, Injection, Surjection, IsInjective
<1>5. n = Cardinality(S)
  <2> HIDE DEF g, S
  <2>1. ExistsBijection(1..n, S)
    BY <1>4 DEF ExistsBijection
  <2> QED BY <1>2, <2>1, FS_CountingElements
<1>6. n <= sz
  <2>1. IsFiniteSet(0..(sz - 1)) /\ Cardinality(0..(sz - 1)) = sz
    BY FS_Interval
  <2>2. Cardinality(S) <= sz
    BY <2>1, FS_Subset
  <2> QED BY <1>5, <2>2
<1>7. \A k \in 0..(n - 1) : k \in 0..n
  BY <1>2
<1>8. {Nth(d, h, k) : k \in 0..(n - 1)} = S
  <2>1. \A k \in 0..(n - 1) : Nth(d, h, k) \in S
    BY <1>1, <1>3, <1>7 DEF IsList
  <2>2. \A i \in S : \E k \in 0..(n - 1) : Nth(d, h, k) = i
    BY <1>1, <1>3, <1>7 DEF IsList
  <2> HIDE DEF S
  <2> QED BY <2>1, <2>2
<1>9. h \in (0..(sz - 1)) \cup {Nil} /\ (h = Nil <=> n = 0)
  <2>1. CASE n = 0
    BY <1>1, <2>1 DEF IsList
  <2>2. CASE n # 0
    <3>1. 0 \in 0..(n - 1)
      BY <1>2, <2>2
    <3>2. f[0] \in 0..(sz - 1) /\ f[0] = h
      BY <1>1, <3>1 DEF IsList
    <3> QED BY <2>2, <3>2 DEF Nil
  <2> QED BY <2>1, <2>2
<1>10. 0 \in 0..n /\ n \in 0..n
  BY <1>2
<1>11. Nth(d, h, 0) = h /\ Nth(d, h, n) = Nil
  BY <1>1, <1>3, <1>10 DEF IsList
<1>12. \A k \in 0..(n - 1) : Nth(d, h, k) \in (0..(sz - 1)) \ C
  BY <1>1, <1>3, <1>7 DEF IsList
<1>13. \A j, k \in 0..(n - 1) : Nth(d, h, j) = Nth(d, h, k) => j = k
  BY <1>1, <1>3, <1>7 DEF IsList
<1>14. n \in 0..sz
  BY <1>2, <1>6
<1> QED BY <1>5, <1>8, <1>9, <1>11, <1>12, <1>13, <1>14 DEF Listing

\* Taking the first m descriptors, if no other is relinked.
LEMMA FreeTake ==
  ASSUME NEW d, NEW h, NEW n, NEW sz \in Nat, NEW C, Free(d, h, n, sz, C),
         NEW m \in 0..n, NEW D,
         \A i \in (0..(sz - 1)) \ C :
           (\A k \in 0..(m - 1) : Nth(d, h, k) # i) => D[i].next = d[i].next
  PROVE  Free(D, Nth(d, h, m), n - m, sz, C \cup {Nth(d, h, k) : k \in 0..(m - 1)})
<1>1. PICK f : IsList(f, d, h, n, sz, C)
  BY DEF Free
<1>2. n \in Nat /\ m \in Nat /\ n - m \in Nat
  BY DEF Free
<1>3. \A k \in 0..n : Nth(d, h, k) = f[k]
  BY <1>1, <1>2, NthOfList
<1> DEFINE T == {Nth(d, h, k) : k \in 0..(m - 1)}
           g == [k \in 0..(n - m) |-> f[k + m]]
<1>4. \A k \in 0..(m - 1) : Nth(d, h, k) = f[k]
  BY <1>2, <1>3
<1>5. \A i : i \in T <=> \E k \in 0..(m - 1) : f[k] = i
  BY <1>4
<1>6. g[0] = Nth(d, h, m) /\ g[n - m] = Nil
  <2>1. 0 \in 0..(n - m) /\ n - m \in 0..(n - m) /\ 0 + m = m /\ (n - m) + m = n /\ m \in 0..n
    BY <1>2
  <2>2. g[0] = f[m] /\ g[n - m] = f[n]
    BY <2>1
  <2> QED BY <1>1, <1>3, <2>1, <2>2 DEF IsList
<1>7. ASSUME NEW k \in 0..(n - m - 1)
      PROVE  /\ k + m \in 0..(n - 1) /\ g[k] = f[k + m]
             /\ g[k] \in (0..(sz - 1)) \ (C \cup T) /\ D[g[k]].next = g[k + 1]
  <2>1. k + m \in 0..(n - 1) /\ k \in 0..(n - m) /\ k + 1 \in 0..(n - m) /\ (k + 1) + m = (k + m) + 1
    BY <1>2
  <2>2. g[k] = f[k + m] /\ g[k + 1] = f[(k + m) + 1]
    BY <2>1
  <2>3. f[k + m] \in (0..(sz - 1)) \ C /\ d[f[k + m]].next = f[(k + m) + 1]
    BY <1>1, <2>1 DEF IsList
  <2>4. ASSUME NEW j \in 0..(m - 1) PROVE f[j] # f[k + m]
    <3>1. j \in 0..(n - 1) /\ j # k + m
      BY <1>2
    <3> QED BY <1>1, <2>1, <3>1 DEF IsList
  <2>5. f[k + m] \notin T
    BY <1>5, <2>4
  <2>6. D[f[k + m]].next = d[f[k + m]].next
    BY <1>4, <2>3, <2>4
  <2> HIDE DEF g, T
  <2> QED BY <2>1, <2>2, <2>3, <2>5, <2>6
<1>8. ASSUME NEW j \in 0..(n - m - 1), NEW k \in 0..(n - m - 1), g[j] = g[k] PROVE j = k
  <2>1. f[j + m] = f[k + m] /\ j + m \in 0..(n - 1) /\ k + m \in 0..(n - 1)
    BY <1>7, <1>8
  <2>2. j + m = k + m
    BY <1>1, <2>1 DEF IsList
  <2> QED BY <1>2, <2>2
<1>9. ASSUME NEW i \in (0..(sz - 1)) \ (C \cup T) PROVE \E k \in 0..(n - m - 1) : g[k] = i
  <2>1. PICK k \in 0..(n - 1) : f[k] = i
    BY <1>1 DEF IsList
  <2>2. k >= m
    <3> SUFFICES ASSUME k < m PROVE FALSE
      BY <1>2
    <3>1. k \in 0..(m - 1)
      BY <1>2
    <3> QED BY <1>5, <2>1, <3>1
  <2>3. k - m \in 0..(n - m - 1) /\ (k - m) + m = k
    BY <1>2, <2>2
  <2> QED BY <1>7, <2>1, <2>3
<1>10. IsList(g, D, Nth(d, h, m), n - m, sz, C \cup T)
  <2> HIDE DEF g, T
  <2> QED BY <1>6, <1>7, <1>8, <1>9 DEF IsList
<1> QED BY <1>2, <1>10 DEF Free

\* Table D with head H is table d with head h after the m descriptors s[1],
\* s[2] ... s[m] of C have been given back, in this order.
Given(d, h, sz, C, s, m, D, H) ==
  /\ m \in Nat
  /\ \A k \in 1..m : s[k] \in 0..(sz - 1) /\ s[k] \in C
  /\ \A j, k \in 1..m : s[j] = s[k] => j = k
  /\ \A k \in 1..m : D[s[k]].next = IF k = 1 THEN h ELSE s[k - 1]
  /\ \A i \in (0..(sz - 1)) \ C : D[i].next = d[i].next
  /\ H = IF m = 0 THEN h ELSE s[m]

LEMMA FreeGive ==
  ASSUME NEW d, NEW h, NEW n, NEW sz \in Nat, NEW C, Free(d, h, n, sz, C),
         NEW m, NEW s, NEW D, NEW H, Given(d, h, sz, C, s, m, D, H)
  PROVE  Free(D, H, n + m, sz, C \ {s[k] : k \in 1..m})
<1>0. /\ m \in Nat
      /\ \A k \in 1..m : s[k] \in 0..(sz - 1) /\ s[k] \in C
      /\ \A j, k \in 1..m : s[j] = s[k] => j = k
      /\ \A k \in 1..m : D[s[k]].next = IF k = 1 THEN h ELSE s[k - 1]
      /\ \A i \in (0..(sz - 1)) \ C : D[i].next = d[i].next
      /\ H = IF m = 0 THEN h ELSE s[m]
  BY DEF Given
<1>1. PICK f : IsList(f, d, h, n, sz, C)
  BY DEF Free
<1>2. n \in Nat /\ n + m \in Nat
  BY <1>0 DEF Free
<1> DEFINE T == {s[k] : k \in 1..m}
           g == [k \in 0..(n + m) |-> IF k < m THEN s[m - k] ELSE f[k - m]]
<1>3. \A k \in 0..(n + m) : g[k] = IF k < m THEN s[m - k] ELSE f[k - m]
  BY <1>0
<1>4. g[0] = H /\ g[n + m] = Nil
  <2>1. 0 \in 0..(n + m) /\ n + m \in 0..(n + m) /\ ~(n + m < m) /\ (n + m) - m = n /\ m - 0 = m
    BY <1>0, <1>2
  <2>2. f[n] = Nil /\ f[0] = h
    BY <1>0, <1>1 DEF IsList
  <2>3. g[n + m] = f[n]
    BY <1>0, <1>3, <2>1
  <2>4. CASE m = 0
    <3>1. g[0] = f[0]
      BY <1>0, <1>3, <2>1, <2>4
    <3> QED BY <1>0, <2>2, <2>3, <2>4, <3>1
  <2>5. CASE m # 0
    <3>1. g[0] = s[m]
      BY <1>0, <1>3, <2>1, <2>5
    <3> QED BY <1>0, <2>2, <2>3, <2>5, <3>1
  <2> QED BY <1>0, <2>4, <2>5
<1>5. ASSUME NEW k \in 0..((n + m) - 1), k < m
      PROVE  /\ m - k \in 1..m /\ g[k] = s[m - k] /\ g[k] \in (0..(sz - 1)) \ (C \ T)
             /\ g[k] \in C /\ D[g[k]].next = g[k + 1]
  <2>1. m - k \in 1..m /\ k \in 0..(n + m) /\ k + 1 \in 0..(n + m) /\ m - (k + 1) = (m - k) - 1
    BY <1>0, <1>2, <1>5
  <2>2. g[k] = s[m - k]
    BY <1>0, <1>3, <1>5, <2>1
  <2>3. g[k] \in T /\ g[k] \in C /\ g[k] \in 0..(sz - 1)
    BY <1>0, <2>1, <2>2
  <2>4. D[g[k]].next = IF m - k = 1 THEN h ELSE s[(m - k) - 1]
    BY <1>0, <2>1, <2>2
  <2>5. CASE m - k = 1
    <3>1. k + 1 = m /\ ~(k + 1 < m) /\ (k + 1) - m = 0
      BY <1>0, <2>5, <2>1
    <3>2. g[k + 1] = f[0]
      BY <1>0, <1>3, <2>1, <3>1
    <3>3. f[0] = h
      BY <1>0, <1>1 DEF IsList
    <3> QED BY <1>0, <2>1, <2>2, <2>3, <2>4, <2>5, <3>2, <3>3
  <2>6. CASE m - k # 1
    <3>1. k + 1 < m
      BY <1>0, <2>6, <2>1, <1>5
    <3>2. g[k + 1] = s[(m - k) - 1]
      BY <1>0, <1>3, <2>1, <3>1
    <3> QED BY <1>0, <2>1, <2>2, <2>3, <2>4, <2>6, <3>2
  <2> QED BY <1>0, <2>5, <2>6
<1>6. ASSUME NEW k \in 0..((n + m) - 1), ~(k < m)
      PROVE  /\ k - m \in 0..(n - 1) /\ g[k] = f[k - m] /\ g[k] \in (0..(sz - 1)) \ (C \ T)
             /\ g[k] \notin C /\ D[g[k]].next = g[k + 1]
  <2>1. k - m \in 0..(n - 1) /\ k \in 0..(n + m) /\ k + 1 \in 0..(n + m) /\ ~(k + 1 < m)
        /\ (k + 1) - m = (k - m) + 1
    BY <1>0, <1>2, <1>6
  <2>2. g[k] = f[k - m] /\ g[k + 1] = f[(k - m) + 1]
    BY <1>0, <1>3, <1>6, <2>1
  <2>3. f[k - m] \in (0..(sz - 1)) \ C /\ d[f[k - m]].next = f[(k - m) + 1]
    BY <1>0, <1>1, <2>1 DEF IsList
  <2>4. D[f[k - m]].next = d[f[k - m]].next
    BY <1>0, <2>3
  <2> HIDE DEF g
  <2> QED BY <1>0, <2>1, <2>2, <2>3, <2>4
<1> HIDE DEF g
<1>7. ASSUME NEW j \in 0..((n + m) - 1), NEW k \in 0..((n + m) - 1), g[j] = g[k] PROVE j = k
  <2>1. j < m <=> k < m
    BY <1>0, <1>5, <1>6, <1>7
  <2>2. CASE j < m
    <3>1. s[m - j] = s[m - k] /\ m - j \in 1..m /\ m - k \in 1..m
      BY <1>0, <1>5, <1>7, <2>1, <2>2
    <3>2. m - j = m - k
      BY <1>0, <3>1
    <3> QED BY <1>0, <1>2, <3>2
  <2>3. CASE ~(j < m)
    <3>1. f[j - m] = f[k - m] /\ j - m \in 0..(n - 1) /\ k - m \in 0..(n - 1)
      BY <1>0, <1>6, <1>7, <2>1, <2>3
    <3>2. j - m = k - m
      BY <1>0, <1>1, <3>1 DEF IsList
    <3> QED BY <1>0, <1>2, <3>2
  <2> QED BY <1>0, <2>2, <2>3
<1>8. ASSUME NEW i \in (0..(sz - 1)) \ (C \ T) PROVE \E k \in 0..((n + m) - 1) : g[k] = i
  <2>1. CASE i \in T
    <3>1. PICK q \in 1..m : i = s[q]
      BY <1>0, <2>1
    <3>2. m - q \in 0..((n + m) - 1) /\ m - q < m /\ m - (m - q) = q
      BY <1>0, <1>2
    <3> QED BY <1>0, <1>5, <3>1, <3>2
  <2>2. CASE i \notin C
    <3>1. PICK q \in 0..(n - 1) : f[q] = i
      BY <1>0, <1>1, <2>2 DEF IsList
    <3>2. q + m \in 0..((n + m) - 1) /\ ~(q + m < m) /\ (q + m) - m = q
      BY <1>0, <1>2
    <3> QED BY <1>0, <1>6, <3>1, <3>2
  <2> QED BY <1>0, <2>1, <2>2
<1>9. IsList(g, D, H, n + m, sz, C \ T)
  <2>1. \A k \in 0..((n + m) - 1) :
          g[k] \in (0..(sz - 1)) \ (C \ T) /\ D[g[k]].next = g[k + 1]
    BY <1>0, <1>5, <1>6
  <2>2. \A j, k \in 0..((n + m) - 1) : g[j] = g[k] => j = k
    BY <1>0, <1>7
  <2>3. \A i \in (0..(sz - 1)) \ (C \ T) : \E k \in 0..((n + m) - 1) : g[k] = i
    BY <1>0, <1>8
  <2> HIDE DEF T
  <2> QED BY <1>0, <1>4, <2>1, <2>2, <2>3 DEF IsList
<1> QED BY <1>0, <1>2, <1>9 DEF Free

-----------------------------------------------------------------------------
(* Virtqueue.                                                              *)

Descriptor == [addr : Addrs, flags : SUBSET Flags, next : Descs \cup {Nil}]

LEMMA SizeFacts ==
  ASSUME NEW n \in Sizes
  PROVE  /\ n \in Nat \ {0} /\ 0..(n - 1) \subseteq Descs /\ Nil \notin Descs
         /\ IDX_MOD \in Nat /\ IDX_MOD > n
         /\ \A i \in Nat : i % n \in 0..(n - 1) /\ i % n \in Descs
<1>1. n \in Nat \ {0} /\ IDX_MOD \in Nat /\ \A m \in Sizes : m < IDX_MOD
  BY VirtqueueAssumption
<1>2. Max(Sizes) \in Nat /\ n <= Max(Sizes)
  BY <1>1, MaxOfBounded, VirtqueueAssumption
<1>3. 0..(n - 1) \subseteq Descs /\ Nil \notin Descs
  BY <1>1, <1>2 DEF Descs, Nil
<1>4. \A i \in Nat : i % n \in 0..(n - 1)
  BY <1>1
<1> QED BY <1>1, <1>3, <1>4

LEMMA WalkIsNth == \A i, n : Walk(i, n) = Nth(desc, i, n)
BY DEF Walk, Nth

\* Different descriptors, and table D with head H when those of s are linked
\* in front of the list of table d that starts at h.
IsChain(s) == s \in Seq(Descs) /\ \A j, k \in 1..Len(s) : s[j] = s[k] => j = k
Relinked(d, h, s, D, H) ==
  /\ D \in [Descs -> Descriptor] /\ H \in Descs \cup {Nil}
  /\ \A k \in 1..Len(s) : D[s[k]].next = IF k = 1 THEN h ELSE s[k - 1]
  /\ \A i \in Descs : (\A k \in 1..Len(s) : s[k] # i) => D[i] = d[i]
  /\ H = IF Len(s) = 0 THEN h ELSE s[Len(s)]

LEMMA FreeDescFacts ==
  ASSUME NEW d \in [Descs -> Descriptor], NEW head \in Descs \cup {Nil}, NEW s, IsChain(s)
  PROVE  Relinked(d, head, s, virtqueue_free_desc(d, head, s).desc,
                  virtqueue_free_desc(d, head, s).head)
<1>0. s \in Seq(Descs) /\ \A j, k \in 1..Len(s) : s[j] = s[k] => j = k
  BY DEF IsChain
<1> DEFINE r == virtqueue_free_desc(d, head, s).desc
           at(i) == CHOOSE k \in 1..Len(s) : s[k] = i
           link(i) == [d[i] EXCEPT !.next = IF at(i) = 1 THEN head ELSE s[at(i) - 1],
                                   !.flags = {"NEXT"}]
<1>1. r = [i \in Descs |-> IF \E k \in 1..Len(s) : s[k] = i THEN link(i) ELSE d[i]]
  BY DEF virtqueue_free_desc
<1>2. Len(s) \in Nat /\ \A k \in 1..Len(s) : s[k] \in Descs
  BY <1>0
<1>3. ASSUME NEW k \in 1..Len(s) PROVE at(s[k]) = k
  <2>1. at(s[k]) \in 1..Len(s) /\ s[at(s[k])] = s[k]
    OBVIOUS
  <2> QED BY <1>0, <2>1
<1>4. ASSUME NEW k \in 1..Len(s)
      PROVE  r[s[k]] \in Descriptor /\ r[s[k]].next = IF k = 1 THEN head ELSE s[k - 1]
  <2> DEFINE v == IF k = 1 THEN head ELSE s[k - 1]
             e == d[s[k]]
             x == [e EXCEPT !.next = v, !.flags = {"NEXT"}]
  <2>1. r[s[k]] = link(s[k])
    BY <1>1, <1>2
  <2>2. link(s[k]) = x
    BY <1>3
  <2>3. v \in Descs \cup {Nil}
    <3>1. k # 1 => k - 1 \in 1..Len(s)
      BY <1>2
    <3> QED BY <1>2, <3>1
  <2>4. e \in Descriptor /\ {"NEXT"} \in SUBSET Flags
    BY <1>2 DEF Flags
  <2>5. x \in Descriptor /\ x.next = v
    <3> HIDE DEF e, v
    <3> QED BY <2>3, <2>4 DEF Descriptor
  <2> HIDE DEF r, link, x
  <2> QED BY <2>1, <2>2, <2>5
<1>5. \A i \in Descs : (\A k \in 1..Len(s) : s[k] # i) => r[i] = d[i]
  BY <1>1
<1>6. r \in [Descs -> Descriptor]
  <2>1. ASSUME NEW i \in Descs PROVE r[i] \in Descriptor
    <3> HIDE DEF r
    <3> QED BY <1>4, <1>5
  <2>2. r = [i \in Descs |-> r[i]]
    BY <1>1
  <2> HIDE DEF r
  <2> QED BY <2>1, <2>2
<1>7. virtqueue_free_desc(d, head, s).head = IF Len(s) = 0 THEN head ELSE s[Len(s)]
  BY DEF virtqueue_free_desc
<1>8. Len(s) # 0 => s[Len(s)] \in Descs
  BY <1>2
<1> HIDE DEF r
<1>9. /\ r \in [Descs -> Descriptor]
      /\ \A k \in 1..Len(s) : r[s[k]].next = IF k = 1 THEN head ELSE s[k - 1]
      /\ \A i \in Descs : (\A k \in 1..Len(s) : s[k] # i) => r[i] = d[i]
  BY <1>4, <1>5, <1>6
<1>10. virtqueue_free_desc(d, head, s).head \in Descs \cup {Nil}
  BY <1>7, <1>8
<1> QED BY <1>7, <1>9, <1>10 DEF r, Relinked

-----------------------------------------------------------------------------
(* VirtioBlk: types and descriptors, for any device.                       *)

Held == {chain[k] : k \in 1..Len(chain)}

\* The chain's descriptors differ, and in the table they are linked in order
\* as the request in progress has them.
ChainDiffers ==
  /\ chain \in Seq(0..(size - 1))
  /\ \A j, k \in 1..Len(chain) : chain[j] = chain[k] => j = k

ChainLinked ==
  /\ Len(chain) = Len(Roles(call))
  /\ \A k \in 1..Len(chain) :
       /\ desc[chain[k]].addr = Roles(call)[k].addr
       /\ desc[chain[k]].flags = Roles(call)[k].flags
       /\ k # Len(chain) => desc[chain[k]].next = chain[k + 1]

\* The chain holds the request in progress, and the free list the rest.
ChainInv ==
  /\ Free(desc, freeHead, freeCount, size, Held)
  /\ ChainDiffers
  /\ pc \in {"idle", "alloc"} => chain = <<>>
  /\ pc \in {"kick", "poll"} => ChainLinked
  /\ pc # "idle" => hdr = [op |-> call.op, sector |-> call.sector]

BlkInv == TypeOK /\ ChainInv

LEMMA BlkBounds ==
  /\ {"none", "hdr", "status"} \subseteq Addrs /\ Buffers \subseteq Addrs
  /\ MAX_OVERLAPS \in Nat /\ LATE \in BOOLEAN /\ IO_ERRORS \in BOOLEAN /\ FLUSH \in BOOLEAN
BY BlkAssumption

\* What a request's descriptors point to.
LEMMA RolesFacts ==
  ASSUME NEW r, r.op \in {"read", "write", "flush"}, r.buf \in Buffers
  PROVE  /\ Len(Roles(r)) = IF r.op = "flush" THEN 2 ELSE 3
         /\ \A k \in 1..Len(Roles(r)) :
              Roles(r)[k].addr \in Addrs /\ Roles(r)[k].flags \in SUBSET Flags
         /\ r.op # "flush" => Roles(r)[2].addr = r.buf
<1> DEFINE header == [addr |-> "hdr", flags |-> {"NEXT"}]
           data   == [addr |-> r.buf, flags |-> {"NEXT"} \cup IF r.op = "read" THEN {"WRITE"} ELSE {}]
           stat   == [addr |-> "status", flags |-> {"WRITE"}]
<1>1. Roles(r) = IF r.op = "flush" THEN <<header, stat>> ELSE <<header, data, stat>>
  BY DEF Roles
<1>2. /\ header.addr \in Addrs /\ header.flags \in SUBSET Flags
      /\ data.addr \in Addrs /\ data.flags \in SUBSET Flags /\ data.addr = r.buf
      /\ stat.addr \in Addrs /\ stat.flags \in SUBSET Flags
  BY BlkBounds DEF Flags
<1> HIDE DEF header, data, stat
<1>3. CASE r.op = "flush"
  <2>1. Roles(r) = <<header, stat>>
    BY <1>1, <1>3
  <2> QED BY <1>2, <1>3, <2>1
<1>4. CASE r.op # "flush"
  <2>1. Roles(r) = <<header, data, stat>>
    BY <1>1, <1>4
  <2> QED BY <1>2, <1>4, <2>1
<1> QED BY <1>3, <1>4

LEMMA CallFacts ==
  ASSUME call \in [op : Ops, sector : Sectors, buf : Buffers]
  PROVE  /\ call.op \in {"read", "write", "flush"} /\ call.buf \in Buffers
         /\ Len(Roles(call)) \in {2, 3}
BY RolesFacts, BlkBounds DEF Ops

LEMMA BlkInitInv == Init => BlkInv
<1> SUFFICES ASSUME Init PROVE BlkInv
  OBVIOUS
<1> USE DEF Init, virtqueue_alloc
<1>1. size \in Sizes /\ size \in Nat \ {0} /\ 0..(size - 1) \subseteq Descs /\ IDX_MOD > size
  BY SizeFacts
<1>2. /\ 0 \in Descs /\ \A i \in Descs : i < size - 1 => i + 1 \in Descs
      /\ {"NEXT"} \in SUBSET Flags /\ {} \in SUBSET Flags /\ "none" \in Addrs
  <2>1. \A i \in Descs : i \in Nat
    BY DEF Descs
  <2>2. \A i \in Descs : i < size - 1 => i + 1 \in 0..(size - 1)
    BY <1>1, <2>1
  <2> QED BY <1>1, <2>2, BlkBounds DEF Flags
<1>3. desc \in [Descs -> Descriptor]
  BY <1>2 DEF Descriptor
<1>4. VirtqueueTypeOK
  <2>1. 0 \in 0..(IDX_MOD - 1) /\ size \in 0..size
    BY <1>1, VirtqueueAssumption
  <2> QED BY <1>1, <1>2, <1>3, <2>1 DEF VirtqueueTypeOK, Descriptor
<1>5. TypeOK
  <2>1. call \in [op : Ops, sector : Sectors, buf : Buffers]
    BY DEF Ops
  <2>2. hdr \in [op : Ops, sector : Sectors]
    BY <2>1 DEF Ops
  <2>3. 0 \in 0..(IDX_MOD - 1) /\ 0 \in 0..MAX_OVERLAPS
    BY <1>1, VirtqueueAssumption, BlkBounds
  <2>4. chain \in Seq(Descs)
    OBVIOUS
  <2> QED BY <1>4, <2>1, <2>2, <2>3, <2>4 DEF TypeOK, Statuses, Rets
<1>6. Free(desc, freeHead, freeCount, size, Held)
  <2> DEFINE f == [k \in 0..size |-> IF k = size THEN Nil ELSE k]
  <2>1. Held = {}
    BY DEF Held
  <2>2. IsList(f, desc, 0, size, size, {})
    <3>1. f[0] = 0 /\ f[size] = Nil
      BY <1>1
    <3>2. ASSUME NEW k \in 0..(size - 1)
          PROVE  f[k] = k /\ k \in 0..(size - 1) /\ desc[k].next = f[k + 1]
      BY <1>1
    <3>3. \A k \in 0..(size - 1) : f[k] = k /\ desc[k].next = f[k + 1]
      BY <3>2
    <3> HIDE DEF f
    <3>4. \A k \in 0..(size - 1) : f[k] \in (0..(size - 1)) \ {} /\ desc[f[k]].next = f[k + 1]
      BY <3>3
    <3>5. \A j, k \in 0..(size - 1) : f[j] = f[k] => j = k
      <4> TAKE j, k \in 0..(size - 1)
      <4>1. f[j] = j /\ f[k] = k
        BY <3>3
      <4> QED BY <4>1
    <3>6. \A i \in (0..(size - 1)) \ {} : \E k \in 0..(size - 1) : f[k] = i
      BY <3>3
    <3> QED BY <3>1, <3>4, <3>5, <3>6 DEF IsList
  <2> HIDE DEF f
  <2> QED BY <1>1, <2>1, <2>2 DEF Free
<1>7. ChainInv
  BY <1>6 DEF ChainInv, ChainDiffers
<1> QED BY <1>5, <1>7 DEF BlkInv

\* The descriptors of a chain are put back in front of the free list.
LEMMA ReleaseFacts ==
  ASSUME BlkInv, Release, UNCHANGED size
  PROVE  /\ desc' \in [Descs -> Descriptor] /\ freeHead' \in Descs \cup {Nil}
         /\ freeCount' \in 0..size /\ chain' = <<>> /\ Held' = {}
         /\ Free(desc', freeHead', freeCount', size, {})
<1> DEFINE m == Len(chain)
           D == virtqueue_free_desc(desc, freeHead, chain).desc
           H == virtqueue_free_desc(desc, freeHead, chain).head
<1>1. /\ size \in Nat \ {0} /\ 0..(size - 1) \subseteq Descs
      /\ desc \in [Descs -> Descriptor] /\ freeHead \in Descs \cup {Nil}
      /\ chain \in Seq(Descs) /\ m \in Nat
  <2>1. size \in Sizes /\ chain \in Seq(Descs) /\ freeHead \in Descs \cup {Nil}
    BY DEF BlkInv, TypeOK, VirtqueueTypeOK
  <2>2. desc \in [Descs -> Descriptor]
    BY DEF BlkInv, TypeOK, VirtqueueTypeOK, Descriptor
  <2>3. size \in Nat \ {0} /\ 0..(size - 1) \subseteq Descs
    BY <2>1, SizeFacts
  <2>4. m \in Nat
    BY <2>1
  <2> QED BY <2>1, <2>2, <2>3, <2>4
<1>2. /\ chain \in Seq(0..(size - 1))
      /\ \A j, k \in 1..m : chain[j] = chain[k] => j = k
      /\ Free(desc, freeHead, freeCount, size, Held)
  BY DEF BlkInv, ChainInv, ChainDiffers
<1>3. /\ desc' = D /\ freeHead' = H
      /\ freeCount' = freeCount + m /\ chain' = <<>>
  BY DEF Release
<1>4. /\ D \in [Descs -> Descriptor] /\ H \in Descs \cup {Nil}
      /\ \A k \in 1..m : D[chain[k]].next = IF k = 1 THEN freeHead ELSE chain[k - 1]
      /\ \A i \in Descs : (\A k \in 1..m : chain[k] # i) => D[i] = desc[i]
      /\ H = IF m = 0 THEN freeHead ELSE chain[m]
  <2>1. IsChain(chain)
    BY <1>1, <1>2 DEF IsChain
  <2>2. Relinked(desc, freeHead, chain, D, H)
    BY <1>1, <2>1, FreeDescFacts
  <2> HIDE DEF D, H
  <2> QED BY <2>2 DEF Relinked
<1> HIDE DEF D, H
<1>5. \A k \in 1..m : chain[k] \in 0..(size - 1) /\ chain[k] \in Held
  <2>1. \A k \in 1..Len(chain) : chain[k] \in 0..(size - 1)
    <3> DEFINE S == 0..(size - 1)
    <3>1. chain \in Seq(S)
      BY <1>2
    <3> HIDE DEF S
    <3>2. \A k \in 1..Len(chain) : chain[k] \in S
      BY <3>1
    <3> QED BY <3>2 DEF S
  <2>2. \A k \in 1..Len(chain) : chain[k] \in Held
    BY DEF Held
  <2> QED BY <2>1, <2>2
<1>a. \A i \in (0..(size - 1)) \ Held : D[i].next = desc[i].next
  <2> TAKE i \in (0..(size - 1)) \ Held
  <2>1. i \in Descs /\ \A k \in 1..m : chain[k] # i
    BY <1>1, <1>5
  <2> QED BY <1>4, <2>1
<1>b. Given(desc, freeHead, size, Held, chain, m, D, H)
  BY <1>1, <1>2, <1>4, <1>5, <1>a DEF Given
<1>6. Free(D, H, freeCount + m, size, Held \ {chain[k] : k \in 1..m})
  <2> DEFINE C == Held
  <2> HIDE DEF m
  <2>1. size \in Nat /\ Free(desc, freeHead, freeCount, size, C)
    BY <1>1, <1>2
  <2>2. Given(desc, freeHead, size, C, chain, m, D, H)
    BY <1>b
  <2> HIDE DEF C, H, D
  <2>3. Free(D, H, freeCount + m, size, C \ {chain[k] : k \in 1..m})
    BY <2>1, <2>2, FreeGive
  <2> QED BY <2>3 DEF C
<1>7. Held \ {chain[k] : k \in 1..m} = {}
  BY DEF Held
<1>8. Free(desc', freeHead', freeCount', size, {})
  BY <1>3, <1>6, <1>7
<1>9. freeCount' \in 0..size
  BY <1>1, <1>8, FreeFacts DEF Listing
<1>10. Held' = {}
  BY <1>3 DEF Held
<1> QED BY <1>3, <1>4, <1>8, <1>9, <1>10

\* The descriptors n allocations take.
LEMMA TakenFacts ==
  ASSUME BlkInv, chain = <<>>, NEW n \in 0..freeCount
  PROVE  LET s == virtqueue_alloc_desc(n) IN
         /\ s \in Seq(0..(size - 1)) /\ s \in Seq(Descs) /\ Len(s) = n
         /\ \A k \in 1..n : s[k] = Nth(desc, freeHead, k - 1)
         /\ \A j, k \in 1..n : s[j] = s[k] => j = k
         /\ {s[k] : k \in 1..n} = {Nth(desc, freeHead, k) : k \in 0..(n - 1)}
<1> DEFINE s == virtqueue_alloc_desc(n)
           S == 0..(size - 1)
<1>1. size \in Sizes /\ size \in Nat /\ S \subseteq Descs
  BY SizeFacts DEF BlkInv, TypeOK, VirtqueueTypeOK
<1>2. Free(desc, freeHead, freeCount, size, {})
  <2>1. Held = {}
    BY DEF Held
  <2> QED BY <2>1 DEF BlkInv, ChainInv
<1>3. /\ freeCount \in Nat /\ n \in Nat
      /\ \A k \in 0..(freeCount - 1) : Nth(desc, freeHead, k) \in S
      /\ \A j, k \in 0..(freeCount - 1) : Nth(desc, freeHead, j) = Nth(desc, freeHead, k) => j = k
  <2>1. Listing(desc, freeHead, freeCount, size, {})
    BY <1>1, <1>2, FreeFacts
  <2>2. /\ freeCount \in 0..size
        /\ \A k \in 0..(freeCount - 1) : Nth(desc, freeHead, k) \in S \ {}
        /\ \A j, k \in 0..(freeCount - 1) : Nth(desc, freeHead, j) = Nth(desc, freeHead, k) => j = k
    BY <2>1 DEF Listing
  <2> QED BY <1>1, <2>2
<1>4. s = [k \in 1..n |-> Nth(desc, freeHead, k - 1)]
  BY WalkIsNth DEF virtqueue_alloc_desc
<1>5. ASSUME NEW k \in 1..n PROVE s[k] = Nth(desc, freeHead, k - 1) /\ k - 1 \in 0..(freeCount - 1)
  <2>1. k - 1 \in 0..(freeCount - 1)
    BY <1>3
  <2> QED BY <1>4, <2>1
<1>6. s \in Seq(S) /\ s \in Seq(Descs) /\ Len(s) = n
  <2>1. \A k \in 1..n : s[k] \in S
    BY <1>3, <1>5
  <2>2. s \in [1..n -> S] /\ s \in [1..n -> Descs]
    <3>1. s = [k \in 1..n |-> s[k]]
      BY <1>4
    <3> HIDE DEF s, S
    <3> QED BY <1>1, <2>1, <3>1
  <2> HIDE DEF s, S
  <2> QED BY <1>3, <2>2
<1>7. \A j, k \in 1..n : s[j] = s[k] => j = k
  <2> TAKE j, k \in 1..n
  <2> HAVE s[j] = s[k]
  <2>1. j - 1 = k - 1
    BY <1>3, <1>5
  <2> QED BY <2>1, <1>3
<1>8. {s[k] : k \in 1..n} = {Nth(desc, freeHead, k) : k \in 0..(n - 1)}
  <2>1. \A k \in 1..n : k - 1 \in 0..(n - 1) /\ s[k] = Nth(desc, freeHead, k - 1)
    BY <1>3, <1>5
  <2>2. ASSUME NEW k \in 0..(n - 1) PROVE k + 1 \in 1..n /\ s[k + 1] = Nth(desc, freeHead, k)
    <3>1. k + 1 \in 1..n /\ (k + 1) - 1 = k
      BY <1>3
    <3> QED BY <1>5, <3>1
  <2> HIDE DEF s
  <2> QED BY <2>1, <2>2
<1>9. \A k \in 1..n : s[k] = Nth(desc, freeHead, k - 1)
  BY <1>5
<1> HIDE DEF s
<1>10. /\ s \in Seq(0..(size - 1)) /\ s \in Seq(Descs) /\ Len(s) = n
       /\ \A k \in 1..n : s[k] = Nth(desc, freeHead, k - 1)
       /\ \A j, k \in 1..n : s[j] = s[k] => j = k
       /\ {s[k] : k \in 1..n} = {Nth(desc, freeHead, k) : k \in 0..(n - 1)}
  BY <1>6, <1>7, <1>8, <1>9
<1> QED BY <1>10 DEF s

\* A failed allocation gives everything back.
LEMMA AllocFullFacts ==
  ASSUME BlkInv, AllocFull
  PROVE  /\ desc' \in [Descs -> Descriptor] /\ freeHead' \in Descs \cup {Nil}
         /\ freeCount' \in 0..size /\ Held' = {} /\ chain' = <<>>
         /\ Free(desc', freeHead', freeCount', size, {})
<1> DEFINE taken == virtqueue_alloc_desc(freeCount)
           D == virtqueue_free_desc(desc, Nil, taken).desc
           H == virtqueue_free_desc(desc, Nil, taken).head
           C == 0..(size - 1)
<1>1. pc = "alloc" /\ desc' = D /\ freeHead' = H /\ UNCHANGED <<freeCount, chain, size>>
  BY DEF AllocFull
<1>2. chain = <<>> /\ Held = {} /\ Held' = {}
  BY <1>1 DEF BlkInv, ChainInv, Held
<1>3. /\ size \in Nat \ {0} /\ C \subseteq Descs /\ desc \in [Descs -> Descriptor]
      /\ freeCount \in 0..size /\ freeCount \in 0..freeCount
  <2>1. size \in Sizes /\ freeCount \in 0..size /\ desc \in [Descs -> Descriptor]
    BY DEF BlkInv, TypeOK, VirtqueueTypeOK, Descriptor
  <2>2. size \in Nat \ {0} /\ C \subseteq Descs
    BY <2>1, SizeFacts
  <2> QED BY <2>1, <2>2
<1>4. Free(desc, freeHead, freeCount, size, {})
  BY <1>2 DEF BlkInv, ChainInv
<1>5. /\ taken \in Seq(C) /\ taken \in Seq(Descs) /\ Len(taken) = freeCount
      /\ \A j, k \in 1..freeCount : taken[j] = taken[k] => j = k
      /\ {taken[k] : k \in 1..freeCount} = {Nth(desc, freeHead, k) : k \in 0..(freeCount - 1)}
  <2> HIDE DEF taken
  <2> QED BY <1>2, <1>3, TakenFacts DEF taken
<1>6. {taken[k] : k \in 1..freeCount} = C
  <2>1. size \in Nat
    BY <1>3
  <2>2. Listing(desc, freeHead, freeCount, size, {})
    BY <2>1, <1>4, FreeFacts
  <2>3. {Nth(desc, freeHead, k) : k \in 0..(freeCount - 1)} = C
    BY <2>2 DEF Listing
  <2> HIDE DEF C
  <2> QED BY <1>5, <2>3
<1> HIDE DEF taken
<1>7. /\ D \in [Descs -> Descriptor] /\ H \in Descs \cup {Nil}
      /\ \A k \in 1..freeCount : D[taken[k]].next = IF k = 1 THEN Nil ELSE taken[k - 1]
      /\ H = IF freeCount = 0 THEN Nil ELSE taken[freeCount]
  <2>1. IsChain(taken)
    BY <1>5 DEF IsChain
  <2>2. Relinked(desc, Nil, taken, D, H)
    BY <1>3, <2>1, FreeDescFacts
  <2> HIDE DEF D, H
  <2> QED BY <1>5, <2>2 DEF Relinked
<1> HIDE DEF D, H
<1>8. Given(desc, Nil, size, C, taken, freeCount, D, H)
  <2>1. \A k \in 1..freeCount : taken[k] \in C
    BY <1>6
  <2>2. \A i \in (0..(size - 1)) \ C : D[i].next = desc[i].next
    OBVIOUS
  <2> HIDE DEF C
  <2>3. \A k \in 1..freeCount : taken[k] \in 0..(size - 1) /\ taken[k] \in C
    BY <2>1 DEF C
  <2> QED BY <1>3, <1>5, <1>7, <2>2, <2>3 DEF Given
<1>9. Free(desc, Nil, 0, size, C)
  <2> DEFINE f == [k \in {0} |-> Nil]
  <2>1. IsList(f, desc, Nil, 0, size, C)
    BY DEF IsList
  <2> QED BY <2>1 DEF Free
<1>10. Free(D, H, 0 + freeCount, size, C \ {taken[k] : k \in 1..freeCount})
  <2>1. size \in Nat
    BY <1>3
  <2> HIDE DEF C
  <2> QED BY <2>1, <1>8, <1>9, FreeGive
<1>11. 0 + freeCount = freeCount /\ C \ {taken[k] : k \in 1..freeCount} = {}
  BY <1>3, <1>6
<1>12. Free(D, H, freeCount, size, {})
  <2> HIDE DEF C
  <2> QED BY <1>10, <1>11
<1> QED BY <1>1, <1>2, <1>3, <1>7, <1>12

\* An allocation links the descriptors it takes.
LEMMA LinkedFacts ==
  ASSUME desc \in [Descs -> Descriptor], NEW s, IsChain(s), NEW roles, 0 \in Descs,
         \A k \in 1..Len(s) : roles[k].addr \in Addrs /\ roles[k].flags \in SUBSET Flags
  PROVE  /\ Linked(s, roles) \in [Descs -> Descriptor]
         /\ \A k \in 1..Len(s) :
              /\ Linked(s, roles)[s[k]].addr = roles[k].addr
              /\ Linked(s, roles)[s[k]].flags = roles[k].flags
              /\ k # Len(s) => Linked(s, roles)[s[k]].next = s[k + 1]
         /\ \A i \in Descs : (\A k \in 1..Len(s) : s[k] # i) => Linked(s, roles)[i] = desc[i]
<1> DEFINE r == Linked(s, roles)
           at(i) == CHOOSE k \in 1..Len(s) : s[k] = i
           link(k) == [addr |-> roles[k].addr, flags |-> roles[k].flags,
                       next |-> IF k = Len(s) THEN 0 ELSE s[k + 1]]
<1>0. s \in Seq(Descs) /\ \A j, k \in 1..Len(s) : s[j] = s[k] => j = k
  BY DEF IsChain
<1>1. r = [i \in Descs |-> IF \E k \in 1..Len(s) : s[k] = i THEN link(at(i)) ELSE desc[i]]
  BY DEF Linked
<1>2. Len(s) \in Nat /\ \A k \in 1..Len(s) : s[k] \in Descs
  BY <1>0
<1>3. ASSUME NEW k \in 1..Len(s) PROVE r[s[k]] = link(k)
  <2>1. at(s[k]) \in 1..Len(s) /\ s[at(s[k])] = s[k]
    OBVIOUS
  <2>2. at(s[k]) = k
    BY <1>0, <2>1
  <2>3. r[s[k]] = link(at(s[k]))
    BY <1>1, <1>2
  <2> QED BY <2>2, <2>3
<1>4. ASSUME NEW k \in 1..Len(s) PROVE link(k) \in Descriptor
  <2>1. k # Len(s) => k + 1 \in 1..Len(s)
    BY <1>2
  <2> QED BY <1>2, <2>1 DEF Descriptor
<1>5. \A i \in Descs : (\A k \in 1..Len(s) : s[k] # i) => r[i] = desc[i]
  BY <1>1
<1>6. r \in [Descs -> Descriptor]
  <2>1. r = [i \in Descs |-> r[i]]
    BY <1>1
  <2> HIDE DEF r, link
  <2>2. ASSUME NEW i \in Descs PROVE r[i] \in Descriptor
    BY <1>3, <1>4, <1>5
  <2> QED BY <2>1, <2>2
<1>7. \A k \in 1..Len(s) :
        /\ r[s[k]].addr = roles[k].addr /\ r[s[k]].flags = roles[k].flags
        /\ k # Len(s) => r[s[k]].next = s[k + 1]
  <2> TAKE k \in 1..Len(s)
  <2>1. r[s[k]] = link(k)
    BY <1>3
  <2> HIDE DEF r
  <2> QED BY <2>1
<1> HIDE DEF r
<1>8. /\ r \in [Descs -> Descriptor]
      /\ \A k \in 1..Len(s) :
           /\ r[s[k]].addr = roles[k].addr /\ r[s[k]].flags = roles[k].flags
           /\ k # Len(s) => r[s[k]].next = s[k + 1]
      /\ \A i \in Descs : (\A k \in 1..Len(s) : s[k] # i) => r[i] = desc[i]
  BY <1>5, <1>6, <1>7
<1> QED BY <1>8 DEF r

LEMMA AllocChainInv == BlkInv /\ AllocChain => BlkInv'
<1> SUFFICES ASSUME BlkInv, AllocChain PROVE BlkInv'
  OBVIOUS
<1> DEFINE n == Len(Roles(call))
           s == virtqueue_alloc_desc(n)
           D == Linked(s, Roles(call))
<1>1. /\ pc = "alloc" /\ pc' = "kick" /\ n <= freeCount
      /\ chain' = s /\ freeHead' = Nth(desc, freeHead, n) /\ freeCount' = freeCount - n /\ desc' = D
      /\ UNCHANGED <<size, availVars, usedVars, lastUsed, memVars, call, ret, overlaps, devVars>>
  BY WalkIsNth DEF AllocChain, LeftFree
<1>2. /\ TypeOK /\ chain = <<>> /\ Held = {} /\ Free(desc, freeHead, freeCount, size, {})
      /\ hdr = [op |-> call.op, sector |-> call.sector]
  <2>1. TypeOK /\ chain = <<>> /\ hdr = [op |-> call.op, sector |-> call.sector]
    BY <1>1 DEF BlkInv, ChainInv
  <2>2. Held = {}
    BY <2>1 DEF Held
  <2> QED BY <2>1, <2>2 DEF BlkInv, ChainInv
<1>3. /\ size \in Sizes /\ size \in Nat \ {0} /\ 0..(size - 1) \subseteq Descs /\ 0 \in Descs
      /\ freeCount \in 0..size /\ n \in 0..freeCount /\ n \in {2, 3}
  <2>1. size \in Sizes /\ freeCount \in 0..size
    BY <1>2 DEF TypeOK, VirtqueueTypeOK
  <2>2. size \in Nat \ {0} /\ 0..(size - 1) \subseteq Descs
    BY <2>1, SizeFacts
  <2>3. n \in {2, 3}
    BY <1>2, CallFacts DEF TypeOK
  <2> QED BY <1>1, <2>1, <2>2, <2>3
<1>4. /\ s \in Seq(0..(size - 1)) /\ s \in Seq(Descs) /\ Len(s) = n
      /\ \A k \in 1..n : s[k] = Nth(desc, freeHead, k - 1)
      /\ \A j, k \in 1..n : s[j] = s[k] => j = k
      /\ {s[k] : k \in 1..n} = {Nth(desc, freeHead, k) : k \in 0..(n - 1)}
  <2> HIDE DEF n
  <2>1. LET t == virtqueue_alloc_desc(n) IN
         /\ t \in Seq(0..(size - 1)) /\ t \in Seq(Descs) /\ Len(t) = n
         /\ \A k \in 1..n : t[k] = Nth(desc, freeHead, k - 1)
         /\ \A j, k \in 1..n : t[j] = t[k] => j = k
         /\ {t[k] : k \in 1..n} = {Nth(desc, freeHead, k) : k \in 0..(n - 1)}
    BY <1>2, <1>3, TakenFacts
  <2> QED BY <2>1
<1> HIDE DEF s
<1>5. /\ D \in [Descs -> Descriptor]
      /\ \A k \in 1..Len(s) :
           /\ D[s[k]].addr = Roles(call)[k].addr
           /\ D[s[k]].flags = Roles(call)[k].flags
           /\ k # Len(s) => D[s[k]].next = s[k + 1]
      /\ \A i \in Descs : (\A k \in 1..Len(s) : s[k] # i) => D[i] = desc[i]
  <2>1. IsChain(s)
    BY <1>4 DEF IsChain
  <2>2. desc \in [Descs -> Descriptor]
    BY <1>2 DEF TypeOK, VirtqueueTypeOK, Descriptor
  <2>3. call.op \in {"read", "write", "flush"} /\ call.buf \in Buffers
    BY <1>2, CallFacts DEF TypeOK
  <2>4. \A k \in 1..Len(Roles(call)) :
          Roles(call)[k].addr \in Addrs /\ Roles(call)[k].flags \in SUBSET Flags
    BY <2>3, RolesFacts
  <2>5. \A k \in 1..Len(s) : Roles(call)[k].addr \in Addrs /\ Roles(call)[k].flags \in SUBSET Flags
    BY <1>4, <2>4
  <2> DEFINE roles == Roles(call)
  <2>6. /\ 0 \in Descs /\ IsChain(s) /\ D = Linked(s, roles)
        /\ \A k \in 1..Len(s) : roles[k].addr \in Addrs /\ roles[k].flags \in SUBSET Flags
    BY <1>3, <2>1, <2>5
  <2> HIDE DEF D, roles, n
  <2>7. D \in [Descs -> Descriptor]
    BY <2>2, <2>6, LinkedFacts
  <2>8. \A k \in 1..Len(s) : /\ D[s[k]].addr = roles[k].addr
                             /\ D[s[k]].flags = roles[k].flags
                             /\ k # Len(s) => D[s[k]].next = s[k + 1]
    BY <2>2, <2>6, LinkedFacts
  <2>9. \A i \in Descs : (\A k \in 1..Len(s) : s[k] # i) => D[i] = desc[i]
    BY <2>2, <2>6, LinkedFacts
  <2> QED BY <2>7, <2>8, <2>9 DEF roles
<1> HIDE DEF D, n
<1>6. Free(D, Nth(desc, freeHead, n), freeCount - n, size, {} \cup {Nth(desc, freeHead, k) : k \in 0..(n - 1)})
  <2>1. ASSUME NEW i \in (0..(size - 1)) \ {}, \A k \in 0..(n - 1) : Nth(desc, freeHead, k) # i
        PROVE  D[i].next = desc[i].next
    <3>1. \A k \in 1..Len(s) : s[k] # i
      BY <1>4, <2>1
    <3> QED BY <1>3, <1>5, <3>1
  <2> QED BY <1>2, <1>3, <2>1, FreeTake
<1>7. Held' = {s[k] : k \in 1..n}
  BY <1>1, <1>4 DEF Held
<1>8. Free(desc', freeHead', freeCount', size', Held')
  BY <1>1, <1>4, <1>6, <1>7
<1>9. freeHead' \in Descs \cup {Nil} /\ freeCount' \in 0..size
  <2>1. Listing(desc', freeHead', freeCount', size, Held')
    BY <1>1, <1>3, <1>8, FreeFacts
  <2> QED BY <1>3, <2>1 DEF Listing
<1>10. TypeOK'
  BY <1>1, <1>2, <1>4, <1>5, <1>9
     DEF TypeOK, VirtqueueTypeOK, Descriptor, availVars, usedVars, memVars, devVars, NoWork, Ops
<1>11. ChainInv'
  <2>1. Roles(call)' = Roles(call)
    BY <1>1 DEF Roles
  <2>2. Len(s) = Len(Roles(call))
    BY <1>4 DEF n
  <2>3. hdr' = [op |-> call'.op, sector |-> call'.sector]
    BY <1>1, <1>2 DEF memVars
  <2>4. chain' = s /\ desc' = D /\ size' = size /\ pc' = "kick"
    BY <1>1
  <2>5. s \in Seq(0..(size - 1)) /\ \A j, k \in 1..Len(s) : s[j] = s[k] => j = k
    BY <1>4
  <2>6. chain' \in Seq(0..(size' - 1)) /\ \A j, k \in 1..Len(chain') : chain'[j] = chain'[k] => j = k
    BY <2>4, <2>5
  <2>7. Len(chain') = Len(Roles(call)') /\ pc' # "idle" /\ pc' # "alloc"
    BY <2>1, <2>2, <2>4
  <2>8. \A k \in 1..Len(chain') :
          /\ desc'[chain'[k]].addr = Roles(call)'[k].addr
          /\ desc'[chain'[k]].flags = Roles(call)'[k].flags
          /\ k # Len(chain') => desc'[chain'[k]].next = chain'[k + 1]
    BY <1>5, <2>1, <2>4
  <2>9. ChainDiffers'
    BY <2>6 DEF ChainDiffers
  <2>10. ChainLinked'
    BY <2>7, <2>8 DEF ChainLinked
  <2> QED BY <1>8, <2>3, <2>7, <2>9, <2>10 DEF ChainInv
<1> QED BY <1>10, <1>11 DEF BlkInv

LEMMA BlkSize == BlkInv => /\ size \in Sizes /\ size \in Nat \ {0} /\ 0..(size - 1) \subseteq Descs
                           /\ IDX_MOD \in Nat /\ IDX_MOD > size
                           /\ \A i \in Nat : i % size \in 0..(size - 1) /\ i % size \in Descs
BY SizeFacts DEF BlkInv, TypeOK, VirtqueueTypeOK

\* A ring index stays one.
LEMMA IndexType ==
  ASSUME BlkInv, NEW i \in 0..(IDX_MOD - 1)
  PROVE  (i + 1) % IDX_MOD \in 0..(IDX_MOD - 1)
<1>1. IDX_MOD \in Nat \ {0}
  BY BlkSize
<1> QED BY <1>1, NextIndex

LEMMA RequestInv == ASSUME BlkInv, NEW r \in Requests, Request(r) PROVE BlkInv'
<1>1. r \in [op : Ops, sector : Sectors, buf : Buffers]
  BY DEF Requests, Transfers, Ops, BlkInv, TypeOK
<1>2. PICK d \in Data : buffer' = IF r.op = "write" THEN [buffer EXCEPT ![r.buf] = d] ELSE buffer
  BY DEF Request
<1>3. buffer' \in [Buffers -> Data]
  BY <1>1, <1>2 DEF BlkInv, TypeOK
<1>4. overlaps' \in 0..MAX_OVERLAPS
  <2>1. overlaps \in Nat /\ overlaps' \in {overlaps, overlaps + 1} /\ overlaps' <= MAX_OVERLAPS
    BY DEF BlkInv, TypeOK, Request
  <2> QED BY <2>1, BlkBounds
<1>5. /\ pc = "idle" /\ pc' = "alloc" /\ call' = r /\ hdr' = [op |-> r.op, sector |-> r.sector]
      /\ status' = "unset" /\ UNCHANGED <<vqVars, chain, ret, devVars>>
  BY DEF Request
<1>6. TypeOK'
  BY <1>1, <1>3, <1>4, <1>5
     DEF BlkInv, TypeOK, VirtqueueTypeOK, vqVars, freeVars, availVars, usedVars, devVars, NoWork,
         Statuses, Ops
<1>7. ChainInv'
  <2>1. UNCHANGED <<desc, freeHead, freeCount, size, chain>> /\ chain = <<>> /\ Held' = Held
    BY <1>5 DEF vqVars, freeVars, Held, BlkInv, ChainInv
  <2> QED BY <1>5, <2>1 DEF BlkInv, ChainInv, ChainDiffers
<1> QED BY <1>6, <1>7 DEF BlkInv

LEMMA KickInv == BlkInv /\ Kick => BlkInv'
<1> SUFFICES ASSUME BlkInv, Kick PROVE BlkInv'
  OBVIOUS
<1>1. /\ pc = "kick" /\ pc' = "poll" /\ availIdx' = (availIdx + 1) % IDX_MOD
      /\ avail' = [avail EXCEPT ![availIdx % size] = chain[1]]
      /\ UNCHANGED <<size, freeVars, usedVars, lastUsed, memVars, call, chain, ret, overlaps, devVars>>
  BY DEF Kick, virtqueue_kick
<1>2. availIdx' \in 0..(IDX_MOD - 1)
  BY <1>1, IndexType DEF BlkInv, TypeOK, VirtqueueTypeOK
<1>3. chain[1] \in Descs
  <2>1. Len(chain) = Len(Roles(call)) /\ chain \in Seq(Descs)
    BY <1>1 DEF BlkInv, ChainInv, ChainLinked, TypeOK
  <2>2. Len(Roles(call)) \in {2, 3}
    BY CallFacts DEF BlkInv, TypeOK
  <2> QED BY <2>1, <2>2
<1>4. avail' \in [Descs -> Descs]
  BY <1>1, <1>3 DEF BlkInv, TypeOK, VirtqueueTypeOK
<1>5. TypeOK'
  BY <1>1, <1>2, <1>4
     DEF BlkInv, TypeOK, VirtqueueTypeOK, freeVars, usedVars, memVars, devVars, NoWork, Ops
<1>6. ChainInv'
  <2>1. UNCHANGED <<desc, freeHead, freeCount, size, chain, call, hdr>>
    BY <1>1 DEF freeVars, memVars
  <2>2. Held' = Held /\ (ChainLinked <=> ChainLinked') /\ (ChainDiffers => ChainDiffers')
    BY <2>1 DEF Held, ChainLinked, Roles, ChainDiffers
  <2> QED BY <1>1, <2>1, <2>2 DEF BlkInv, ChainInv
<1> QED BY <1>5, <1>6 DEF BlkInv

\* The driver's steps that end a request.
LEMMA EndInv ==
  ASSUME BlkInv, pc' = "idle", ret' \in Rets, chain' = <<>>,
         desc' \in [Descs -> Descriptor], freeHead' \in Descs \cup {Nil}, freeCount' \in 0..size,
         Free(desc', freeHead', freeCount', size, {}), Held' = {},
         lastUsed' \in 0..(IDX_MOD - 1),
         UNCHANGED <<size, availVars, usedVars, memVars, call, overlaps, devVars>>
  PROVE  BlkInv'
<1>1. TypeOK'
  BY DEF BlkInv, TypeOK, VirtqueueTypeOK, availVars, usedVars, memVars, devVars, NoWork, Ops,
         Descriptor
<1>2. ChainInv'
  BY DEF ChainInv, ChainDiffers
<1> QED BY <1>1, <1>2 DEF BlkInv

LEMMA DriverInv == BlkInv /\ Driver => BlkInv'
<1> SUFFICES ASSUME BlkInv, Driver PROVE BlkInv'
  OBVIOUS
<1>1. lastUsed \in 0..(IDX_MOD - 1) /\ (lastUsed + 1) % IDX_MOD \in 0..(IDX_MOD - 1)
  BY IndexType DEF BlkInv, TypeOK, VirtqueueTypeOK
<1>2. Result \in Rets
  BY DEF Result, Rets
<1>3. CASE AllocFull
  <2>1. /\ ret' = "full" /\ pc' = "idle"
        /\ UNCHANGED <<size, availVars, usedVars, lastUsed, memVars, call, overlaps, devVars>>
    BY <1>3 DEF AllocFull
  <2>2. /\ desc' \in [Descs -> Descriptor] /\ freeHead' \in Descs \cup {Nil}
        /\ freeCount' \in 0..size /\ Held' = {} /\ chain' = <<>>
        /\ Free(desc', freeHead', freeCount', size, {})
    BY <1>3, AllocFullFacts
  <2> QED BY <1>1, <2>1, <2>2, EndInv DEF Rets
<1>4. CASE AllocChain
  BY <1>4, AllocChainInv
<1>5. CASE Kick
  BY <1>5, KickInv
<1>6. ASSUME Complete \/ Timeout PROVE BlkInv'
  <2>1. /\ Release /\ pc' = "idle" /\ ret' \in Rets /\ lastUsed' \in 0..(IDX_MOD - 1)
        /\ UNCHANGED <<size, availVars, usedVars, memVars, call, overlaps, devVars>>
    BY <1>1, <1>2, <1>6 DEF Complete, Timeout, virtqueue_get_used, Rets
  <2>2. /\ desc' \in [Descs -> Descriptor] /\ freeHead' \in Descs \cup {Nil}
        /\ freeCount' \in 0..size /\ chain' = <<>> /\ Held' = {}
        /\ Free(desc', freeHead', freeCount', size, {})
    BY <2>1, ReleaseFacts
  <2> QED BY <2>1, <2>2, EndInv
<1> QED BY <1>3, <1>4, <1>5, <1>6 DEF Driver

LEMMA DeviceInv == BlkInv /\ Device => BlkInv'
<1> SUFFICES ASSUME BlkInv, Device PROVE BlkInv'
  OBVIOUS
<1>1. UNCHANGED <<size, freeVars, availVars, lastUsed, hdr, callVars>>
  BY DEF Device, Fetch, Transfer, Answer, Die, vqVars, memVars
<1>2. ChainInv'
  <2>1. UNCHANGED <<desc, freeHead, freeCount, size, chain, call, hdr, pc>>
    BY <1>1 DEF freeVars, callVars
  <2>2. Held' = Held /\ (ChainLinked <=> ChainLinked') /\ (ChainDiffers => ChainDiffers')
    BY <2>1 DEF Held, ChainLinked, Roles, ChainDiffers
  <2> QED BY <2>1, <2>2 DEF BlkInv, ChainInv
<1>3. TypeOK'
  <2> USE DEF BlkInv, TypeOK
  <2>1. VirtqueueTypeOK /\ size \in Nat \ {0} /\ \A i \in Nat : i % size \in Descs
    BY BlkSize
  <2>2. CASE Fetch
    <3>1. devAvail' \in 0..(IDX_MOD - 1)
      BY <2>2, IndexType DEF Fetch
    <3> DEFINE head == avail[devAvail % size]
    <3>2. head \in Descs
      BY <2>1 DEF VirtqueueTypeOK
    <3>3. work' = NoWork \/ work' \in [head : Descs, op : Ops, sector : Sectors, buf : Buffers,
                                       done : BOOLEAN]
      <4>1. CASE Pending <= size /\ WellFormed(head)
        <5>1. hdr.op \in {"read", "write", "flush"}
          BY DEF Ops
        <5>2. PICK b \in Buffers :
                LET roles == Roles([op |-> hdr.op, sector |-> hdr.sector, buf |-> b]) IN
                \A k \in 1..Len(roles) :
                  LET i == Walk(head, k - 1) IN
                    i # Nil /\ desc[i].addr = roles[k].addr /\ desc[i].flags = roles[k].flags
          BY <4>1 DEF WellFormed
        <5> DEFINE q == [op |-> hdr.op, sector |-> hdr.sector, buf |-> b]
        <5>3. hdr.op # "flush" => desc[Walk(head, 1)].addr \in Buffers
          <6> SUFFICES ASSUME hdr.op # "flush" PROVE desc[Walk(head, 1)].addr \in Buffers
            OBVIOUS
          <6>1. q.op = hdr.op /\ q.buf = b
            OBVIOUS
          <6>2. Len(Roles(q)) = 3 /\ Roles(q)[2].addr = b
            BY <5>1, <6>1, RolesFacts
          <6>3. \A k \in 1..Len(Roles(q)) : desc[Walk(head, k - 1)].addr = Roles(q)[k].addr
            BY <5>2
          <6>4. desc[Walk(head, 2 - 1)].addr = Roles(q)[2].addr
            BY <6>2, <6>3
          <6> QED BY <6>2, <6>4
        <5>4. work' = [head |-> head, op |-> hdr.op, sector |-> hdr.sector, done |-> FALSE,
                       buf |-> IF hdr.op = "flush" THEN call.buf ELSE desc[Walk(head, 1)].addr]
          BY <2>2, <4>1 DEF Fetch
        <5>5. (IF hdr.op = "flush" THEN call.buf ELSE desc[Walk(head, 1)].addr) \in Buffers
          BY <5>3
        <5> HIDE DEF head
        <5> QED BY <3>2, <5>4, <5>5
      <4>2. CASE ~(Pending <= size /\ WellFormed(head))
        BY <2>2, <4>2 DEF Fetch
      <4> QED BY <4>1, <4>2
    <3>4. broken' \in BOOLEAN
      BY <2>2 DEF Fetch
    <3>5. UNCHANGED <<vqVars, memVars, callVars, disk>>
      BY <2>2 DEF Fetch
    <3> QED BY <3>1, <3>3, <3>4, <3>5
            DEF VirtqueueTypeOK, vqVars, freeVars, availVars, usedVars, memVars, callVars, NoWork, Ops
  <2>3. CASE Transfer
    <3>1. /\ work \in [head : Descs, op : Ops, sector : Sectors, buf : Buffers, done : BOOLEAN]
          /\ UNCHANGED <<vqVars, hdr, status, callVars, devAvail, broken>>
      BY <2>3 DEF Transfer
    <3>2. /\ work' \in [head : Descs, op : Ops, sector : Sectors, buf : Buffers, done : BOOLEAN]
          /\ disk' \in [Sectors -> Data] /\ buffer' \in [Buffers -> Data]
      BY <2>3, <3>1 DEF Transfer
    <3> QED BY <3>1, <3>2
            DEF VirtqueueTypeOK, vqVars, freeVars, availVars, usedVars, callVars, Ops
  <2>4. CASE Answer
    <3>1. /\ work.head \in Descs /\ work' = NoWork
          /\ status' \in Statuses /\ used' = [used EXCEPT ![usedIdx % size] = work.head]
          /\ usedIdx' = (usedIdx + 1) % IDX_MOD
          /\ UNCHANGED <<size, freeVars, availVars, lastUsed, hdr, buffer, callVars, devAvail, disk, broken>>
      BY <2>4 DEF Answer, Statuses
    <3>2. used' \in [Descs -> Descs] /\ usedIdx' \in 0..(IDX_MOD - 1)
      BY <3>1, IndexType DEF VirtqueueTypeOK
    <3> QED BY <3>1, <3>2
            DEF VirtqueueTypeOK, freeVars, availVars, callVars, Ops
  <2>5. CASE Die
    BY <2>5 DEF Die, VirtqueueTypeOK, vqVars, freeVars, availVars, usedVars, memVars, callVars, NoWork, Ops
  <2> QED BY <2>2, <2>3, <2>4, <2>5 DEF Device
<1> QED BY <1>2, <1>3 DEF BlkInv

LEMMA BlkStep == BlkInv /\ [Next]_vars => BlkInv'
<1> SUFFICES ASSUME BlkInv, [Next]_vars PROVE BlkInv'
  OBVIOUS
<1>1. CASE \E r \in Requests : Request(r)
  BY <1>1, RequestInv
<1>2. CASE Driver
  BY <1>2, DriverInv
<1>3. CASE Device
  BY <1>3, DeviceInv
<1>4. CASE UNCHANGED vars
  <2> USE <1>4 DEF vars, vqVars, freeVars, availVars, usedVars, memVars, callVars, devVars
  <2>1. TypeOK'
    BY DEF BlkInv, TypeOK, VirtqueueTypeOK, NoWork, Ops
  <2>2. UNCHANGED <<desc, freeHead, freeCount, size, chain, call, hdr, pc>>
    OBVIOUS
  <2>3. Held' = Held /\ (ChainLinked <=> ChainLinked') /\ (ChainDiffers => ChainDiffers')
    BY <2>2 DEF Held, ChainLinked, Roles, ChainDiffers
  <2> QED BY <2>1, <2>2, <2>3 DEF BlkInv, ChainInv
<1> QED BY <1>1, <1>2, <1>3, <1>4 DEF Next

\* Every field of the queue, the driver and the device keeps its type.
THEOREM BlkTypeCorrect == Spec => []TypeOK
<1>1. BlkInv => TypeOK
  BY DEF BlkInv
<1> QED BY BlkInitInv, BlkStep, <1>1, PTL DEF Spec

LEMMA BlkListSound == BlkInv => FreeListSound
<1> SUFFICES ASSUME BlkInv PROVE FreeListSound
  OBVIOUS
<1>1. size \in Nat /\ 0..(size - 1) \subseteq Descs
  BY BlkSize
<1>2. Listing(desc, freeHead, freeCount, size, Held)
  BY <1>1, FreeFacts DEF BlkInv, ChainInv
<1>3. FreeList = (0..(size - 1)) \ Held
  <2>1. FreeList = {Nth(desc, freeHead, k) : k \in 0..(freeCount - 1)}
    BY WalkIsNth DEF FreeList
  <2> QED BY <1>2, <2>1 DEF Listing
<1>4. FreeListIntact
  BY <1>1, <1>2, <1>3, WalkIsNth DEF FreeListIntact, Listing
<1> QED BY <1>3, <1>4 DEF FreeListSound, Held

\* The descriptors the request in progress does not hold are in the free
\* list, each once, whatever the device does and however late it is.
THEOREM FreeListAlways == Spec => []FreeListSound
BY BlkInitInv, BlkStep, BlkListSound, PTL DEF Spec

-----------------------------------------------------------------------------
(* VirtioBlk with a device that answers in time.                           *)

\* The device works on the request in progress.
OwnWork == /\ work \in [head : Descs, op : Ops, sector : Sectors, buf : Buffers, done : BOOLEAN]
           /\ work.head = chain[1] /\ work.op = call.op
           /\ work.sector = call.sector /\ work.buf = call.buf

Filled == call.op = "read" => buffer[call.buf] = disk[call.sector]

\* The three stages of a request the driver polls for.  A device that has
\* stopped leaves it in the available ring for good.
Waiting  == /\ usedIdx = lastUsed /\ status = "unset"
            /\ broken => Pending >= 1
            /\ ~broken => /\ availIdx = (devAvail + 1) % IDX_MOD
                          /\ avail[devAvail % size] = chain[1] /\ work = NoWork
Working  == /\ usedIdx = lastUsed /\ status = "unset" /\ devAvail = availIdx
            /\ OwnWork /\ (work.done => Filled)
Answered == /\ usedIdx = (lastUsed + 1) % IDX_MOD /\ used[lastUsed % size] = chain[1]
            /\ devAvail = availIdx /\ work = NoWork
            /\ status \in {"ok", "ioerr"} /\ (status = "ok" => Filled)

Protocol ==
  /\ pc # "poll" => usedIdx = lastUsed /\ (~broken => devAvail = availIdx /\ work = NoWork)
  /\ pc \in {"alloc", "kick"} => status = "unset"
  /\ pc = "poll" => Waiting \/ Working \/ Answered
  /\ Pending <= IF pc \in {"idle", "poll"} THEN overlaps + 1 ELSE overlaps

TimelyInv == BlkInv /\ Protocol

LEMMA PendingFacts ==
  BlkInv => /\ availIdx \in 0..(IDX_MOD - 1) /\ devAvail \in 0..(IDX_MOD - 1)
            /\ Pending = IF availIdx >= devAvail THEN availIdx - devAvail
                         ELSE availIdx - devAvail + IDX_MOD
            /\ Pending \in Nat /\ (Pending = 0 <=> availIdx = devAvail)
<1> SUFFICES ASSUME BlkInv
             PROVE  /\ availIdx \in 0..(IDX_MOD - 1) /\ devAvail \in 0..(IDX_MOD - 1)
                    /\ Pending = IF availIdx >= devAvail THEN availIdx - devAvail
                                 ELSE availIdx - devAvail + IDX_MOD
                    /\ Pending \in Nat /\ (Pending = 0 <=> availIdx = devAvail)
  OBVIOUS
<1>1. /\ IDX_MOD \in Nat \ {0} /\ availIdx \in 0..(IDX_MOD - 1)
      /\ devAvail \in 0..(IDX_MOD - 1)
  BY BlkSize DEF BlkInv, TypeOK, VirtqueueTypeOK
<1>2. Pending = IF availIdx >= devAvail THEN availIdx - devAvail ELSE availIdx - devAvail + IDX_MOD
  BY <1>1, Distance DEF Pending
<1> QED BY <1>1, <1>2

\* The device finds the request the driver has built.
LEMMA ChainWellFormed ==
  ASSUME BlkInv, pc = "poll"
  PROVE  /\ chain[1] \in Descs /\ WellFormed(chain[1])
         /\ call.op # "flush" => desc[Walk(chain[1], 1)].addr = call.buf
<1> DEFINE n == Len(chain)
           f == [k \in 0..(n - 1) |-> chain[k + 1]]
<1>1. /\ n \in {2, 3} /\ n = Len(Roles(call)) /\ chain \in Seq(Descs) /\ Nil \notin Descs
      /\ \A k \in 1..n : /\ desc[chain[k]].addr = Roles(call)[k].addr
                         /\ desc[chain[k]].flags = Roles(call)[k].flags
                         /\ k # n => desc[chain[k]].next = chain[k + 1]
  <2>1. n = Len(Roles(call)) /\ n \in {2, 3}
    BY CallFacts DEF BlkInv, ChainInv, ChainLinked, TypeOK
  <2>2. chain \in Seq(Descs) /\ Nil \notin Descs
    BY SizeFacts DEF BlkInv, TypeOK, VirtqueueTypeOK
  <2> QED BY <2>1, <2>2 DEF BlkInv, ChainInv, ChainLinked
<1>2. \A k \in 1..n : chain[k] \in Descs
  BY <1>1
<1> HIDE DEF n
<1>3. Path(f, desc, n - 1)
  <2>1. ASSUME NEW k \in 0..(n - 1 - 1) PROVE f[k] # Nil /\ desc[f[k]].next = f[k + 1]
    <3>1. k + 1 \in 1..n /\ k + 1 # n /\ k \in 0..(n - 1) /\ k + 1 \in 0..(n - 1)
      BY <1>1
    <3>2. f[k] = chain[k + 1] /\ f[k + 1] = chain[(k + 1) + 1]
      BY <3>1
    <3>3. desc[chain[k + 1]].next = chain[(k + 1) + 1] /\ chain[k + 1] \in Descs
      BY <1>1, <1>2, <3>1
    <3> HIDE DEF f
    <3> QED BY <1>1, <3>2, <3>3
  <2> HIDE DEF f
  <2> QED BY <2>1 DEF Path
<1>4. ASSUME NEW k \in 1..n PROVE Walk(chain[1], k - 1) = chain[k]
  <2>1. f[0] = chain[1] /\ k - 1 \in 0..(n - 1) /\ n - 1 \in Nat /\ (k - 1) + 1 = k
    BY <1>1
  <2>2. f[k - 1] = chain[k]
    BY <2>1
  <2> HIDE DEF f
  <2>3. Nth(desc, f[0], k - 1) = f[k - 1]
    BY <1>3, <2>1, NthOfPath
  <2> QED BY <2>1, <2>2, <2>3, WalkIsNth
<1>5. call \in [op : Ops, sector : Sectors, buf : Buffers] /\ call.buf \in Buffers
  BY DEF BlkInv, TypeOK
<1>6. [op |-> hdr.op, sector |-> hdr.sector, buf |-> call.buf] = call
  BY <1>5 DEF BlkInv, ChainInv
<1>7. \A k \in 1..Len(Roles(call)) :
        /\ Walk(chain[1], k - 1) # Nil
        /\ desc[Walk(chain[1], k - 1)].addr = Roles(call)[k].addr
        /\ desc[Walk(chain[1], k - 1)].flags = Roles(call)[k].flags
  BY <1>1, <1>2, <1>4
<1>8. WellFormed(chain[1])
  BY <1>5, <1>6, <1>7 DEF WellFormed
<1>9. call.op # "flush" => desc[Walk(chain[1], 1)].addr = call.buf
  <2> SUFFICES ASSUME call.op # "flush" PROVE desc[Walk(chain[1], 1)].addr = call.buf
    OBVIOUS
  <2>1. call.op \in {"read", "write", "flush"} /\ call.buf \in Buffers
    BY <1>5, CallFacts
  <2>2. Roles(call)[2].addr = call.buf
    BY <2>1, RolesFacts
  <2>3. 2 \in 1..n /\ 2 - 1 = 1
    BY <1>1
  <2>4. Walk(chain[1], 2 - 1) = chain[2] /\ desc[chain[2]].addr = Roles(call)[2].addr
    BY <1>1, <1>4, <2>3
  <2> QED BY <2>2, <2>3, <2>4
<1>10. 1 \in 1..n
  BY <1>1
<1> QED BY <1>2, <1>8, <1>9, <1>10

LEMMA TimelyInit == Init => TimelyInv
<1> SUFFICES ASSUME Init PROVE TimelyInv
  OBVIOUS
<1>1. BlkInv
  BY BlkInitInv
<1>2. /\ pc = "idle" /\ usedIdx = lastUsed /\ devAvail = availIdx /\ work = NoWork /\ overlaps = 0
  BY DEF Init, virtqueue_alloc
<1>3. Pending = 0
  BY <1>1, <1>2, PendingFacts
<1> QED BY <1>1, <1>2, <1>3 DEF TimelyInv, Protocol

LEMMA OwnWorkIsWork == OwnWork => work # NoWork
BY DEF OwnWork, NoWork, Ops

\* A used entry answers the request in progress.
LEMMA OnlyAnswered == TimelyInv /\ pc = "poll" /\ virtqueue_has_used => Answered
BY DEF TimelyInv, Protocol, Waiting, Working, virtqueue_has_used

LEMMA TimelyRequest ==
  ASSUME TimelyInv, NEW r \in Requests, Request(r) PROVE Protocol'
<1>1. /\ pc = "idle" /\ pc' = "alloc" /\ status' = "unset"
      /\ overlaps' = IF Unanswered THEN overlaps + 1 ELSE overlaps
      /\ UNCHANGED <<vqVars, devVars>>
  BY DEF Request
<1>2. UNCHANGED <<availIdx, usedIdx, lastUsed, devAvail, work, broken>> /\ Pending' = Pending
  BY <1>1 DEF vqVars, availVars, usedVars, devVars, Pending
<1>3. Pending <= overlaps'
  <2>1. Pending <= overlaps + 1 /\ (Pending = 0 <=> availIdx = devAvail) /\ overlaps \in Nat
    BY <1>1, PendingFacts DEF TimelyInv, Protocol, BlkInv, TypeOK
  <2>2. ~Unanswered => Pending = 0
    BY <2>1 DEF Unanswered
  <2> QED BY <1>1, <2>1, <2>2
<1> QED BY <1>1, <1>2, <1>3 DEF TimelyInv, Protocol

LEMMA TimelyKick ==
  ASSUME TimelyInv, Kick, MAX_OVERLAPS < IDX_MOD - 1 PROVE Protocol' /\ Waiting' /\ Pending' >= 1
<1>1. /\ pc = "kick" /\ pc' = "poll" /\ status' = status /\ availIdx' = (availIdx + 1) % IDX_MOD
      /\ avail' = [avail EXCEPT ![availIdx % size] = chain[1]]
      /\ UNCHANGED <<size, usedIdx, lastUsed, chain, overlaps, devAvail, work, broken>>
  BY DEF Kick, virtqueue_kick, usedVars, memVars, devVars
<1>2. /\ status = "unset" /\ usedIdx = lastUsed /\ (~broken => devAvail = availIdx /\ work = NoWork)
      /\ Pending <= overlaps /\ overlaps \in 0..MAX_OVERLAPS
  BY <1>1 DEF TimelyInv, Protocol, BlkInv, TypeOK
<1>3. /\ IDX_MOD \in Nat \ {0} /\ IDX_MOD > 1 /\ BlkInv /\ BlkInv'
      /\ avail \in [Descs -> Descs] /\ availIdx % size \in Descs
      /\ availIdx \in 0..(IDX_MOD - 1) /\ devAvail \in 0..(IDX_MOD - 1)
  <2>1. BlkInv /\ BlkInv'
    BY KickInv DEF TimelyInv
  <2>2. /\ avail \in [Descs -> Descs] /\ availIdx \in 0..(IDX_MOD - 1)
        /\ devAvail \in 0..(IDX_MOD - 1)
    BY <2>1 DEF BlkInv, TypeOK, VirtqueueTypeOK
  <2>3. /\ IDX_MOD \in Nat \ {0} /\ IDX_MOD > 1
        /\ \A i \in Nat : i % size \in Descs
    BY <2>1, BlkSize
  <2>4. availIdx % size \in Descs
    BY <2>2, <2>3
  <2> QED BY <2>1, <2>2, <2>3, <2>4
<1>4. Pending' = Pending + 1
  <2>1. availIdx' = IF availIdx = IDX_MOD - 1 THEN 0 ELSE availIdx + 1
    BY <1>1, <1>3, NextIndex
  <2>2. Pending = IF availIdx >= devAvail THEN availIdx - devAvail ELSE availIdx - devAvail + IDX_MOD
    BY <1>3, PendingFacts
  <2>3. Pending' = IF availIdx' >= devAvail THEN availIdx' - devAvail
                   ELSE availIdx' - devAvail + IDX_MOD
    <3>1. availIdx' \in 0..(IDX_MOD - 1)
      BY <1>3, <2>1
    <3>2. Pending' = (availIdx' - devAvail + IDX_MOD) % IDX_MOD
      BY <1>1 DEF Pending
    <3> QED BY <1>3, <3>1, <3>2, Distance
  <2>4. Pending < IDX_MOD - 1
    BY <1>2, <1>3, <2>2, BlkBounds
  <2> QED BY <1>3, <2>1, <2>2, <2>3, <2>4
<1>5. Pending \in Nat
  BY <1>3, PendingFacts
<1>6. ~broken => avail'[devAvail % size] = chain[1] /\ availIdx' = (devAvail + 1) % IDX_MOD
  BY <1>1, <1>2, <1>3
<1>7. Waiting'
  BY <1>1, <1>2, <1>4, <1>5, <1>6 DEF Waiting, NoWork
<1> QED BY <1>1, <1>2, <1>4, <1>5, <1>7 DEF Protocol

LEMMA TimelyDriver ==
  ASSUME TimelyInv, Driver, LATE = FALSE, MAX_OVERLAPS < IDX_MOD - 1 PROVE Protocol'
<1>1. CASE AllocFull \/ AllocChain
  <2>1. /\ pc = "alloc" /\ pc' \in {"idle", "kick"} /\ (pc' = "kick" => status' = status)
        /\ UNCHANGED <<availIdx, usedIdx, lastUsed, devAvail, work, broken, overlaps>>
    BY <1>1 DEF AllocFull, AllocChain, availVars, usedVars, memVars, devVars
  <2>2. Pending' = Pending
    BY <2>1 DEF Pending
  <2>3. overlaps \in Nat /\ Pending \in Nat
    BY PendingFacts DEF TimelyInv, BlkInv, TypeOK
  <2> QED BY <2>1, <2>2, <2>3 DEF TimelyInv, Protocol, NoWork
<1>2. CASE Kick
  BY <1>2, TimelyKick
<1>3. ASSUME Complete \/ Timeout PROVE Protocol'
  <2>1. /\ pc = "poll" /\ pc' = "idle"
        /\ UNCHANGED <<availIdx, usedIdx, devAvail, work, broken, overlaps>>
    BY <1>3 DEF Complete, Timeout, availVars, usedVars, devVars
  <2>2. Pending' = Pending
    BY <2>1 DEF Pending
  <2>3. usedIdx' = lastUsed' /\ (~broken => devAvail = availIdx /\ work = NoWork)
    <3>1. CASE Complete
      <4>1. virtqueue_has_used /\ lastUsed' = (lastUsed + 1) % IDX_MOD
        BY <3>1 DEF Complete, virtqueue_get_used
      <4> QED BY <2>1, <4>1, OnlyAnswered DEF Answered
    <3>2. CASE Timeout
      <4>1. broken /\ ~virtqueue_has_used /\ lastUsed' = lastUsed
        BY <3>2 DEF Timeout, virtqueue_get_used
      <4> QED BY <2>1, <4>1 DEF virtqueue_has_used
    <3> QED BY <1>3, <3>1, <3>2
  <2> QED BY <2>1, <2>2, <2>3 DEF TimelyInv, Protocol, NoWork
<1> QED BY <1>1, <1>2, <1>3 DEF Driver

\* A device that works has one request at most, the one in progress.
LEMMA TimelyFetch == ASSUME TimelyInv, Fetch PROVE Protocol' /\ Waiting /\ ~broken /\ Working' /\ work'.done = FALSE
<1>1. /\ ~broken /\ work = NoWork /\ Pending > 0 /\ devAvail' = (devAvail + 1) % IDX_MOD
      /\ UNCHANGED <<vqVars, memVars, callVars, disk>>
  BY DEF Fetch
<1>2. UNCHANGED <<availIdx, usedIdx, lastUsed, status, hdr, buffer, pc, call, chain, overlaps, disk>>
  BY <1>1 DEF vqVars, availVars, usedVars, memVars, callVars
<1>3. /\ IDX_MOD \in Nat \ {0} /\ IDX_MOD > size /\ size \in Nat \ {0} /\ BlkInv
      /\ devAvail \in 0..(IDX_MOD - 1) /\ availIdx \in 0..(IDX_MOD - 1)
      /\ Pending = (IF availIdx >= devAvail THEN availIdx - devAvail ELSE availIdx - devAvail + IDX_MOD)
      /\ (Pending = 0 <=> availIdx = devAvail)
  BY BlkSize, PendingFacts DEF TimelyInv
<1>4. pc = "poll" /\ Waiting
  <2>1. availIdx # devAvail
    BY <1>1, <1>3
  <2> QED BY <1>1, <2>1 DEF TimelyInv, Protocol, Working, Answered
<1>5. /\ availIdx = (devAvail + 1) % IDX_MOD /\ avail[devAvail % size] = chain[1]
      /\ usedIdx = lastUsed /\ status = "unset"
  BY <1>1, <1>4 DEF Waiting
<1>6. Pending = 1 /\ devAvail' = availIdx
  <2>1. availIdx = IF devAvail = IDX_MOD - 1 THEN 0 ELSE devAvail + 1
    BY <1>3, <1>5, NextIndex
  <2> QED BY <1>1, <1>3, <1>5, <2>1
<1>7. /\ chain[1] \in Descs /\ WellFormed(chain[1])
      /\ call.op # "flush" => desc[Walk(chain[1], 1)].addr = call.buf
  BY <1>3, <1>4, ChainWellFormed
<1>8. /\ work' = [head |-> chain[1], op |-> hdr.op, sector |-> hdr.sector, done |-> FALSE,
                  buf |-> IF hdr.op = "flush" THEN call.buf ELSE desc[Walk(chain[1], 1)].addr]
      /\ broken' = broken
  <2>1. Pending <= size
    BY <1>3, <1>6
  <2> QED BY <1>5, <1>7, <2>1 DEF Fetch
<1>9. hdr.op = call.op /\ hdr.sector = call.sector /\ call \in [op : Ops, sector : Sectors, buf : Buffers]
  BY <1>3, <1>4 DEF BlkInv, ChainInv, TypeOK
<1>10. work' = [head |-> chain[1], op |-> call.op, sector |-> call.sector, done |-> FALSE,
                buf |-> call.buf]
  BY <1>7, <1>8, <1>9
<1>11. OwnWork' /\ ~work'.done /\ work'.done = FALSE
  BY <1>2, <1>7, <1>9, <1>10 DEF OwnWork, Ops
<1>12. Working'
  BY <1>2, <1>5, <1>6, <1>11 DEF Working
<1>13. Pending' <= overlaps + 1
  <2>1. Pending' = (availIdx - availIdx + IDX_MOD) % IDX_MOD
    BY <1>2, <1>6 DEF Pending
  <2>2. Pending' = 0
    BY <1>3, <2>1, Distance
  <2> QED BY <1>3, <2>2 DEF BlkInv, TypeOK
<1>14. Protocol'
  BY <1>2, <1>4, <1>12, <1>13 DEF Protocol
<1> QED BY <1>1, <1>4, <1>11, <1>12, <1>14

\* Outside a fetch the device keeps its place in the available ring.
LEMMA TimelyTransfer ==
  ASSUME TimelyInv, Transfer PROVE Protocol' /\ pc = "poll" /\ Working /\ Working'
<1>1. /\ ~broken /\ work # NoWork /\ ~work.done /\ work' = [work EXCEPT !.done = TRUE]
      /\ disk' = (IF work.op = "write" THEN [disk EXCEPT ![work.sector] = buffer[work.buf]] ELSE disk)
      /\ buffer' = (IF work.op = "read" THEN [buffer EXCEPT ![work.buf] = disk[work.sector]] ELSE buffer)
      /\ UNCHANGED <<vqVars, hdr, status, callVars, devAvail, broken>>
  BY DEF Transfer
<1>2. UNCHANGED <<availIdx, usedIdx, lastUsed, status, pc, call, chain, overlaps, devAvail, broken>>
  BY <1>1 DEF vqVars, availVars, usedVars, callVars
<1>3. pc = "poll" /\ Working
  BY <1>1 DEF TimelyInv, Protocol, Waiting, Answered
<1>4. Pending' = Pending
  BY <1>2 DEF Pending
<1>5. call.buf \in Buffers /\ call.sector \in Sectors /\ buffer \in [Buffers -> Data]
  BY DEF TimelyInv, BlkInv, TypeOK
<1>6. OwnWork' /\ work'.done
  BY <1>1, <1>2, <1>3 DEF Working, OwnWork, Ops
<1>7. Filled'
  BY <1>1, <1>2, <1>3, <1>5 DEF Working, OwnWork, Filled
<1>8. Working'
  BY <1>2, <1>3, <1>6, <1>7 DEF Working
<1> QED BY <1>2, <1>3, <1>4, <1>8 DEF TimelyInv, Protocol

LEMMA TimelyAnswer ==
  ASSUME TimelyInv, Answer PROVE Protocol' /\ pc = "poll" /\ Working /\ Answered'
<1>1. /\ ~broken /\ work # NoWork /\ work' = NoWork
      /\ status' = (IF work.done THEN "ok" ELSE "ioerr")
      /\ used' = [used EXCEPT ![usedIdx % size] = work.head]
      /\ usedIdx' = (usedIdx + 1) % IDX_MOD
      /\ UNCHANGED <<size, freeVars, availVars, lastUsed, hdr, buffer, callVars, devAvail, disk, broken>>
  BY DEF Answer
<1>2. UNCHANGED <<availIdx, lastUsed, size, pc, call, chain, overlaps, devAvail, disk, buffer, broken>>
  BY <1>1 DEF availVars, callVars
<1>3. pc = "poll" /\ Working
  BY <1>1 DEF TimelyInv, Protocol, Waiting, Answered
<1>4. Pending' = Pending
  BY <1>2 DEF Pending
<1>5. used'[lastUsed' % size'] = chain'[1]
  <2>1. usedIdx = lastUsed /\ work.head = chain[1]
    BY <1>3 DEF Working, OwnWork
  <2>2. used \in [Descs -> Descs] /\ usedIdx \in 0..(IDX_MOD - 1) /\ BlkInv
    BY DEF TimelyInv, BlkInv, TypeOK, VirtqueueTypeOK
  <2>3. usedIdx % size \in Descs
    BY <2>2, BlkSize
  <2> QED BY <1>1, <1>2, <2>1, <2>2, <2>3
<1>6. Filled' = Filled
  BY <1>2 DEF Filled
<1>7. Answered'
  BY <1>1, <1>2, <1>3, <1>5, <1>6 DEF Working, Answered, NoWork
<1> QED BY <1>2, <1>3, <1>4, <1>7 DEF TimelyInv, Protocol

LEMMA TimelyDie ==
  ASSUME TimelyInv, Die PROVE Protocol' /\ Pending' = Pending
<1>1. /\ ~broken /\ broken'
      /\ UNCHANGED <<size, desc, freeHead, freeCount, avail, availIdx, used, usedIdx, lastUsed,
                     hdr, status, buffer, call, chain, ret, pc, overlaps, devAvail, work, disk>>
  BY DEF Die, vqVars, freeVars, availVars, usedVars, memVars, callVars
<1>2. Pending' = Pending
  BY <1>1 DEF Pending
<1>3. Waiting => Pending >= 1
  <2> SUFFICES ASSUME Waiting PROVE Pending >= 1
    OBVIOUS
  <2>1. /\ IDX_MOD \in Nat \ {0} /\ IDX_MOD > 1 /\ devAvail \in 0..(IDX_MOD - 1)
        /\ Pending \in Nat /\ (Pending = 0 <=> availIdx = devAvail)
    BY BlkSize, PendingFacts DEF TimelyInv
  <2>2. availIdx = (devAvail + 1) % IDX_MOD
    BY <1>1 DEF Waiting
  <2>3. availIdx # devAvail
    BY <2>1, <2>2, NextIndex
  <2> QED BY <2>1, <2>3
<1>4. (Waiting => Waiting') /\ (Working => Working') /\ (Answered => Answered')
  BY <1>1, <1>2, <1>3 DEF Waiting, Working, Answered, OwnWork, Filled, NoWork, Ops
<1> QED BY <1>1, <1>2, <1>4 DEF TimelyInv, Protocol

LEMMA TimelyStep ==
  ASSUME TimelyInv, [Next]_vars, LATE = FALSE, MAX_OVERLAPS < IDX_MOD - 1 PROVE TimelyInv'
<1>1. BlkInv'
  BY BlkStep DEF TimelyInv
<1>2. CASE \E r \in Requests : Request(r)
  BY <1>1, <1>2, TimelyRequest DEF TimelyInv
<1>3. CASE Driver
  BY <1>1, <1>3, TimelyDriver DEF TimelyInv
<1>4. CASE Device
  BY <1>1, <1>4, TimelyFetch, TimelyTransfer, TimelyAnswer, TimelyDie DEF TimelyInv, Device
<1>5. CASE UNCHANGED vars
  <2> USE <1>5 DEF vars, vqVars, freeVars, availVars, usedVars, memVars, callVars, devVars
  <2>1. Pending' = Pending
    BY DEF Pending
  <2>2. (Waiting => Waiting') /\ (Working => Working') /\ (Answered => Answered')
    BY <2>1 DEF Waiting, Working, Answered, OwnWork, Filled, NoWork, Ops
  <2>3. Protocol'
    BY <2>1, <2>2 DEF TimelyInv, Protocol, NoWork
  <2> QED BY <1>1, <2>3 DEF TimelyInv
<1> QED BY <1>2, <1>3, <1>4, <1>5 DEF Next

\* The entry the driver takes from the used ring is the answer to its own
\* request, if the device answers within the polls or not at all.
THEOREM UsedHeadMatchesTimely ==
  ASSUME LATE = FALSE, MAX_OVERLAPS < IDX_MOD - 1
  PROVE  Spec => []UsedHeadMatches
<1>1. Init => TimelyInv
  BY TimelyInit
<1>2. TimelyInv /\ [Next]_vars => TimelyInv'
  BY TimelyStep
<1>3. TimelyInv => UsedHeadMatches
  BY OnlyAnswered DEF UsedHeadMatches, UsedHead, Answered
<1> QED BY <1>1, <1>2, <1>3, PTL DEF Spec

\* A read that returns VIRTIO_OK has filled the buffer from its sector.
THEOREM ReadReturnsSectorTimely ==
  ASSUME LATE = FALSE, MAX_OVERLAPS < IDX_MOD - 1
  PROVE  Spec => ReadReturnsSector
<1>1. Init => TimelyInv
  BY TimelyInit
<1>2. TimelyInv /\ [Next]_vars => TimelyInv'
  BY TimelyStep
<1>3. ASSUME TimelyInv, Next, pc = "poll", pc' = "idle", ret' = "ok", call.op = "read"
      PROVE  buffer[call.buf] = disk[call.sector]
  <2>1. Complete \/ Timeout
    BY <1>3 DEF Next, Request, Driver, Device, AllocFull, AllocChain, Kick, Fetch, Transfer, Answer,
                Die, callVars
  <2>2. Complete /\ status = "ok"
    BY <1>3, <2>1 DEF Complete, Timeout, Result
  <2>3. Answered
    BY <1>3, <2>2, OnlyAnswered DEF Complete
  <2> QED BY <1>3, <2>2, <2>3 DEF Answered, Filled
<1>4. TimelyInv /\ [Next]_vars
        => [pc = "poll" /\ pc' = "idle" /\ ret' = "ok" /\ call.op = "read"
              => buffer[call.buf] = disk[call.sector]]_vars
  BY <1>3
<1> QED BY <1>1, <1>2, <1>4, PTL DEF Spec, ReadReturnsSector

-----------------------------------------------------------------------------
(* The block driver implements BlockDevice.                                *)

\* Whether a request has taken effect, stage by stage.
Stages == /\ pc # "poll" => ~Performed
          /\ pc = "poll" /\ Waiting => ~Performed
          /\ pc = "poll" /\ Working => (Performed <=> work.done)
          /\ pc = "poll" /\ Answered => (Performed <=> status = "ok")

LEMMA PerformedFacts == TimelyInv => Stages
<1> SUFFICES ASSUME TimelyInv PROVE Stages
  OBVIOUS
<1>1. pc # "poll" => ~Performed
  BY DEF Performed
<1>2. ASSUME pc = "poll", Waiting PROVE ~Performed
  <2>1. /\ Pending \in Nat /\ (Pending = 0 <=> availIdx = devAvail)
        /\ availIdx \in 0..(IDX_MOD - 1) /\ devAvail \in 0..(IDX_MOD - 1)
        /\ IDX_MOD \in Nat \ {0} /\ IDX_MOD > 1
    BY PendingFacts, BlkSize DEF TimelyInv
  <2>2. CASE broken
    BY <1>2, <2>1, <2>2 DEF Waiting, Performed
  <2>3. CASE ~broken
    <3>1. work = NoWork /\ status = "unset"
      BY <1>2, <2>3 DEF Waiting
    <3> QED BY <3>1 DEF Performed
  <2> QED BY <2>2, <2>3 DEF TimelyInv, BlkInv, TypeOK
<1>3. ASSUME pc = "poll", Working PROVE Performed <=> work.done
  <2>1. work # NoWork /\ devAvail = availIdx
    BY <1>3, OwnWorkIsWork DEF Working
  <2> QED BY <1>3, <2>1 DEF Performed
<1>4. ASSUME pc = "poll", Answered PROVE Performed <=> status = "ok"
  BY <1>4 DEF Answered, Performed
<1> QED BY <1>1, <1>2, <1>3, <1>4 DEF Stages

LEMMA PerformedNext == TimelyInv' => Stages'
BY PerformedFacts, PTL

\* A request is a call, and nothing else starts one.
LEMMA RefineRequest ==
  ASSUME TimelyInv, TimelyInv', NEW r \in Requests, Request(r) PROVE Promise!Call
<1>1. /\ pc = "idle" /\ pc' = "alloc" /\ call' = r /\ UNCHANGED <<ret, disk>>
  BY DEF Request, devVars
<1>2. /\ call'.op \in {"read", "write", "flush"} /\ call'.sector \in Sectors
      /\ call'.buf \in Buffers /\ buffer' \in [Buffers -> Data]
  BY DEF TimelyInv, BlkInv, TypeOK, Ops
<1>3. ~Performed' /\ ~Performed
  BY <1>1 DEF Performed
<1>4. Performed' = FALSE
  BY <1>3 DEF Performed
<1> QED BY <1>1, <1>2, <1>4 DEF Promise!Call

\* The end of a request is a return.
LEMMA RefineReturn ==
  ASSUME TimelyInv, pc # "idle", pc' = "idle", UNCHANGED <<call, buffer, disk>>, ret' \in Rets,
         ret' = "ok" => Performed
  PROVE  Promise!Return
<1>1. ~Performed'
  BY DEF Performed
<1>2. Performed' = FALSE
  BY <1>1 DEF Performed
<1>3. call.op # "none"
  BY DEF TimelyInv, BlkInv, TypeOK, Ops
<1> QED BY <1>2, <1>3 DEF Promise!Return

LEMMA RefineStep ==
  ASSUME TimelyInv, TimelyInv', [Next]_vars, LATE = FALSE, MAX_OVERLAPS < IDX_MOD - 1
  PROVE  [Promise!Next]_(Promise!vars)
<1> DEFINE Stutters == /\ UNCHANGED <<disk, call, buffer, ret>> /\ Performed' = Performed
                       /\ (pc = "idle" <=> pc' = "idle")
<1>0. Stutters => UNCHANGED Promise!vars
  BY DEF Promise!vars
<1>1. CASE \E r \in Requests : Request(r)
  BY <1>1, RefineRequest DEF Promise!Next
<1>2. CASE AllocFull
  <2>1. /\ pc = "alloc" /\ pc' = "idle" /\ ret' = "full" /\ UNCHANGED <<call, buffer, disk>>
    BY <1>2 DEF AllocFull, memVars, devVars
  <2> QED BY <2>1, RefineReturn DEF Promise!Next, Rets
<1>3. CASE AllocChain
  <2>1. /\ pc = "alloc" /\ pc' = "kick" /\ UNCHANGED <<call, buffer, disk, ret>>
    BY <1>3 DEF AllocChain, memVars, devVars
  <2>2. Performed' = Performed
    BY <2>1 DEF Performed
  <2> QED BY <1>0, <2>1, <2>2
<1>4. CASE Kick
  <2>1. /\ pc = "kick" /\ pc' = "poll" /\ UNCHANGED <<call, buffer, disk, ret>>
    BY <1>4 DEF Kick, memVars, devVars
  <2>2. Waiting'
    BY <1>4, TimelyKick
  <2>3. ~Performed
    BY <2>1, PerformedFacts DEF Stages
  <2>4. ~Performed'
    BY <2>1, <2>2, PerformedNext DEF Stages
  <2>5. Performed' = Performed
    BY <2>3, <2>4 DEF Performed
  <2> QED BY <1>0, <2>1, <2>5
<1>5. CASE Complete
  <2>1. /\ pc = "poll" /\ pc' = "idle" /\ ret' = Result /\ UNCHANGED <<call, buffer, disk>>
        /\ virtqueue_has_used
    BY <1>5 DEF Complete, memVars, devVars
  <2>2. Performed <=> status = "ok"
    BY <2>1, OnlyAnswered, PerformedFacts DEF Stages
  <2> QED BY <2>1, <2>2, RefineReturn DEF Promise!Next, Rets, Result
<1>6. CASE Timeout
  <2>1. /\ pc = "poll" /\ pc' = "idle" /\ ret' \in {Result, "timeout"} /\ ~virtqueue_has_used
        /\ UNCHANGED <<call, buffer, disk>>
    BY <1>6 DEF Timeout, memVars, devVars
  <2>2. ~Answered
    <3>1. /\ IDX_MOD \in Nat \ {0} /\ IDX_MOD > 1 /\ lastUsed \in 0..(IDX_MOD - 1)
      <4>1. BlkInv /\ lastUsed \in 0..(IDX_MOD - 1)
        BY DEF TimelyInv, BlkInv, TypeOK, VirtqueueTypeOK
      <4> QED BY <4>1, BlkSize
    <3>2. (lastUsed + 1) % IDX_MOD # lastUsed
      BY <3>1, NextIndex
    <3> QED BY <2>1, <3>2 DEF Answered, virtqueue_has_used
  <2>3. status = "unset"
    BY <2>1, <2>2 DEF TimelyInv, Protocol, Waiting, Working
  <2>4. ret' \in {"io", "timeout"}
    BY <2>1, <2>3 DEF Result
  <2> QED BY <2>1, <2>4, RefineReturn DEF Promise!Next, Rets
<1>7. CASE Fetch
  <2>1. UNCHANGED <<call, buffer, disk, ret, pc>>
    BY <1>7 DEF Fetch, memVars, callVars
  <2>2. Waiting /\ Working' /\ work'.done = FALSE /\ (pc # "poll" => ~Performed)
    BY <1>7, TimelyFetch, PerformedFacts DEF Stages
  <2>3. ~Performed
    BY <2>2, PerformedFacts DEF Stages
  <2>4. ~Performed'
    BY <2>1, <2>2, PerformedNext DEF Stages
  <2>5. Performed' = Performed
    BY <2>3, <2>4 DEF Performed
  <2> QED BY <1>0, <2>1, <2>5
<1>8. CASE Transfer
  <2>1. /\ work' = [work EXCEPT !.done = TRUE] /\ ~work.done
        /\ disk' = (IF work.op = "write" THEN [disk EXCEPT ![work.sector] = buffer[work.buf]] ELSE disk)
        /\ buffer' = (IF work.op = "read" THEN [buffer EXCEPT ![work.buf] = disk[work.sector]] ELSE buffer)
        /\ UNCHANGED <<call, ret, pc>>
    BY <1>8 DEF Transfer, callVars
  <2>2. pc = "poll" /\ Working /\ Working'
    BY <1>8, TimelyTransfer
  <2>3. /\ work \in [head : Descs, op : Ops, sector : Sectors, buf : Buffers, done : BOOLEAN]
        /\ work.op = call.op /\ work.sector = call.sector /\ work.buf = call.buf
        /\ call.op # "none" /\ call.buf \in Buffers /\ buffer \in [Buffers -> Data]
    BY <2>2 DEF Working, OwnWork, TimelyInv, BlkInv, TypeOK, Ops
  <2>4. work'.done
    BY <2>1, <2>3
  <2>5. ~Performed
    BY <2>1, <2>2, PerformedFacts DEF Stages
  <2>6. Performed'
    BY <2>1, <2>2, <2>4, PerformedNext DEF Stages
  <2>7. Performed' = TRUE
    BY <2>6 DEF Performed
  <2>8. Promise!Perform
    BY <2>1, <2>2, <2>3, <2>5, <2>7 DEF Promise!Perform
  <2> QED BY <2>8 DEF Promise!Next
<1>9. CASE Answer
  <2>1. status' = (IF work.done THEN "ok" ELSE "ioerr") /\ UNCHANGED <<call, buffer, disk, ret, pc>>
    BY <1>9 DEF Answer, callVars
  <2>2. pc = "poll" /\ Working /\ Answered'
    BY <1>9, TimelyAnswer
  <2>3. Performed <=> work.done
    BY <2>2, PerformedFacts DEF Stages
  <2>4. Performed' <=> status' = "ok"
    BY <2>1, <2>2, PerformedNext DEF Stages
  <2>5. Performed' = Performed
    BY <2>1, <2>3, <2>4 DEF Performed
  <2> QED BY <1>0, <2>1, <2>5
<1>10. CASE Die \/ UNCHANGED vars
  <2>1. UNCHANGED <<call, buffer, disk, ret, pc, availIdx, devAvail, work, status>>
    BY <1>10 DEF Die, vars, vqVars, availVars, memVars, callVars, devVars
  <2>2. Performed' = Performed
    BY <2>1 DEF Performed, NoWork
  <2> QED BY <1>0, <2>1, <2>2
<1> QED BY <1>1, <1>2, <1>3, <1>4, <1>5, <1>6, <1>7, <1>8, <1>9, <1>10 DEF Next, Driver, Device

\* With a device that answers in time or not at all, the driver is a block
\* device: a request takes effect at most once, between its call and its
\* return, and one that returns VIRTIO_OK has.
THEOREM BlockDriverRefines ==
  ASSUME LATE = FALSE, MAX_OVERLAPS < IDX_MOD - 1
  PROVE  Spec => IsBlockDevice
<1>1. Init => TimelyInv
  BY TimelyInit
<1>2. TimelyInv /\ [Next]_vars => TimelyInv'
  BY TimelyStep
<1>3. Init => Promise!Init
  <2> SUFFICES ASSUME Init PROVE Promise!Init
    OBVIOUS
  <2>1. Performed = FALSE /\ pc = "idle" /\ ret = "ok" /\ disk \in [Sectors -> Data]
    BY DEF Init, Performed
  <2>2. call.sector \in Sectors /\ buffer[call.buf] \in Data
    BY BlkInitInv DEF BlkInv, TypeOK
  <2> QED BY <2>1, <2>2 DEF Promise!Init
<1>4. TimelyInv /\ TimelyInv' /\ [Next]_vars => [Promise!Next]_(Promise!vars)
  BY RefineStep
<1> QED BY <1>1, <1>2, <1>3, <1>4, PTL DEF Spec, IsBlockDevice, Promise!Spec

-----------------------------------------------------------------------------
(* VirtioNet: types and descriptors.                                       *)

RxDescriptor == [addr : NetBuffers \cup {"none"}, flags : SUBSET RX!Flags, next : RX!Descs \cup {Nil}]
TxDescriptor == [addr : {"tx_buffer", "none"}, flags : SUBSET TX!Flags, next : TX!Descs \cup {Nil}]

\* The operators of the two queues are those of Virtqueue.
LEMMA RxNames == /\ RX!Descs = 0..(Max(RxSizes) - 1) /\ RX!Nil = Nil /\ RX!Flags = Flags
                 /\ \A i, n : RX!Walk(i, n) = Nth(rxDesc, i, n)
<1>1. RX!Descs = 0..(Max(RxSizes) - 1) /\ RX!Nil = Nil /\ RX!Flags = Flags
  BY DEF RX!Descs, RX!Max, Max, RX!Nil, Nil, RX!Flags, Flags
<1>2. \A i, n : RX!Walk(i, n) = Nth(rxDesc, i, n)
  BY DEF RX!Walk, RX!Nil, Nth, Nil
<1> QED BY <1>1, <1>2

LEMMA TxNames == /\ TX!Descs = 0..(Max(TxSizes) - 1) /\ TX!Nil = Nil /\ TX!Flags = Flags
                 /\ \A i, n : TX!Walk(i, n) = Nth(txDesc, i, n)
<1>1. TX!Descs = 0..(Max(TxSizes) - 1) /\ TX!Nil = Nil /\ TX!Flags = Flags
  BY DEF TX!Descs, TX!Max, Max, TX!Nil, Nil, TX!Flags, Flags
<1>2. \A i, n : TX!Walk(i, n) = Nth(txDesc, i, n)
  BY DEF TX!Walk, TX!Nil, Nth, Nil
<1> QED BY <1>1, <1>2

\* The descriptors of a queue of n are among those of the largest.
LEMMA RoomForAll ==
  ASSUME NEW S \in SUBSET (Nat \ {0}), NEW n \in S, \A m \in S : m <= NET_IDX_MOD
  PROVE  /\ n \in Nat \ {0} /\ 0..(n - 1) \subseteq 0..(Max(S) - 1) /\ Nil \notin 0..(Max(S) - 1)
         /\ 0 \in 0..(Max(S) - 1)
         /\ \A i \in Nat : i % n \in 0..(n - 1) /\ i % n \in 0..(Max(S) - 1)
<1>1. /\ S \in SUBSET Nat /\ S # {} /\ NET_IDX_MOD \in Nat /\ NET_IDX_MOD + 1 \in Nat
      /\ \A m \in S : m < NET_IDX_MOD + 1
  BY NetAssumption
<1>2. Max(S) \in S /\ n <= Max(S)
  BY <1>1, MaxOfBounded
<1>3. n \in Nat \ {0} /\ Max(S) \in Nat \ {0}
  BY <1>2
<1>4. \A i \in Nat : i % n \in 0..(n - 1)
  BY <1>3
<1>5. 0..(n - 1) \subseteq 0..(Max(S) - 1) /\ Nil \notin 0..(Max(S) - 1) /\ 0 \in 0..(Max(S) - 1)
  BY <1>2, <1>3 DEF Nil
<1> QED BY <1>3, <1>4, <1>5

LEMMA RxSize ==
  ASSUME NEW n \in RxSizes
  PROVE  /\ n \in Nat \ {0} /\ 0..(n - 1) \subseteq RX!Descs /\ Nil \notin RX!Descs /\ 0 \in RX!Descs
         /\ \A i \in Nat : i % n \in 0..(n - 1) /\ i % n \in RX!Descs
         /\ NET_IDX_MOD \in Nat \ {0} /\ NET_IDX_MOD >= n
<1>1. RxSizes \in SUBSET (Nat \ {0}) /\ \A m \in RxSizes : m <= NET_IDX_MOD
  BY NetAssumption
<1>2. n \in Nat \ {0} /\ NET_IDX_MOD \in Nat \ {0} /\ NET_IDX_MOD >= n
  BY <1>1, NetAssumption
<1> QED BY <1>1, <1>2, RoomForAll, RxNames

LEMMA TxSize ==
  ASSUME NEW n \in TxSizes
  PROVE  /\ n \in Nat \ {0} /\ 0..(n - 1) \subseteq TX!Descs /\ Nil \notin TX!Descs /\ 0 \in TX!Descs
         /\ \A i \in Nat : i % n \in 0..(n - 1) /\ i % n \in TX!Descs
         /\ NET_IDX_MOD \in Nat \ {0} /\ NET_IDX_MOD >= n
<1>1. TxSizes \in SUBSET (Nat \ {0}) /\ \A m \in TxSizes : m <= NET_IDX_MOD
  BY NetAssumption
<1>2. n \in Nat \ {0} /\ NET_IDX_MOD \in Nat \ {0} /\ NET_IDX_MOD >= n
  BY <1>1, NetAssumption
<1> QED BY <1>1, <1>2, RoomForAll, TxNames

\* Freeing one descriptor.
FreedOne(d, h, x) == [d[x] EXCEPT !.next = h, !.flags = {"NEXT"}]

LEMMA RxFreeOne ==
  ASSUME NEW d, NEW h, NEW x \in RX!Descs
  PROVE  /\ RX!virtqueue_free_desc(d, h, <<x>>).head = x
         /\ RX!virtqueue_free_desc(d, h, <<x>>).desc
              = [i \in RX!Descs |-> IF i = x THEN FreedOne(d, h, x) ELSE d[i]]
<1> DEFINE s == <<x>>
           at(i) == CHOOSE k \in 1..Len(s) : s[k] = i
<1>1. Len(s) = 1 /\ s # <<>> /\ s[1] = x
  OBVIOUS
<1>2. \A k \in 1..Len(s) : s[k] = x /\ k = 1
  BY <1>1
<1>3. \A i : (\E k \in 1..Len(s) : s[k] = i) <=> i = x
  BY <1>1, <1>2
<1>4. at(x) = 1
  <2>1. at(x) \in 1..Len(s)
    BY <1>1
  <2> QED BY <1>2, <2>1
<1>5. RX!virtqueue_free_desc(d, h, s).head = x
  BY <1>1 DEF RX!virtqueue_free_desc
<1>6. RX!virtqueue_free_desc(d, h, s).desc
        = [i \in RX!Descs |-> IF \E k \in 1..Len(s) : s[k] = i
                              THEN [d[i] EXCEPT !.next = IF at(i) = 1 THEN h ELSE s[at(i) - 1],
                                                !.flags = {"NEXT"}]
                              ELSE d[i]]
  BY DEF RX!virtqueue_free_desc
<1> HIDE DEF s, at
<1>7. RX!virtqueue_free_desc(d, h, s).desc = [i \in RX!Descs |-> IF i = x THEN FreedOne(d, h, x) ELSE d[i]]
  BY <1>3, <1>4, <1>6 DEF FreedOne
<1> QED BY <1>5, <1>7 DEF s

LEMMA TxFreeOne ==
  ASSUME NEW d, NEW h, NEW x \in TX!Descs
  PROVE  /\ TX!virtqueue_free_desc(d, h, <<x>>).head = x
         /\ TX!virtqueue_free_desc(d, h, <<x>>).desc
              = [i \in TX!Descs |-> IF i = x THEN FreedOne(d, h, x) ELSE d[i]]
<1> DEFINE s == <<x>>
           at(i) == CHOOSE k \in 1..Len(s) : s[k] = i
<1>1. Len(s) = 1 /\ s # <<>> /\ s[1] = x
  OBVIOUS
<1>2. \A k \in 1..Len(s) : s[k] = x /\ k = 1
  BY <1>1
<1>3. \A i : (\E k \in 1..Len(s) : s[k] = i) <=> i = x
  BY <1>1, <1>2
<1>4. at(x) = 1
  <2>1. at(x) \in 1..Len(s)
    BY <1>1
  <2> QED BY <1>2, <2>1
<1>5. TX!virtqueue_free_desc(d, h, s).head = x
  BY <1>1 DEF TX!virtqueue_free_desc
<1>6. TX!virtqueue_free_desc(d, h, s).desc
        = [i \in TX!Descs |-> IF \E k \in 1..Len(s) : s[k] = i
                              THEN [d[i] EXCEPT !.next = IF at(i) = 1 THEN h ELSE s[at(i) - 1],
                                                !.flags = {"NEXT"}]
                              ELSE d[i]]
  BY DEF TX!virtqueue_free_desc
<1> HIDE DEF s, at
<1>7. TX!virtqueue_free_desc(d, h, s).desc = [i \in TX!Descs |-> IF i = x THEN FreedOne(d, h, x) ELSE d[i]]
  BY <1>3, <1>4, <1>6 DEF FreedOne
<1> QED BY <1>5, <1>7 DEF s

\* Only the descriptors of the queue count.
LEMMA FreeSame ==
  ASSUME NEW d, NEW h, NEW n, NEW sz, NEW C, NEW E, Free(d, h, n, sz, C),
         (0..(sz - 1)) \ C = (0..(sz - 1)) \ E
  PROVE  Free(d, h, n, sz, E)
BY DEF Free, IsList

LEMMA NthOne ==
  ASSUME NEW d, NEW h, NEW n, NEW sz \in Nat, NEW C, Free(d, h, n, sz, C), n # 0
  PROVE  Nth(d, h, 1) = d[h].next
<1>1. PICK f : IsList(f, d, h, n, sz, C)
  BY DEF Free
<1>2. n \in Nat /\ 0 \in 0..(n - 1) /\ 1 \in 0..n
  BY DEF Free
<1>3. Nth(d, h, 1) = f[1]
  BY <1>1, <1>2, NthOfList
<1>4. f[0] = h /\ d[f[0]].next = f[0 + 1]
  BY <1>1, <1>2 DEF IsList
<1> QED BY <1>3, <1>4

\* The receive buffers hold descriptors of their own, and a send in progress
\* holds one; the others are free.
BufferDescs == {rx_buffer_desc[b] : b \in NetBuffers}
NetListInv ==
  /\ Free(rxDesc, rxFreeHead, rxFreeCount, rxSize, BufferDescs)
  /\ \A b, c \in NetBuffers : rx_buffer_desc[b] = rx_buffer_desc[c] => b = c
  /\ Free(txDesc, txFreeHead, txFreeCount, txSize, {txHead})
  /\ IF netPc \in {"kick", "poll"} THEN txHead \in 0..(txSize - 1) ELSE txHead = Nil

NetInv == NetTypeOK /\ NetListInv

\* SetToSeq lists every element once.
LEMMA ListOfSet ==
  ASSUME NEW S, IsFiniteSet(S)
  PROVE  /\ SetToSeq(S) \in [1..Cardinality(S) -> S] /\ SetToSeq(S) \in Seq(S)
         /\ Len(SetToSeq(S)) = Cardinality(S) /\ Cardinality(S) \in Nat
         /\ \A j, k \in 1..Cardinality(S) : SetToSeq(S)[j] = SetToSeq(S)[k] => j = k
         /\ \A x \in S : \E k \in 1..Cardinality(S) : SetToSeq(S)[k] = x
<1> DEFINE n == Cardinality(S)
           Good(f) == f \in [1..n -> S] /\ IsInjective(f)
           f == SetToSeq(S)
<1>1. n \in Nat /\ ExistsBijection(1..n, S)
  BY FS_CardinalityType
<1>2. \E g : Good(g)
  BY <1>1 DEF ExistsBijection, Bijection, Injection
<1>3. Good(f)
  BY <1>2 DEF SetToSeq
<1> HIDE DEF f
<1>4. \A j, k \in 1..n : f[j] = f[k] => j = k
  BY <1>3 DEF IsInjective
<1>5. f \in Injection(1..n, S)
  BY <1>3 DEF Injection
<1>6. IsFiniteSet(1..n) /\ Cardinality(1..n) = n
  BY <1>1, FS_Interval
<1>7. f \in Surjection(1..n, S)
  BY <1>5, <1>6, FS_Injection
<1>8. \A x \in S : \E k \in 1..n : f[k] = x
  BY <1>7 DEF Surjection
<1>9. f \in [1..n -> S] /\ f \in Seq(S) /\ Len(f) = n
  BY <1>1, <1>3
<1> HIDE DEF n
<1>10. /\ f \in [1..n -> S] /\ f \in Seq(S) /\ Len(f) = n /\ n \in Nat
       /\ \A j, k \in 1..n : f[j] = f[k] => j = k
       /\ \A x \in S : \E k \in 1..n : f[k] = x
  BY <1>1, <1>4, <1>8, <1>9
<1> QED BY <1>10 DEF f, n

\* What virtio_net_init_rx_buffers leaves: the first descriptors belong to the
\* buffers, in the order of bufs.
InitBuffers(bufs, n) ==
  /\ bufs \in [1..n -> NetBuffers] /\ n \in Nat \ {0} /\ n = Cardinality(NetBuffers)
  /\ rxSize \in RxSizes
  /\ rxDesc = [i \in RX!Descs |->
       CASE i < n -> [addr |-> bufs[i + 1], flags |-> {"WRITE"}, next |-> 0]
         [] i >= n /\ i < rxSize - 1 -> [addr |-> "none", flags |-> {"NEXT"}, next |-> i + 1]
         [] OTHER -> [addr |-> "none", flags |-> {}, next |-> Nil]]
  /\ rxFreeHead = (IF n < rxSize THEN n ELSE Nil) /\ rxFreeCount = rxSize - n
  /\ rxAvail = [i \in RX!Descs |-> IF i < n THEN i ELSE 0] /\ rxAvailIdx = n % NET_IDX_MOD
  /\ rxUsed = [i \in RX!Descs |-> 0] /\ rxUsedIdx = 0 /\ rxLastUsed = 0
  /\ DOMAIN rx_buffer_desc = NetBuffers /\ rx_buffer_desc = [b \in NetBuffers |-> rx_buffer_desc[b]]
  /\ \A b \in NetBuffers : rx_buffer_desc[b] \in 0..(n - 1) /\ bufs[rx_buffer_desc[b] + 1] = b
  /\ BufferDescs = 0..(n - 1)

LEMMA InitBuffersFacts ==
  ASSUME NetInit
  PROVE  InitBuffers(SetToSeq(NetBuffers), Len(SetToSeq(NetBuffers)))
<1> DEFINE bufs == SetToSeq(NetBuffers)
           n == Len(bufs)
<1>1. /\ bufs \in [1..n -> NetBuffers] /\ n \in Nat /\ n = Cardinality(NetBuffers)
      /\ \A j, k \in 1..n : bufs[j] = bufs[k] => j = k
      /\ \A x \in NetBuffers : \E k \in 1..n : bufs[k] = x
  BY ListOfSet, NetAssumption
<1>2. n # 0
  <2>1. PICK x \in NetBuffers : TRUE
    BY NetAssumption
  <2> QED BY <1>1, <2>1
<1>3. /\ rxSize \in RxSizes
      /\ rxDesc = [i \in RX!Descs |->
           CASE i < n -> [addr |-> bufs[i + 1], flags |-> {"WRITE"}, next |-> 0]
             [] i >= n /\ i < rxSize - 1 -> [addr |-> "none", flags |-> {"NEXT"}, next |-> i + 1]
             [] OTHER -> [addr |-> "none", flags |-> {}, next |-> Nil]]
      /\ rxFreeHead = (IF n < rxSize THEN n ELSE Nil) /\ rxFreeCount = rxSize - n
      /\ rxAvail = [i \in RX!Descs |-> IF i < n THEN i ELSE 0] /\ rxAvailIdx = n % NET_IDX_MOD
      /\ rxUsed = [i \in RX!Descs |-> 0] /\ rxUsedIdx = 0 /\ rxLastUsed = 0
      /\ rx_buffer_desc = [b \in NetBuffers |-> CHOOSE i \in 0..(n - 1) : bufs[i + 1] = b]
  BY RxNames DEF NetInit
<1> HIDE DEF bufs, n
<1>6. ASSUME NEW b \in NetBuffers
      PROVE  rx_buffer_desc[b] \in 0..(n - 1) /\ bufs[rx_buffer_desc[b] + 1] = b
  <2>1. PICK k \in 1..n : bufs[k] = b
    BY <1>1
  <2>2. k - 1 \in 0..(n - 1) /\ (k - 1) + 1 = k
    BY <1>1
  <2>3. \E i \in 0..(n - 1) : bufs[i + 1] = b
    BY <2>1, <2>2
  <2> QED BY <1>3, <2>3
<1>7. BufferDescs = 0..(n - 1)
  <2>1. ASSUME NEW i \in 0..(n - 1) PROVE \E b \in NetBuffers : rx_buffer_desc[b] = i
    <3>1. i + 1 \in 1..n /\ bufs[i + 1] \in NetBuffers
      BY <1>1
    <3>2. rx_buffer_desc[bufs[i + 1]] + 1 \in 1..n
      BY <1>1, <1>6, <3>1
    <3>3. rx_buffer_desc[bufs[i + 1]] + 1 = i + 1
      BY <1>1, <1>6, <3>1, <3>2
    <3> QED BY <1>1, <1>6, <3>1, <3>3
  <2> QED BY <1>6, <2>1 DEF BufferDescs
<1>9. DOMAIN rx_buffer_desc = NetBuffers /\ rx_buffer_desc = [b \in NetBuffers |-> rx_buffer_desc[b]]
  BY <1>3
<1> QED BY <1>1, <1>2, <1>3, <1>6, <1>7, <1>9 DEF InitBuffers, bufs, n

LEMMA NetInitInv == NetInit => NetInv
<1> SUFFICES ASSUME NetInit PROVE NetInv
  OBVIOUS
<1> DEFINE bufs == SetToSeq(NetBuffers)
           n == Len(bufs)
<1>2. InitBuffers(bufs, n)
  BY InitBuffersFacts
<1>4. /\ TX!virtqueue_alloc
      /\ rxMem = [b \in NetBuffers |-> 0] /\ txMem = 0
      /\ netPc = "idle" /\ netBuf \in NetBuffers /\ txHead = Nil /\ netRet = "ok"
      /\ netFrame = 0 /\ netUser = 0 /\ arrived = 0 /\ netOut = 0
      /\ rxDev = 0 /\ txDev = 0 /\ rxWork = Nil /\ txWork = Nil
      /\ netLate \in LateDevices /\ netBroken = FALSE
  BY RxNames, TxNames DEF NetInit
<1> HIDE DEF bufs, n
<1>1. /\ bufs \in [1..n -> NetBuffers] /\ n \in Nat /\ n # 0
      /\ n = Cardinality(NetBuffers) /\ BufferDescs = 0..(n - 1)
      /\ \A b \in NetBuffers : rx_buffer_desc[b] \in 0..(n - 1) /\ bufs[rx_buffer_desc[b] + 1] = b
  BY <1>2 DEF InitBuffers
<1>3. /\ rxSize \in RxSizes
      /\ rxDesc = [i \in RX!Descs |->
           CASE i < n -> [addr |-> bufs[i + 1], flags |-> {"WRITE"}, next |-> 0]
             [] i >= n /\ i < rxSize - 1 -> [addr |-> "none", flags |-> {"NEXT"}, next |-> i + 1]
             [] OTHER -> [addr |-> "none", flags |-> {}, next |-> Nil]]
      /\ rxFreeHead = (IF n < rxSize THEN n ELSE Nil) /\ rxFreeCount = rxSize - n
      /\ rxAvail = [i \in RX!Descs |-> IF i < n THEN i ELSE 0] /\ rxAvailIdx = n % NET_IDX_MOD
      /\ rxUsed = [i \in RX!Descs |-> 0] /\ rxUsedIdx = 0 /\ rxLastUsed = 0
  BY <1>2 DEF InitBuffers
<1>5. /\ rxSize \in Nat \ {0} /\ 0..(rxSize - 1) \subseteq RX!Descs /\ 0 \in RX!Descs
      /\ NET_IDX_MOD \in Nat \ {0} /\ n <= rxSize /\ \A i \in RX!Descs : i \in Nat
  <2>1. /\ rxSize \in Nat \ {0} /\ 0..(rxSize - 1) \subseteq RX!Descs /\ 0 \in RX!Descs
        /\ NET_IDX_MOD \in Nat \ {0}
    BY <1>3, RxSize
  <2>2. n <= rxSize
    BY <1>1, <1>3, NetAssumption
  <2>3. \A i \in RX!Descs : i \in Nat
    BY RxNames
  <2> QED BY <2>1, <2>2, <2>3
<1>6. \A b \in NetBuffers : rx_buffer_desc[b] \in 0..(n - 1) /\ bufs[rx_buffer_desc[b] + 1] = b
  BY <1>1
<1>7. BufferDescs = 0..(n - 1)
  BY <1>1
<1>8. \A b, c \in NetBuffers : rx_buffer_desc[b] = rx_buffer_desc[c] => b = c
  BY <1>6
<1>9. Free(rxDesc, rxFreeHead, rxFreeCount, rxSize, BufferDescs)
  <2> DEFINE m == rxSize - n
             f == [k \in 0..m |-> IF k = m THEN Nil ELSE n + k]
  <2>1. m \in Nat /\ m + n = rxSize
    BY <1>1, <1>5
  <2>2. f[0] = rxFreeHead /\ f[m] = Nil
    BY <1>1, <1>3, <1>5, <2>1
  <2>3. ASSUME NEW k \in 0..(m - 1)
        PROVE  /\ f[k] = n + k /\ n + k \in 0..(rxSize - 1) /\ n + k \notin 0..(n - 1)
               /\ rxDesc[n + k].next = f[k + 1]
    <3>0. /\ n \in Nat /\ rxSize \in Nat /\ m \in Nat /\ m + n = rxSize /\ k \in Nat /\ k < m
      BY <1>1, <1>5, <2>1
    <3>1. /\ n + k \in 0..(rxSize - 1) /\ n + k \in RX!Descs /\ ~(n + k < n)
          /\ k + 1 \in 0..m /\ k \in 0..m /\ k # m
      <4> HIDE DEF m
      <4>1. n + k \in 0..(rxSize - 1) /\ ~(n + k < n) /\ k + 1 \in 0..m /\ k \in 0..m /\ k # m
        BY <3>0
      <4> QED BY <1>5, <4>1
    <3>2. CASE k + 1 = m
      <4>1. ~(n + k < rxSize - 1)
        BY <1>1, <1>5, <2>1, <3>2
      <4>2. rxDesc[n + k].next = Nil
        BY <1>3, <3>1, <4>1
      <4> QED BY <1>1, <3>1, <3>2, <4>2
    <3>3. CASE k + 1 # m
      <4>1. n + k < rxSize - 1 /\ n + k >= n
        <5> HIDE DEF m
        <5> QED BY <3>0, <3>3
      <4>2. rxDesc[n + k].next = (n + k) + 1
        BY <1>3, <3>1, <4>1
      <4>3. f[k + 1] = n + (k + 1)
        BY <3>1, <3>3
      <4>4. f[k] = n + k /\ n + (k + 1) = (n + k) + 1
        BY <1>1, <2>1, <3>0, <3>1
      <4> HIDE DEF f, m
      <4>5. n + k \notin 0..(n - 1)
        BY <3>0, <3>1
      <4> QED BY <3>1, <4>2, <4>3, <4>4, <4>5
    <3> QED BY <3>2, <3>3
  <2>4. \A j, k \in 0..(m - 1) : f[j] = f[k] => j = k
    <3> TAKE j, k \in 0..(m - 1)
    <3>1. f[j] = n + j /\ f[k] = n + k
      BY <2>3
    <3> QED BY <1>1, <3>1
  <2>5. ASSUME NEW i \in (0..(rxSize - 1)) \ (0..(n - 1)) PROVE \E k \in 0..(m - 1) : f[k] = i
    <3>1. n \in Nat /\ m \in Nat /\ m + n = rxSize /\ i \in Nat /\ i < rxSize /\ i >= n
      BY <1>1, <1>5, <2>1
    <3> HIDE DEF m
    <3>2. i - n \in 0..(m - 1) /\ n + (i - n) = i
      BY <3>1
    <3> QED BY <2>3, <3>2
  <2>6. \A k \in 0..(m - 1) : f[k] \in (0..(rxSize - 1)) \ (0..(n - 1)) /\ rxDesc[f[k]].next = f[k + 1]
    BY <2>3
  <2>7. IsList(f, rxDesc, rxFreeHead, m, rxSize, 0..(n - 1))
    <3> HIDE DEF f, m
    <3> QED BY <2>2, <2>4, <2>5, <2>6 DEF IsList
  <2>8. Free(rxDesc, rxFreeHead, m, rxSize, BufferDescs)
    <3> HIDE DEF f, m
    <3> QED BY <1>7, <2>1, <2>7 DEF Free
  <2> QED BY <1>3, <2>8
<1>10. RX!VirtqueueTypeOK
  <2>1. rxDesc \in [RX!Descs -> RxDescriptor]
    <3>1. ASSUME NEW i \in RX!Descs
          PROVE  (CASE i < n -> [addr |-> bufs[i + 1], flags |-> {"WRITE"}, next |-> 0]
             [] i >= n /\ i < rxSize - 1 -> [addr |-> "none", flags |-> {"NEXT"}, next |-> i + 1]
             [] OTHER -> [addr |-> "none", flags |-> {}, next |-> Nil]) \in RxDescriptor
      <4>1. i \in Nat /\ (i < n => i + 1 \in 1..n) /\ (i < rxSize - 1 => i + 1 \in RX!Descs)
        BY <1>1, <1>5
      <4>2. CASE i < n
        BY <1>1, <1>5, <4>1, <4>2, RxNames DEF RxDescriptor, Flags
      <4>3. CASE i >= n /\ i < rxSize - 1
        BY <1>1, <1>5, <4>1, <4>3, RxNames DEF RxDescriptor, Flags
      <4>4. CASE i >= n /\ ~(i < rxSize - 1)
        BY <1>1, <1>5, <4>1, <4>4, RxNames DEF RxDescriptor, Flags
      <4> QED BY <1>1, <4>1, <4>2, <4>3, <4>4
    <3> QED BY <1>3, <3>1
  <2>2. rxAvail \in [RX!Descs -> RX!Descs]
    <3>1. \A i \in RX!Descs : (IF i < n THEN i ELSE 0) \in RX!Descs
      BY <1>5
    <3> QED BY <1>3, <3>1
  <2>3. Listing(rxDesc, rxFreeHead, rxFreeCount, rxSize, BufferDescs)
    BY <1>5, <1>9, FreeFacts
  <2>4. rxFreeHead \in RX!Descs \cup {RX!Nil} /\ rxFreeCount \in 0..rxSize
    BY <1>5, <2>3, RxNames DEF Listing
  <2>5. n % NET_IDX_MOD \in 0..(NET_IDX_MOD - 1) /\ 0 \in 0..(NET_IDX_MOD - 1)
    BY <1>1, <1>5
  <2> QED BY <1>3, <1>5, <2>1, <2>2, <2>4, <2>5, RxNames DEF RX!VirtqueueTypeOK, RxDescriptor
<1>11. /\ txSize \in TxSizes /\ txSize \in Nat \ {0} /\ 0..(txSize - 1) \subseteq TX!Descs
       /\ 0 \in TX!Descs /\ \A i \in TX!Descs : i \in Nat
  <2>1. txSize \in TxSizes
    BY <1>4 DEF TX!virtqueue_alloc
  <2>2. /\ txSize \in Nat \ {0} /\ 0..(txSize - 1) \subseteq TX!Descs /\ 0 \in TX!Descs
    BY <2>1, TxSize
  <2>3. \A i \in TX!Descs : i \in Nat
    BY TxNames
  <2> QED BY <2>1, <2>2, <2>3
<1>12. /\ txDesc = [i \in TX!Descs |-> [addr  |-> "none",
                              flags |-> IF i < txSize - 1 THEN {"NEXT"} ELSE {},
                              next  |-> IF i < txSize - 1 THEN i + 1 ELSE Nil]]
       /\ txFreeHead = 0 /\ txFreeCount = txSize
       /\ txAvail = [i \in TX!Descs |-> 0] /\ txAvailIdx = 0
       /\ txUsed = [i \in TX!Descs |-> 0] /\ txUsedIdx = 0 /\ txLastUsed = 0
  BY <1>4, TxNames DEF TX!virtqueue_alloc
<1>13. Free(txDesc, txFreeHead, txFreeCount, txSize, {txHead})
  <2> DEFINE f == [k \in 0..txSize |-> IF k = txSize THEN Nil ELSE k]
  <2>1. f[0] = 0 /\ f[txSize] = Nil
    BY <1>11
  <2>2. ASSUME NEW k \in 0..(txSize - 1)
        PROVE  f[k] = k /\ k \in 0..(txSize - 1) /\ k # Nil /\ txDesc[k].next = f[k + 1]
    BY <1>11, <1>12 DEF Nil
  <2>3. \A k \in 0..(txSize - 1) : f[k] = k /\ k # Nil /\ txDesc[k].next = f[k + 1]
    BY <2>2
  <2>4. IsList(f, txDesc, 0, txSize, txSize, {Nil})
    <3> HIDE DEF f
    <3> QED BY <2>1, <2>3 DEF IsList
  <2> HIDE DEF f
  <2> QED BY <1>4, <1>11, <1>12, <2>4 DEF Free
<1>14. TX!VirtqueueTypeOK
  <2>1. ASSUME NEW i \in TX!Descs
        PROVE  [addr |-> "none", flags |-> IF i < txSize - 1 THEN {"NEXT"} ELSE {},
                next |-> IF i < txSize - 1 THEN i + 1 ELSE Nil] \in TxDescriptor
    <3>1. i < txSize - 1 => i + 1 \in TX!Descs
      BY <1>11
    <3> QED BY <3>1, TxNames DEF TxDescriptor, Flags
  <2>2. txDesc \in [TX!Descs -> TxDescriptor]
    BY <1>12, <2>1
  <2>3. 0 \in 0..(NET_IDX_MOD - 1) /\ txSize \in 0..txSize
    BY <1>5, <1>11
  <2> QED BY <1>11, <1>12, <2>2, <2>3, TxNames DEF TX!VirtqueueTypeOK, TxDescriptor
<1>15. rx_buffer_desc \in [NetBuffers -> 0..(rxSize - 1)]
  <2>1. \A b \in NetBuffers : rx_buffer_desc[b] \in 0..(rxSize - 1)
    BY <1>1, <1>5, <1>6
  <2>2. rx_buffer_desc = [b \in NetBuffers |-> rx_buffer_desc[b]]
    BY <1>2 DEF InitBuffers
  <2> QED BY <2>1, <2>2
<1>16. NetTypeOK
  <2>1. 0 \in 0..(NET_IDX_MOD - 1) /\ netLate \in LateDevices
    BY <1>4, <1>5
  <2> QED BY <1>4, <1>10, <1>14, <1>15, <2>1, RxNames, TxNames DEF NetTypeOK, Frames
<1>17. NetListInv
  BY <1>4, <1>8, <1>9, <1>13 DEF NetListInv
<1> QED BY <1>16, <1>17 DEF NetInv

\* The list does not change while the tables agree on it.
LEMMA FreeKeep ==
  ASSUME NEW d, NEW h, NEW n, NEW sz, NEW C, Free(d, h, n, sz, C), NEW D,
         \A i \in (0..(sz - 1)) \ C : D[i].next = d[i].next
  PROVE  Free(D, h, n, sz, C)
<1>1. n \in Nat
  BY DEF Free
<1>2. PICK f : IsList(f, d, h, n, sz, C)
  BY DEF Free
<1>3. IsList(f, D, h, n, sz, C)
  BY <1>2 DEF IsList
<1> QED BY <1>1, <1>3 DEF Free

LEMMA FrameFacts ==
  ASSUME NEW f \in Frames \cup {0}
  PROVE  NextFrame(f) \in Frames /\ NextFrame(f) # 0 /\ FRAMES \in Nat /\ FRAMES > 1
<1>1. Cardinality(NetBuffers) \in Nat /\ FRAMES \in Nat /\ FRAMES > Cardinality(NetBuffers) + 1
  BY NetAssumption, FS_CardinalityType
<1>2. FRAMES \in Nat /\ FRAMES > 1
  BY <1>1
<1>3. f \in Nat
  BY <1>2 DEF Frames
<1>4. f % FRAMES \in 0..(FRAMES - 1)
  BY <1>2, <1>3
<1> QED BY <1>2, <1>4 DEF Frames, NextFrame

LEMMA RxFacts ==
  ASSUME NetInv
  PROVE  /\ rxSize \in RxSizes /\ rxSize \in Nat \ {0} /\ 0..(rxSize - 1) \subseteq RX!Descs
         /\ 0 \in RX!Descs /\ Nil \notin RX!Descs /\ NET_IDX_MOD \in Nat \ {0}
         /\ \A i \in Nat : i % rxSize \in 0..(rxSize - 1) /\ i % rxSize \in RX!Descs
         /\ rxDesc \in [RX!Descs -> RxDescriptor] /\ rxFreeHead \in RX!Descs \cup {Nil}
         /\ rxAvail \in [RX!Descs -> RX!Descs] /\ rxAvailIdx \in 0..(NET_IDX_MOD - 1)
         /\ rxUsed \in [RX!Descs -> RX!Descs] /\ rxUsedIdx \in 0..(NET_IDX_MOD - 1)
         /\ rxLastUsed \in 0..(NET_IDX_MOD - 1)
         /\ Free(rxDesc, rxFreeHead, rxFreeCount, rxSize, BufferDescs)
         /\ Listing(rxDesc, rxFreeHead, rxFreeCount, rxSize, BufferDescs)
<1>1. /\ rxSize \in RxSizes /\ rxDesc \in [RX!Descs -> RxDescriptor] /\ rxFreeHead \in RX!Descs \cup {Nil}
      /\ rxAvail \in [RX!Descs -> RX!Descs] /\ rxAvailIdx \in 0..(NET_IDX_MOD - 1)
      /\ rxUsed \in [RX!Descs -> RX!Descs] /\ rxUsedIdx \in 0..(NET_IDX_MOD - 1)
      /\ rxLastUsed \in 0..(NET_IDX_MOD - 1)
      /\ Free(rxDesc, rxFreeHead, rxFreeCount, rxSize, BufferDescs)
  BY RxNames DEF NetInv, NetTypeOK, NetListInv, RX!VirtqueueTypeOK, RxDescriptor
<1>2. /\ rxSize \in Nat \ {0} /\ 0..(rxSize - 1) \subseteq RX!Descs
      /\ 0 \in RX!Descs /\ Nil \notin RX!Descs /\ NET_IDX_MOD \in Nat \ {0}
      /\ \A i \in Nat : i % rxSize \in 0..(rxSize - 1) /\ i % rxSize \in RX!Descs
  BY <1>1, RxSize
<1>3. Listing(rxDesc, rxFreeHead, rxFreeCount, rxSize, BufferDescs)
  BY <1>1, <1>2, FreeFacts
<1> QED BY <1>1, <1>2, <1>3

\* An index of the rings and the one after it.
LEMMA NetIndex ==
  ASSUME NEW i \in 0..(NET_IDX_MOD - 1), NET_IDX_MOD \in Nat \ {0}
  PROVE  (i + 1) % NET_IDX_MOD \in 0..(NET_IDX_MOD - 1) /\ i \in Nat
OBVIOUS

\* The descriptor that virtio_net_receive frees is the one it takes again.
Requeued(x) ==
  /\ x = rx_buffer_desc[netBuf] /\ x \in 0..(rxSize - 1) /\ x \in RX!Descs /\ netBuf \in NetBuffers
  /\ netPc = "requeue" /\ netPc' = "idle" /\ rxLastUsed' = EntryRead
  /\ rxDesc' \in [RX!Descs -> RxDescriptor] /\ rxDesc'[x].addr = netBuf
  /\ \A i \in RX!Descs : i # x => rxDesc'[i] = rxDesc[i]
  /\ rxFreeHead' = rxFreeHead /\ rx_buffer_desc' = rx_buffer_desc
  /\ rxAvail' = [rxAvail EXCEPT ![rxAvailIdx % rxSize] = x]
  /\ rxAvailIdx' = (rxAvailIdx + 1) % NET_IDX_MOD
  /\ UNCHANGED <<rxSize, rxFreeCount, rxUsedVars, txVars, rxMem, txMem, netBuf, txHead, netRet,
                 netFrame, netUser, netDevVars, netLate>>

LEMMA RequeueFacts == ASSUME NetInv, Requeue PROVE Requeued(rx_buffer_desc[netBuf])
<1> DEFINE x == rx_buffer_desc[netBuf]
           e == [addr |-> netBuf, flags |-> {"WRITE"}, next |-> 0]
           list == RX!virtqueue_free_desc(rxDesc, rxFreeHead, <<x>>)
<1>1. /\ netPc = "requeue" /\ netPc' = "idle" /\ rxLastUsed' = EntryRead
      /\ rxDesc' = [list.desc EXCEPT ![list.head] = e]
      /\ rxFreeHead' = list.desc[list.head].next
      /\ rx_buffer_desc' = [rx_buffer_desc EXCEPT ![netBuf] = list.head]
      /\ RX!virtqueue_kick(list.head)
      /\ UNCHANGED <<rxSize, rxFreeCount, rxUsedVars, txVars, rxMem, txMem, netBuf, txHead, netRet,
                     netFrame, netUser, netDevVars, netLate>>
  BY DEF Requeue
<1>2. /\ netBuf \in NetBuffers /\ rx_buffer_desc \in [NetBuffers -> 0..(rxSize - 1)]
      /\ rxSize \in RxSizes /\ rxDesc \in [RX!Descs -> RxDescriptor]
      /\ rxFreeHead \in RX!Descs \cup {Nil} /\ rxLastUsed \in 0..(NET_IDX_MOD - 1)
      /\ rxAvail \in [RX!Descs -> RX!Descs] /\ rxAvailIdx \in 0..(NET_IDX_MOD - 1)
  BY RxNames DEF NetInv, NetTypeOK, RX!VirtqueueTypeOK, RxDescriptor
<1>3. /\ rxSize \in Nat \ {0} /\ 0..(rxSize - 1) \subseteq RX!Descs
      /\ 0 \in RX!Descs /\ NET_IDX_MOD \in Nat \ {0}
      /\ \A i \in Nat : i % rxSize \in 0..(rxSize - 1) /\ i % rxSize \in RX!Descs
  BY <1>2, RxSize
<1>4. x \in 0..(rxSize - 1) /\ x \in RX!Descs
  BY <1>2, <1>3
<1> DEFINE r == [i \in RX!Descs |-> IF i = x THEN FreedOne(rxDesc, rxFreeHead, x) ELSE rxDesc[i]]
<1>5. list.head = x /\ list.desc = r
  BY <1>4, RxFreeOne
<1>6. r[x].next = rxFreeHead
  <2>1. rxDesc[x] \in RxDescriptor /\ r[x] = FreedOne(rxDesc, rxFreeHead, x)
    BY <1>2, <1>4
  <2> HIDE DEF r, x
  <2>2. FreedOne(rxDesc, rxFreeHead, x).next = rxFreeHead
    BY <2>1 DEF FreedOne, RxDescriptor
  <2> QED BY <2>1, <2>2
<1>7. /\ rxDesc' = [r EXCEPT ![x] = e] /\ rxFreeHead' = rxFreeHead
      /\ rx_buffer_desc' = [rx_buffer_desc EXCEPT ![netBuf] = x]
      /\ rxAvail' = [rxAvail EXCEPT ![rxAvailIdx % rxSize] = x]
      /\ rxAvailIdx' = (rxAvailIdx + 1) % NET_IDX_MOD
  <2> HIDE DEF list, r, e, x
  <2> QED BY <1>1, <1>5, <1>6 DEF RX!virtqueue_kick
<1>8. rx_buffer_desc' = rx_buffer_desc
  BY <1>2, <1>7
<1>9. e \in RxDescriptor
  BY <1>2, <1>3, RxNames DEF RxDescriptor, Flags
<1>10. rxDesc' \in [RX!Descs -> RxDescriptor] /\ \A i \in RX!Descs : i # x => rxDesc'[i] = rxDesc[i]
  <2>1. rxDesc' = [i \in RX!Descs |-> IF i = x THEN e ELSE rxDesc[i]]
    BY <1>4, <1>7
  <2> HIDE DEF e, x
  <2> QED BY <1>2, <1>9, <2>1
<1>11. rxDesc'[x] = e
  BY <1>2, <1>4, <1>7
<1> HIDE DEF x
<1>12. rxDesc'[x].addr = netBuf
  BY <1>11
<1>13. x = rx_buffer_desc[netBuf]
  BY DEF x
<1>14. Requeued(x)
  <2> HIDE DEF list, r, e
  <2> QED BY <1>1, <1>2, <1>4, <1>7, <1>8, <1>10, <1>12, <1>13 DEF Requeued
<1> QED BY <1>14 DEF x

LEMMA RequeueInv == NetInv /\ Requeue => NetInv'
<1> SUFFICES ASSUME NetInv, Requeue PROVE NetInv'
  OBVIOUS
<1> DEFINE x == rx_buffer_desc[netBuf]
<1>1. Requeued(x)
  BY RequeueFacts
<1> HIDE DEF x
<1>2. /\ rxSize \in Nat \ {0} /\ 0..(rxSize - 1) \subseteq RX!Descs /\ NET_IDX_MOD \in Nat \ {0}
      /\ rxLastUsed \in 0..(NET_IDX_MOD - 1) /\ rxAvailIdx \in 0..(NET_IDX_MOD - 1)
      /\ rxAvail \in [RX!Descs -> RX!Descs]
  BY RxFacts
<1>11. /\ rxSize' = rxSize /\ rxFreeCount' = rxFreeCount /\ txSize' = txSize /\ txDesc' = txDesc
       /\ txFreeHead' = txFreeHead /\ txFreeCount' = txFreeCount /\ txHead' = txHead
       /\ UNCHANGED <<rxUsed, rxUsedIdx, rxMem, txMem, netBuf, netRet, netFrame, netUser>>
       /\ UNCHANGED <<rxDev, txDev, rxWork, txWork, arrived, netOut, netBroken, netLate>>
       /\ UNCHANGED <<txAvail, txAvailIdx, txUsed, txUsedIdx, txLastUsed>>
  BY <1>1 DEF Requeued, rxUsedVars, txVars, txFreeVars, txAvailVars, txUsedVars, netDevVars
<1>12. BufferDescs' = BufferDescs
  BY <1>1 DEF BufferDescs, Requeued
<1>13. Free(rxDesc', rxFreeHead', rxFreeCount', rxSize', BufferDescs')
  <2>1. x \in BufferDescs
    BY <1>1 DEF BufferDescs, Requeued
  <2>2. \A i \in (0..(rxSize - 1)) \ BufferDescs : rxDesc'[i].next = rxDesc[i].next
    BY <1>1, <1>2, <2>1 DEF Requeued
  <2>3. Free(rxDesc, rxFreeHead, rxFreeCount, rxSize, BufferDescs)
    BY DEF NetInv, NetListInv
  <2>4. Free(rxDesc', rxFreeHead, rxFreeCount, rxSize, BufferDescs)
    BY <2>2, <2>3, FreeKeep
  <2> QED BY <1>1, <1>11, <1>12, <2>4 DEF Requeued
<1>14. NetListInv'
  <2>1. netPc \notin {"kick", "poll"} /\ netPc' \notin {"kick", "poll"}
    BY <1>1 DEF Requeued
  <2> QED BY <1>1, <1>11, <1>13, <2>1 DEF NetInv, NetListInv, Requeued
<1>15. RX!VirtqueueTypeOK'
  <2>1. rxLastUsed' \in 0..(NET_IDX_MOD - 1) /\ rxAvailIdx' \in 0..(NET_IDX_MOD - 1)
    BY <1>1, <1>2, NetIndex DEF EntryRead, Requeued
  <2>2. rxAvail' \in [RX!Descs -> RX!Descs]
    BY <1>1, <1>2 DEF Requeued
  <2> QED BY <1>1, <1>11, <2>1, <2>2, RxNames DEF NetInv, NetTypeOK, RX!VirtqueueTypeOK, RxDescriptor, Requeued
<1>16. TX!VirtqueueTypeOK'
  BY <1>11 DEF NetInv, NetTypeOK, TX!VirtqueueTypeOK
<1>17. NetTypeOK'
  BY <1>1, <1>11, <1>15, <1>16 DEF NetInv, NetTypeOK, Requeued
<1> QED BY <1>14, <1>17 DEF NetInv

LEMMA TxFacts ==
  ASSUME NetInv
  PROVE  /\ txSize \in TxSizes /\ txSize \in Nat \ {0} /\ 0..(txSize - 1) \subseteq TX!Descs
         /\ 0 \in TX!Descs /\ Nil \notin TX!Descs /\ NET_IDX_MOD \in Nat \ {0}
         /\ \A i \in Nat : i % txSize \in 0..(txSize - 1) /\ i % txSize \in TX!Descs
         /\ txDesc \in [TX!Descs -> TxDescriptor] /\ txFreeHead \in TX!Descs \cup {Nil}
         /\ txAvail \in [TX!Descs -> TX!Descs] /\ txAvailIdx \in 0..(NET_IDX_MOD - 1)
         /\ txUsed \in [TX!Descs -> TX!Descs] /\ txUsedIdx \in 0..(NET_IDX_MOD - 1)
         /\ txLastUsed \in 0..(NET_IDX_MOD - 1)
         /\ Free(txDesc, txFreeHead, txFreeCount, txSize, {txHead})
         /\ Listing(txDesc, txFreeHead, txFreeCount, txSize, {txHead})
<1>1. /\ txSize \in TxSizes /\ txDesc \in [TX!Descs -> TxDescriptor] /\ txFreeHead \in TX!Descs \cup {Nil}
      /\ txAvail \in [TX!Descs -> TX!Descs] /\ txAvailIdx \in 0..(NET_IDX_MOD - 1)
      /\ txUsed \in [TX!Descs -> TX!Descs] /\ txUsedIdx \in 0..(NET_IDX_MOD - 1)
      /\ txLastUsed \in 0..(NET_IDX_MOD - 1)
      /\ Free(txDesc, txFreeHead, txFreeCount, txSize, {txHead})
  BY TxNames DEF NetInv, NetTypeOK, NetListInv, TX!VirtqueueTypeOK, TxDescriptor
<1>2. /\ txSize \in Nat \ {0} /\ 0..(txSize - 1) \subseteq TX!Descs
      /\ 0 \in TX!Descs /\ Nil \notin TX!Descs /\ NET_IDX_MOD \in Nat \ {0}
      /\ \A i \in Nat : i % txSize \in 0..(txSize - 1) /\ i % txSize \in TX!Descs
  BY <1>1, TxSize
<1>3. Listing(txDesc, txFreeHead, txFreeCount, txSize, {txHead})
  BY <1>1, <1>2, FreeFacts
<1> QED BY <1>1, <1>2, <1>3

LEMMA SendInv == NetInv /\ Send => NetInv'
<1> SUFFICES ASSUME NetInv, Send PROVE NetInv'
  OBVIOUS
<1>1. /\ netPc = "idle"
      /\ IF txFreeHead = Nil
         THEN netRet' = "full" /\ UNCHANGED <<netPc, netFrame, txMem, txHead, txFreeVars>>
         ELSE /\ txHead' = txFreeHead /\ txFreeHead' = txDesc[txFreeHead].next /\ txFreeCount' = txFreeCount - 1
              /\ netFrame' = NextFrame(netFrame) /\ txMem' = netFrame'
              /\ txDesc' = [txDesc EXCEPT ![txFreeHead] = [addr |-> "tx_buffer", flags |-> {}, next |-> 0]]
              /\ netPc' = "kick" /\ UNCHANGED netRet
      /\ UNCHANGED <<rxVars, txSize, txAvailVars, txUsedVars, txLastUsed, rx_buffer_desc, rxMem,
                     netBuf, netUser, netDevVars, netLate>>
  BY TxNames DEF Send
<1>2. /\ UNCHANGED <<rxSize, rxDesc, rxFreeHead, rxFreeCount, rxAvail, rxAvailIdx, rxUsed, rxUsedIdx,
                     rxLastUsed, rx_buffer_desc, rxMem, netBuf, netUser, txSize, txAvail, txAvailIdx,
                     txUsed, txUsedIdx, txLastUsed>>
      /\ UNCHANGED <<rxDev, txDev, rxWork, txWork, arrived, netOut, netBroken, netLate>>
  BY <1>1 DEF rxVars, rxFreeVars, rxAvailVars, rxUsedVars, txAvailVars, txUsedVars, netDevVars
<1>3. BufferDescs' = BufferDescs /\ RX!VirtqueueTypeOK'
  <2>1. BufferDescs' = BufferDescs
    BY <1>2 DEF BufferDescs
  <2> QED BY <1>2, <2>1 DEF NetInv, NetTypeOK, RX!VirtqueueTypeOK
<1>4. CASE txFreeHead = Nil
  <2>1. netRet' = "full" /\ UNCHANGED <<netPc, netFrame, txMem, txHead, txDesc, txFreeHead, txFreeCount>>
    BY <1>1, <1>4 DEF txFreeVars
  <2>2. TX!VirtqueueTypeOK'
    BY <1>2, <2>1 DEF NetInv, NetTypeOK, TX!VirtqueueTypeOK
  <2>3. NetTypeOK'
    BY <1>2, <1>3, <2>1, <2>2 DEF NetInv, NetTypeOK
  <2>4. NetListInv'
    BY <1>2, <1>3, <2>1 DEF NetInv, NetListInv
  <2> QED BY <2>3, <2>4 DEF NetInv
<1>5. CASE txFreeHead # Nil
  <2> DEFINE d == txFreeHead
             e == [addr |-> "tx_buffer", flags |-> {}, next |-> 0]
  <2>1. /\ txHead' = d /\ txFreeHead' = txDesc[d].next /\ txFreeCount' = txFreeCount - 1
        /\ netFrame' = NextFrame(netFrame) /\ txMem' = netFrame'
        /\ txDesc' = [txDesc EXCEPT ![d] = e] /\ netPc' = "kick" /\ netRet' = netRet
    BY <1>1, <1>5
  <2>2. /\ txSize \in Nat \ {0} /\ 0..(txSize - 1) \subseteq TX!Descs /\ 0 \in TX!Descs
        /\ txDesc \in [TX!Descs -> TxDescriptor] /\ txHead = Nil /\ Nil \notin 0..(txSize - 1)
        /\ Free(txDesc, d, txFreeCount, txSize, {txHead})
        /\ Listing(txDesc, d, txFreeCount, txSize, {txHead})
    BY <1>1, TxFacts DEF NetInv, NetListInv
  <2>3. /\ d \in 0..(txSize - 1) /\ d \in TX!Descs /\ txFreeCount # 0 /\ txFreeCount \in 0..txSize
        /\ Nth(txDesc, d, 0) = d /\ Nth(txDesc, d, 1) = txDesc[d].next
    <3>1. /\ d \in (0..(txSize - 1)) \cup {Nil} /\ (d = Nil <=> txFreeCount = 0)
          /\ txFreeCount \in 0..txSize /\ Nth(txDesc, d, 0) = d
      BY <2>2 DEF Listing
    <3> QED BY <1>5, <2>2, <3>1, NthOne
  <2>4. 1 \in 0..txFreeCount /\ \A k \in 0..(1 - 1) : k = 0
    BY <2>3
  <2>5. {Nth(txDesc, d, k) : k \in 0..(1 - 1)} = {d}
    BY <2>3, <2>4
  <2>6. e \in TxDescriptor
    BY <2>2, TxNames DEF TxDescriptor, Flags
  <2>7. txDesc' \in [TX!Descs -> TxDescriptor] /\ \A i \in TX!Descs : i # d => txDesc'[i] = txDesc[i]
    <3>1. txDesc' = [i \in TX!Descs |-> IF i = d THEN e ELSE txDesc[i]]
      BY <2>1, <2>2
    <3> HIDE DEF e, d
    <3> QED BY <2>2, <2>6, <3>1
  <2>8. \A i \in (0..(txSize - 1)) \ {txHead} :
           (\A k \in 0..(1 - 1) : Nth(txDesc, d, k) # i) => txDesc'[i].next = txDesc[i].next
    BY <2>2, <2>3, <2>7
  <2> HIDE DEF d, e
  <2>9. Free(txDesc', Nth(txDesc, d, 1), txFreeCount - 1, txSize,
             {txHead} \cup {Nth(txDesc, d, k) : k \in 0..(1 - 1)})
    BY <2>2, <2>4, <2>8, FreeTake
  <2>10. Free(txDesc', txFreeHead', txFreeCount', txSize, {Nil, d})
    <3>1. {txHead} \cup {Nth(txDesc, d, k) : k \in 0..(1 - 1)} = {Nil, d}
      BY <2>2, <2>5
    <3> QED BY <2>1, <2>3, <2>9, <3>1
  <2>11. Free(txDesc', txFreeHead', txFreeCount', txSize, {d})
    <3>1. (0..(txSize - 1)) \ {Nil, d} = (0..(txSize - 1)) \ {d}
      BY <2>2
    <3> QED BY <2>10, <3>1, FreeSame
  <2>12. NetListInv'
    BY <1>2, <1>3, <2>1, <2>3, <2>11 DEF NetInv, NetListInv
  <2>13. TX!VirtqueueTypeOK'
    <3>1. txFreeHead' \in TX!Descs \cup {Nil} /\ txFreeCount' \in 0..txSize
      <4>1. txDesc[d] \in TxDescriptor
        BY <2>2, <2>3
      <4>2. txDesc[d].next \in TX!Descs \cup {Nil}
        BY <4>1 DEF TxDescriptor
      <4> QED BY <2>1, <2>2, <2>3, <4>2
    <3> QED BY <1>2, <2>7, <3>1, TxNames DEF NetInv, NetTypeOK, TX!VirtqueueTypeOK, TxDescriptor
  <2>14. netFrame' \in Frames
    <3>1. netFrame \in Frames \cup {0}
      BY DEF NetInv, NetTypeOK
    <3> QED BY <2>1, <3>1, FrameFacts
  <2>15. txHead' \in TX!Descs
    BY <2>1, <2>3
  <2>16. NetTypeOK'
    BY <1>2, <1>3, <2>1, <2>13, <2>14, <2>15 DEF NetInv, NetTypeOK
  <2> QED BY <2>12, <2>16 DEF NetInv
<1> QED BY <1>4, <1>5

LEMMA ReturnsInv ==
  ASSUME NetInv, netPc = "poll", NEW r \in {"ok", "timeout"}, Returns(r),
         txLastUsed' \in 0..(NET_IDX_MOD - 1)
  PROVE  NetInv'
<1>1. /\ txDesc' = TX!virtqueue_free_desc(txDesc, txFreeHead, <<txHead>>).desc
      /\ txFreeHead' = TX!virtqueue_free_desc(txDesc, txFreeHead, <<txHead>>).head
      /\ txFreeCount' = txFreeCount + 1
      /\ txHead' = Nil /\ netPc' = "idle" /\ netRet' = r
      /\ UNCHANGED <<rxVars, txSize, txAvailVars, txUsedVars, rx_buffer_desc, rxMem, txMem, netBuf,
                     netFrame, netUser, netDevVars, netLate>>
  BY TxNames DEF Returns
<1>2. /\ UNCHANGED <<rxSize, rxDesc, rxFreeHead, rxFreeCount, rxAvail, rxAvailIdx, rxUsed, rxUsedIdx,
                     rxLastUsed, rx_buffer_desc, rxMem, txMem, netBuf, netUser, netFrame, txSize,
                     txAvail, txAvailIdx, txUsed, txUsedIdx>>
      /\ UNCHANGED <<rxDev, txDev, rxWork, txWork, arrived, netOut, netBroken, netLate>>
  BY <1>1 DEF rxVars, rxFreeVars, rxAvailVars, rxUsedVars, txAvailVars, txUsedVars, netDevVars
<1>3. BufferDescs' = BufferDescs /\ RX!VirtqueueTypeOK'
  <2>1. BufferDescs' = BufferDescs
    BY <1>2 DEF BufferDescs
  <2> QED BY <1>2, <2>1 DEF NetInv, NetTypeOK, RX!VirtqueueTypeOK
<1>4. /\ txSize \in Nat \ {0} /\ 0..(txSize - 1) \subseteq TX!Descs /\ 0 \in TX!Descs
      /\ txDesc \in [TX!Descs -> TxDescriptor] /\ txFreeHead \in TX!Descs \cup {Nil}
      /\ Free(txDesc, txFreeHead, txFreeCount, txSize, {txHead})
      /\ txHead \in 0..(txSize - 1) /\ Nil \notin TX!Descs
  BY TxFacts DEF NetInv, NetListInv
<1> DEFINE f == FreedOne(txDesc, txFreeHead, txHead)
<1>5. /\ txFreeHead' = txHead /\ txDesc' = [i \in TX!Descs |-> IF i = txHead THEN f ELSE txDesc[i]]
  BY <1>1, <1>4, TxFreeOne
<1>6. f \in TxDescriptor /\ f.next = txFreeHead
  <2>1. txDesc[txHead] \in TxDescriptor /\ {"NEXT"} \in SUBSET TX!Flags
    BY <1>4, TxNames DEF Flags
  <2> QED BY <1>4, <2>1 DEF FreedOne, TxDescriptor
<1> HIDE DEF f
<1>7. /\ txDesc' \in [TX!Descs -> TxDescriptor] /\ txDesc'[txHead].next = txFreeHead
      /\ \A i \in TX!Descs : i # txHead => txDesc'[i] = txDesc[i]
  BY <1>4, <1>5, <1>6
<1> DEFINE s == <<txHead>>
<1>8. Given(txDesc, txFreeHead, txSize, {txHead}, s, 1, txDesc', txFreeHead')
  <2>1. s[1] = txHead /\ \A k \in 1..1 : k = 1
    OBVIOUS
  <2>2. \A i \in (0..(txSize - 1)) \ {txHead} : txDesc'[i].next = txDesc[i].next
    BY <1>4, <1>7
  <2> HIDE DEF s
  <2> QED BY <1>4, <1>5, <1>7, <2>1, <2>2 DEF Given
<1>9. Free(txDesc', txFreeHead', txFreeCount + 1, txSize, {txHead} \ {s[k] : k \in 1..1})
  <2> HIDE DEF s
  <2>1. txSize \in Nat /\ Free(txDesc, txFreeHead, txFreeCount, txSize, {txHead})
    BY <1>4
  <2> DEFINE D == txDesc'
             H == txFreeHead'
             m == 1
             C == {txHead}
  <2>2. Given(txDesc, txFreeHead, txSize, C, s, m, D, H) /\ Free(txDesc, txFreeHead, txFreeCount, txSize, C)
    BY <1>8, <2>1
  <2> HIDE DEF D, H, C, m
  <2>3. Free(D, H, txFreeCount + m, txSize, C \ {s[k] : k \in 1..m})
    BY <2>1, <2>2, FreeGive
  <2> QED BY <2>3 DEF D, H, C, m
<1>10. Free(txDesc', txFreeHead', txFreeCount', txSize', {txHead'})
  <2>1. (0..(txSize - 1)) \ ({txHead} \ {s[k] : k \in 1..1}) = (0..(txSize - 1)) \ {Nil}
    <3>1. {s[k] : k \in 1..1} = {txHead}
      OBVIOUS
    <3> QED BY <1>4, <3>1
  <2>2. Free(txDesc', txFreeHead', txFreeCount + 1, txSize, {Nil})
    BY <1>9, <2>1, FreeSame
  <2> QED BY <1>1, <1>2, <2>2
<1>11. NetListInv'
  BY <1>1, <1>2, <1>3, <1>10 DEF NetInv, NetListInv
<1>12. TX!VirtqueueTypeOK'
  <2>1. txFreeCount' \in 0..txSize
    <3>1. Listing(txDesc', txFreeHead', txFreeCount', txSize, {txHead'})
      BY <1>2, <1>4, <1>10, FreeFacts
    <3> QED BY <3>1 DEF Listing
  <2>2. txFreeHead' \in TX!Descs \cup {Nil}
    BY <1>4, <1>5
  <2> QED BY <1>2, <1>7, <2>1, <2>2, TxNames DEF NetInv, NetTypeOK, TX!VirtqueueTypeOK, TxDescriptor
<1>13. NetTypeOK'
  BY <1>1, <1>2, <1>3, <1>12, TxNames DEF NetInv, NetTypeOK
<1> QED BY <1>11, <1>13 DEF NetInv

\* The remaining steps leave the descriptors alone.
LEMMA ListsKept ==
  ASSUME NetInv,
         UNCHANGED <<rxSize, rxDesc, rxFreeHead, rxFreeCount, rx_buffer_desc,
                     txSize, txDesc, txFreeHead, txFreeCount, txHead>>,
         netPc \in {"kick", "poll"} <=> netPc' \in {"kick", "poll"}
  PROVE  NetListInv'
<1>1. BufferDescs' = BufferDescs
  BY DEF BufferDescs
<1> QED BY <1>1 DEF NetInv, NetListInv

LEMMA SendKickInv == NetInv /\ SendKick => NetInv'
<1> SUFFICES ASSUME NetInv, SendKick PROVE NetInv'
  OBVIOUS
<1>1. /\ netPc = "kick" /\ netPc' = "poll"
      /\ txAvail' = [txAvail EXCEPT ![txAvailIdx % txSize] = txHead]
      /\ txAvailIdx' = (txAvailIdx + 1) % NET_IDX_MOD
      /\ UNCHANGED <<rxSize, rxDesc, rxFreeHead, rxFreeCount, rxAvail, rxAvailIdx, rxUsed, rxUsedIdx,
                     rxLastUsed, rx_buffer_desc, rxMem, txMem, netBuf, txHead, netRet, netFrame, netUser>>
      /\ UNCHANGED <<txSize, txDesc, txFreeHead, txFreeCount, txUsed, txUsedIdx, txLastUsed>>
      /\ UNCHANGED <<rxDev, txDev, rxWork, txWork, arrived, netOut, netBroken, netLate>>
  BY DEF SendKick, TX!virtqueue_kick, rxVars, rxFreeVars, rxAvailVars, rxUsedVars, txFreeVars, txUsedVars, netDevVars
<1>2. NetListInv'
  BY <1>1, ListsKept
<1>3. txHead \in 0..(txSize - 1) /\ txHead \in TX!Descs
  BY <1>1, TxFacts DEF NetInv, NetListInv
<1>4. TX!VirtqueueTypeOK'
  <2>1. txAvail' \in [TX!Descs -> TX!Descs] /\ txAvailIdx' \in 0..(NET_IDX_MOD - 1)
    BY <1>1, <1>3, TxFacts, NetIndex
  <2> QED BY <1>1, <2>1 DEF NetInv, NetTypeOK, TX!VirtqueueTypeOK
<1>5. RX!VirtqueueTypeOK'
  BY <1>1 DEF NetInv, NetTypeOK, RX!VirtqueueTypeOK
<1>6. NetTypeOK'
  BY <1>1, <1>4, <1>5 DEF NetInv, NetTypeOK
<1> QED BY <1>2, <1>6 DEF NetInv

LEMMA ReceivedInv == NetInv /\ Received => NetInv'
<1> SUFFICES ASSUME NetInv, Received PROVE NetInv'
  OBVIOUS
<1>1. /\ netPc = "idle" /\ netPc' \in {"idle", "copy"} /\ netBuf' \in NetBuffers
      /\ rxLastUsed' \in {rxLastUsed, (rxLastUsed + 1) % NET_IDX_MOD}
      /\ UNCHANGED <<rxSize, rxFreeVars, rxAvailVars, rxUsedVars, txVars, rx_buffer_desc, rxMem,
                     txMem, txHead, netRet, netFrame, netUser, netDevVars, netLate>>
  BY DEF Received, RX!virtqueue_get_used, NetInv, NetTypeOK
<1>2. /\ UNCHANGED <<rxSize, rxDesc, rxFreeHead, rxFreeCount, rxAvail, rxAvailIdx, rxUsed, rxUsedIdx,
                     rx_buffer_desc, rxMem, txMem, txHead, netRet, netFrame, netUser>>
      /\ UNCHANGED <<txSize, txDesc, txFreeHead, txFreeCount, txAvail, txAvailIdx, txUsed, txUsedIdx, txLastUsed>>
      /\ UNCHANGED <<rxDev, txDev, rxWork, txWork, arrived, netOut, netBroken, netLate>>
  BY <1>1 DEF rxFreeVars, rxAvailVars, rxUsedVars, txVars, txFreeVars, txAvailVars, txUsedVars, netDevVars
<1>3. NetListInv'
  BY <1>1, <1>2, ListsKept
<1>4. RX!VirtqueueTypeOK'
  <2>1. rxLastUsed' \in 0..(NET_IDX_MOD - 1)
    BY <1>1, RxFacts, NetIndex
  <2> QED BY <1>2, <2>1 DEF NetInv, NetTypeOK, RX!VirtqueueTypeOK
<1>5. TX!VirtqueueTypeOK'
  BY <1>2 DEF NetInv, NetTypeOK, TX!VirtqueueTypeOK
<1>6. NetTypeOK'
  BY <1>1, <1>2, <1>4, <1>5 DEF NetInv, NetTypeOK
<1> QED BY <1>3, <1>6 DEF NetInv

LEMMA CopyInv == NetInv /\ CopyFrame => NetInv'
<1> SUFFICES ASSUME NetInv, CopyFrame PROVE NetInv'
  OBVIOUS
<1>1. /\ netPc = "copy" /\ netPc' = "requeue" /\ netUser' = rxMem[netBuf]
      /\ UNCHANGED <<rxSize, rxDesc, rxFreeHead, rxFreeCount, rxAvail, rxAvailIdx, rxUsed, rxUsedIdx,
                     rxLastUsed, rx_buffer_desc, rxMem, txMem, netBuf, txHead, netRet, netFrame>>
      /\ UNCHANGED <<txSize, txDesc, txFreeHead, txFreeCount, txAvail, txAvailIdx, txUsed, txUsedIdx, txLastUsed>>
      /\ UNCHANGED <<rxDev, txDev, rxWork, txWork, arrived, netOut, netBroken, netLate>>
  BY DEF CopyFrame, rxVars, rxFreeVars, rxAvailVars, rxUsedVars, txVars, txFreeVars, txAvailVars, txUsedVars, netDevVars
<1>2. NetListInv'
  BY <1>1, ListsKept
<1>3. RX!VirtqueueTypeOK' /\ TX!VirtqueueTypeOK'
  BY <1>1 DEF NetInv, NetTypeOK, RX!VirtqueueTypeOK, TX!VirtqueueTypeOK
<1>4. netUser' \in Frames \cup {0}
  BY <1>1 DEF NetInv, NetTypeOK
<1>5. NetTypeOK'
  BY <1>1, <1>3, <1>4 DEF NetInv, NetTypeOK
<1> QED BY <1>2, <1>5 DEF NetInv

LEMMA NetDeviceInv == NetInv /\ NetDevice => NetInv'
<1> SUFFICES ASSUME NetInv, NetDevice PROVE NetInv'
  OBVIOUS
<1>1. /\ UNCHANGED <<rxSize, rxDesc, rxFreeHead, rxFreeCount, rxAvail, rxAvailIdx, rxLastUsed,
                     rx_buffer_desc, txMem, netPc, netBuf, txHead, netRet, netFrame, netUser>>
      /\ UNCHANGED <<txSize, txDesc, txFreeHead, txFreeCount, txAvail, txAvailIdx, txLastUsed, netLate>>
  BY DEF NetDevice, RxFill, RxAnswer, TxTransmit, TxAnswer, NetDie, rxVars, rxFreeVars, rxAvailVars,
         rxUsedVars, txVars, txFreeVars, txAvailVars, txUsedVars, netCallVars
<1>2. NetListInv'
  BY <1>1, ListsKept
<1> DEFINE Types == /\ rxUsed' \in [RX!Descs -> RX!Descs] /\ rxUsedIdx' \in 0..(NET_IDX_MOD - 1)
                    /\ txUsed' \in [TX!Descs -> TX!Descs] /\ txUsedIdx' \in 0..(NET_IDX_MOD - 1)
                    /\ rxMem' \in [NetBuffers -> Frames \cup {0}]
                    /\ arrived' \in Frames \cup {0} /\ netOut' \in Frames \cup {0}
                    /\ rxDev' \in 0..(NET_IDX_MOD - 1) /\ txDev' \in 0..(NET_IDX_MOD - 1)
                    /\ rxWork' \in RX!Descs \cup {Nil} /\ txWork' \in TX!Descs \cup {Nil}
                    /\ netBroken' \in BOOLEAN
<1>3. /\ rxUsed \in [RX!Descs -> RX!Descs] /\ rxUsedIdx \in 0..(NET_IDX_MOD - 1)
      /\ txUsed \in [TX!Descs -> TX!Descs] /\ txUsedIdx \in 0..(NET_IDX_MOD - 1)
      /\ rxMem \in [NetBuffers -> Frames \cup {0}] /\ txMem \in Frames \cup {0}
      /\ arrived \in Frames \cup {0} /\ netOut \in Frames \cup {0}
      /\ rxDev \in 0..(NET_IDX_MOD - 1) /\ txDev \in 0..(NET_IDX_MOD - 1)
      /\ rxWork \in RX!Descs \cup {Nil} /\ txWork \in TX!Descs \cup {Nil}
      /\ netBroken \in BOOLEAN
  BY RxNames, TxNames DEF NetInv, NetTypeOK, RX!VirtqueueTypeOK, TX!VirtqueueTypeOK
<1>4. /\ NET_IDX_MOD \in Nat \ {0} /\ rxAvail \in [RX!Descs -> RX!Descs] /\ txAvail \in [TX!Descs -> TX!Descs]
      /\ \A i \in Nat : i % rxSize \in RX!Descs /\ i % txSize \in TX!Descs
  BY RxFacts, TxFacts
<1>5. ASSUME RxFill PROVE Types
  <2>1. /\ rxWork' = rxAvail[rxDev % rxSize] /\ rxDev' = (rxDev + 1) % NET_IDX_MOD
        /\ rxMem' = [rxMem EXCEPT ![rxDesc[rxWork'].addr] = 0]
        /\ UNCHANGED <<rxUsed, rxUsedIdx, txUsed, txUsedIdx, txDev, txWork, arrived, netOut, netBroken>>
    BY <1>5 DEF RxFill, rxVars, rxUsedVars, txVars, txUsedVars
  <2>2. rxDev' \in 0..(NET_IDX_MOD - 1) /\ rxWork' \in RX!Descs
    BY <1>3, <1>4, <2>1, NetIndex
  <2>3. rxMem' \in [NetBuffers -> Frames \cup {0}]
    BY <1>3, <2>1
  <2> QED BY <1>3, <2>1, <2>2, <2>3
<1>6. ASSUME RxAnswer PROVE Types
  <2>1. /\ rxWork # Nil /\ arrived' = NextFrame(arrived)
        /\ rxMem' = [rxMem EXCEPT ![rxDesc[rxWork].addr] = arrived']
        /\ rxUsed' = [rxUsed EXCEPT ![rxUsedIdx % rxSize] = rxWork]
        /\ rxUsedIdx' = (rxUsedIdx + 1) % NET_IDX_MOD /\ rxWork' = Nil
        /\ UNCHANGED <<txUsed, txUsedIdx, rxDev, txDev, txWork, netOut, netBroken>>
    BY <1>6, RxNames DEF RxAnswer, txVars, txUsedVars
  <2>2. arrived' \in Frames /\ rxUsedIdx' \in 0..(NET_IDX_MOD - 1) /\ rxWork \in RX!Descs
    BY <1>3, <1>4, <2>1, NetIndex, FrameFacts
  <2>3. rxMem' \in [NetBuffers -> Frames \cup {0}] /\ rxUsed' \in [RX!Descs -> RX!Descs]
    BY <1>3, <2>1, <2>2
  <2> QED BY <1>3, <2>1, <2>2, <2>3
<1>7. ASSUME TxTransmit PROVE Types
  <2>1. /\ txWork' = txAvail[txDev % txSize] /\ txDev' = (txDev + 1) % NET_IDX_MOD /\ netOut' = txMem
        /\ UNCHANGED <<rxUsed, rxUsedIdx, txUsed, txUsedIdx, rxMem, rxDev, rxWork, arrived, netBroken>>
    BY <1>7 DEF TxTransmit, rxVars, rxUsedVars, txVars, txUsedVars
  <2>2. txDev' \in 0..(NET_IDX_MOD - 1) /\ txWork' \in TX!Descs
    BY <1>3, <1>4, <2>1, NetIndex
  <2> QED BY <1>3, <2>1, <2>2
<1>8. ASSUME TxAnswer PROVE Types
  <2>1. /\ txWork # Nil /\ txUsed' = [txUsed EXCEPT ![txUsedIdx % txSize] = txWork]
        /\ txUsedIdx' = (txUsedIdx + 1) % NET_IDX_MOD /\ txWork' = Nil
        /\ UNCHANGED <<rxUsed, rxUsedIdx, rxMem, rxDev, txDev, rxWork, arrived, netOut, netBroken>>
    BY <1>8, TxNames DEF TxAnswer, rxVars, rxUsedVars
  <2>2. txUsedIdx' \in 0..(NET_IDX_MOD - 1) /\ txUsed' \in [TX!Descs -> TX!Descs]
    BY <1>3, <1>4, <2>1, NetIndex
  <2> QED BY <1>3, <2>1, <2>2
<1>9. ASSUME NetDie PROVE Types
  <2>1. /\ netBroken' = TRUE
        /\ UNCHANGED <<rxUsed, rxUsedIdx, txUsed, txUsedIdx, rxMem, rxDev, txDev, rxWork, txWork, arrived, netOut>>
    BY <1>9 DEF NetDie, rxVars, rxUsedVars, txVars, txUsedVars
  <2> QED BY <1>3, <2>1
<1>10. Types
  BY <1>5, <1>6, <1>7, <1>8, <1>9 DEF NetDevice
<1>11. RX!VirtqueueTypeOK' /\ TX!VirtqueueTypeOK'
  BY <1>1, <1>10 DEF NetInv, NetTypeOK, RX!VirtqueueTypeOK, TX!VirtqueueTypeOK
<1>12. NetTypeOK'
  BY <1>1, <1>10, <1>11, RxNames, TxNames DEF NetInv, NetTypeOK
<1> QED BY <1>2, <1>12 DEF NetInv

LEMMA NetStep == NetInv /\ [NetNext]_net_vars => NetInv'
<1> SUFFICES ASSUME NetInv, [NetNext]_net_vars PROVE NetInv'
  OBVIOUS
<1>1. CASE Received
  BY <1>1, ReceivedInv
<1>2. CASE CopyFrame
  BY <1>2, CopyInv
<1>3. CASE Requeue
  BY <1>3, RequeueInv
<1>4. CASE Send
  BY <1>4, SendInv
<1>5. CASE SendKick
  BY <1>5, SendKickInv
<1>6. CASE SendDone
  <2>1. netPc = "poll" /\ txLastUsed' = txUsedIdx /\ Returns("ok")
    BY <1>6 DEF SendDone, Seen
  <2>2. txLastUsed' \in 0..(NET_IDX_MOD - 1)
    BY <2>1, TxFacts
  <2> QED BY <2>1, <2>2, ReturnsInv
<1>7. CASE SendTimeout
  <2>1. netPc = "poll" /\ txLastUsed' = txLastUsed /\ Returns("timeout")
    BY <1>7 DEF SendTimeout
  <2>2. txLastUsed' \in 0..(NET_IDX_MOD - 1)
    BY <2>1, TxFacts
  <2> QED BY <2>1, <2>2, ReturnsInv
<1>8. CASE NetDevice
  BY <1>8, NetDeviceInv
<1>9. CASE UNCHANGED net_vars
  <2>1. /\ UNCHANGED <<rxSize, rxDesc, rxFreeHead, rxFreeCount, rxAvail, rxAvailIdx, rxUsed, rxUsedIdx,
                       rxLastUsed, rx_buffer_desc, rxMem, txMem, netPc, netBuf, txHead, netRet, netFrame, netUser>>
        /\ UNCHANGED <<txSize, txDesc, txFreeHead, txFreeCount, txAvail, txAvailIdx, txUsed, txUsedIdx, txLastUsed>>
        /\ UNCHANGED <<rxDev, txDev, rxWork, txWork, arrived, netOut, netBroken, netLate>>
    BY <1>9 DEF net_vars, rxVars, rxFreeVars, rxAvailVars, rxUsedVars, txVars, txFreeVars, txAvailVars,
                txUsedVars, netDevVars, netCallVars
  <2>2. NetListInv'
    BY <2>1, ListsKept
  <2>3. RX!VirtqueueTypeOK' /\ TX!VirtqueueTypeOK'
    BY <2>1 DEF NetInv, NetTypeOK, RX!VirtqueueTypeOK, TX!VirtqueueTypeOK
  <2>4. NetTypeOK'
    BY <2>1, <2>3 DEF NetInv, NetTypeOK
  <2> QED BY <2>2, <2>4 DEF NetInv
<1> QED BY <1>1, <1>2, <1>3, <1>4, <1>5, <1>6, <1>7, <1>8, <1>9 DEF NetNext, NetDriver

\* Every field of the two network queues, the driver and the device keeps its type.
THEOREM NetTypeCorrect == NetSpec => []NetTypeOK
<1>1. NetInv => NetTypeOK
  BY DEF NetInv
<1> QED BY NetInitInv, NetStep, <1>1, PTL DEF NetSpec

LEMMA NetListsSound == NetInv => NetQueuesSound
<1> SUFFICES ASSUME NetInv PROVE NetQueuesSound
  OBVIOUS
<1>1. RX!FreeList = (0..(rxSize - 1)) \ BufferDescs
  <2>1. RX!FreeList = {Nth(rxDesc, rxFreeHead, k) : k \in 0..(rxFreeCount - 1)}
    BY RxNames DEF RX!FreeList
  <2> QED BY <2>1, RxFacts DEF Listing
<1>2. RX!FreeListIntact
  <2>1. RX!FreeList \subseteq RX!Descs
    BY <1>1, RxFacts
  <2>2. Cardinality(RX!FreeList) = rxFreeCount /\ Nth(rxDesc, rxFreeHead, rxFreeCount) = Nil
    BY <1>1, RxFacts DEF Listing
  <2>3. RX!Cardinality(RX!FreeList) = Cardinality(RX!FreeList)
    BY DEF RX!Cardinality, Cardinality
  <2> QED BY <2>1, <2>2, <2>3, RxNames DEF RX!FreeListIntact
<1>3. TX!FreeList = (0..(txSize - 1)) \ {txHead}
  <2>1. TX!FreeList = {Nth(txDesc, txFreeHead, k) : k \in 0..(txFreeCount - 1)}
    BY TxNames DEF TX!FreeList
  <2> QED BY <2>1, TxFacts DEF Listing
<1>4. TX!FreeListIntact
  <2>1. TX!FreeList \subseteq TX!Descs
    BY <1>3, TxFacts
  <2>2. Cardinality(TX!FreeList) = txFreeCount /\ Nth(txDesc, txFreeHead, txFreeCount) = Nil
    BY <1>3, TxFacts DEF Listing
  <2>3. TX!Cardinality(TX!FreeList) = Cardinality(TX!FreeList)
    BY DEF TX!Cardinality, Cardinality
  <2> QED BY <2>1, <2>2, <2>3, TxNames DEF TX!FreeListIntact
<1> QED BY <1>1, <1>2, <1>3, <1>4 DEF NetQueuesSound, BufferDescs

\* In both queues of the network driver the descriptors that no receive buffer
\* and no send in progress holds are in the free list, each once, however late
\* the device answers.
THEOREM NetQueuesAlways == NetSpec => []NetQueuesSound
BY NetInitInv, NetStep, NetListsSound, PTL DEF NetSpec

-----------------------------------------------------------------------------
(* VirtioNet: sending with a device that answers in time.                  *)

\* The send in progress waits for the device, is being worked on, or has
\* been answered.
SendWaiting  == /\ txAvailIdx = (txDev + 1) % NET_IDX_MOD /\ txWork = Nil
                /\ txUsedIdx = txLastUsed /\ netFrame = NextFrame(netOut)
SendWorking  == /\ txAvailIdx = txDev /\ txWork # Nil
                /\ txUsedIdx = txLastUsed /\ netFrame = netOut
SendAnswered == /\ txAvailIdx = txDev /\ txWork = Nil
                /\ txUsedIdx # txLastUsed /\ netFrame = netOut

SendTimely ==
  /\ txMem = netFrame
  /\ netPc # "poll" => txUsedIdx = txLastUsed
  /\ netPc = "poll" => txUsedIdx = txLastUsed \/ netFrame = netOut
  /\ ~netBroken =>
       CASE netPc = "poll" -> SendWaiting \/ SendWorking \/ SendAnswered
         [] netPc = "kick" -> txAvailIdx = txDev /\ txWork = Nil /\ netFrame = NextFrame(netOut)
         [] OTHER          -> txAvailIdx = txDev /\ txWork = Nil /\ netFrame = netOut

SendInvariant == NetInv /\ (~netLate => SendTimely)

\* What a send and the device's two steps may do to the frames.
InOrder ==
  /\ txWork = Nil /\ txWork' # Nil => netOut' = NextFrame(netOut)
  /\ netPc = "poll" /\ netPc' = "idle" /\ netRet' = "ok" => netOut = netFrame

LEMMA RingOfSome == NET_IDX_MOD \in Nat /\ NET_IDX_MOD > 1
<1>1. Cardinality(NetBuffers) \in Nat /\ Cardinality(NetBuffers) # 0
  BY NetAssumption, FS_CardinalityType, FS_EmptySet
<1> QED BY <1>1, NetAssumption

LEMMA RingMoves ==
  ASSUME NEW i \in 0..(NET_IDX_MOD - 1)
  PROVE  (i + 1) % NET_IDX_MOD # i
<1>1. NET_IDX_MOD \in Nat \ {0} /\ NET_IDX_MOD > 1
  BY RingOfSome
<1> QED BY <1>1, NextIndex

LEMMA SendInit == NetInit => SendInvariant
<1> SUFFICES ASSUME NetInit PROVE SendInvariant
  OBVIOUS
<1>1. /\ txMem = 0 /\ netFrame = 0 /\ netOut = 0 /\ netPc = "idle" /\ txUsedIdx = 0 /\ txLastUsed = 0
      /\ txAvailIdx = 0 /\ txDev = 0 /\ txWork = Nil
  BY TxNames DEF NetInit, TX!virtqueue_alloc
<1> QED BY <1>1, NetInitInv DEF SendInvariant, SendTimely

\* The steps that leave the transmit queue, its device and the frames alone.
LEMMA SendKept ==
  ASSUME SendTimely,
         UNCHANGED <<txAvailIdx, txDev, txWork, txUsedIdx, txLastUsed, netFrame, netOut, txMem>>,
         netPc' = netPc \/ {netPc, netPc'} \subseteq {"idle", "copy", "requeue"},
         netBroken' = netBroken \/ netBroken'
  PROVE  SendTimely'
BY DEF SendTimely, SendWaiting, SendWorking, SendAnswered

LEMMA SendStep ==
  ASSUME NetInv, ~netLate => SendTimely, [NetNext]_net_vars
  PROVE  (~netLate' => SendTimely') /\ (~netLate => InOrder)
<1>1. netLate' = netLate
  BY DEF NetNext, NetDriver, NetDevice, Received, CopyFrame, Requeue, Send, SendKick, SendDone, SendTimeout,
         Returns, RxFill, RxAnswer, TxTransmit, TxAnswer, NetDie, net_vars
<1> SUFFICES ASSUME ~netLate, SendTimely PROVE SendTimely' /\ InOrder
  BY <1>1
<1>2. /\ txUsedIdx \in 0..(NET_IDX_MOD - 1) /\ txDev \in 0..(NET_IDX_MOD - 1) /\ Nil \notin TX!Descs
      /\ txLastUsed \in 0..(NET_IDX_MOD - 1) /\ txAvail[txDev % txSize] \in TX!Descs
  <2>1. txDev \in 0..(NET_IDX_MOD - 1)
    BY DEF NetInv, NetTypeOK
  <2>2. txDev \in Nat
    BY <2>1, RingOfSome
  <2> QED BY <2>1, <2>2, TxFacts
<1> DEFINE Kept == /\ UNCHANGED <<txAvailIdx, txDev, txWork, txUsedIdx, txLastUsed, netFrame, netOut, txMem>>
                   /\ netPc' = netPc \/ {netPc, netPc'} \subseteq {"idle", "copy", "requeue"}
                   /\ netBroken' = netBroken \/ netBroken'
<1>3. ASSUME Kept PROVE SendTimely' /\ InOrder
  <2>1. SendTimely'
    BY <1>3, SendKept
  <2>2. ~(netPc = "poll" /\ netPc' = "idle")
    BY <1>3
  <2> QED BY <1>3, <2>1, <2>2 DEF InOrder
<1>4. CASE Received
  <2>1. netPc = "idle" /\ netPc' \in {"idle", "copy"}
        /\ UNCHANGED <<txVars, txMem, netFrame, netDevVars>>
    BY <1>4 DEF Received
  <2>2. Kept
    BY <2>1 DEF txVars, txAvailVars, txUsedVars, netDevVars
  <2> QED BY <1>3, <2>2
<1>5. CASE CopyFrame
  <2>1. netPc = "copy" /\ netPc' = "requeue" /\ UNCHANGED <<txVars, txMem, netFrame, netDevVars>>
    BY <1>5 DEF CopyFrame
  <2>2. Kept
    BY <2>1 DEF txVars, txAvailVars, txUsedVars, netDevVars
  <2> QED BY <1>3, <2>2
<1>6. CASE Requeue
  <2>1. netPc = "requeue" /\ netPc' = "idle" /\ UNCHANGED <<txVars, txMem, netFrame, netDevVars>>
    BY <1>6 DEF Requeue
  <2>2. Kept
    BY <2>1 DEF txVars, txAvailVars, txUsedVars, netDevVars
  <2> QED BY <1>3, <2>2
<1>7. CASE Send
  <2>1. /\ netPc = "idle" /\ UNCHANGED <<txAvailVars, txUsedVars, txLastUsed, netDevVars>>
        /\ \/ UNCHANGED <<netPc, netFrame, txMem>>
           \/ netFrame' = NextFrame(netFrame) /\ txMem' = netFrame' /\ netPc' = "kick"
    BY <1>7 DEF Send
  <2>2. UNCHANGED <<txAvailIdx, txDev, txWork, txUsedIdx, txLastUsed, netOut, netBroken>>
    BY <2>1 DEF txAvailVars, txUsedVars, netDevVars
  <2>3. CASE UNCHANGED <<netPc, netFrame, txMem>>
    BY <1>3, <2>2, <2>3
  <2>4. CASE netFrame' = NextFrame(netFrame) /\ txMem' = netFrame' /\ netPc' = "kick"
    <3>1. SendTimely'
      BY <2>1, <2>2, <2>4 DEF SendTimely
    <3> QED BY <2>1, <2>2, <3>1 DEF InOrder
  <2> QED BY <2>1, <2>3, <2>4
<1>8. CASE SendKick
  <2>1. /\ netPc = "kick" /\ netPc' = "poll" /\ txAvailIdx' = (txAvailIdx + 1) % NET_IDX_MOD
        /\ UNCHANGED <<txUsedIdx, txLastUsed, txMem, netFrame, netOut, txDev, txWork, netBroken>>
    BY <1>8 DEF SendKick, TX!virtqueue_kick, txUsedVars, netDevVars
  <2>2. SendTimely'
    BY <2>1 DEF SendTimely, SendWaiting
  <2> QED BY <2>1, <2>2 DEF InOrder
<1>9. CASE SendDone
  <2>1. /\ netPc = "poll" /\ netPc' = "idle" /\ txUsedIdx # txLastUsed /\ txLastUsed' = txUsedIdx
        /\ UNCHANGED <<txUsedIdx, txAvailIdx, txMem, netFrame, netOut, txDev, txWork, netBroken>>
    BY <1>9 DEF SendDone, Seen, Returns, TX!virtqueue_has_used, txUsedVars, txAvailVars, netDevVars
  <2>2. netFrame = netOut /\ (~netBroken => txAvailIdx = txDev /\ txWork = Nil)
    BY <2>1 DEF SendTimely, SendWaiting, SendWorking, SendAnswered
  <2>3. SendTimely'
    BY <2>1, <2>2 DEF SendTimely
  <2> QED BY <2>1, <2>2, <2>3 DEF InOrder
<1>10. CASE SendTimeout
  <2>1. /\ netPc = "poll" /\ netPc' = "idle" /\ txUsedIdx = txLastUsed /\ netBroken /\ netRet' = "timeout"
        /\ UNCHANGED <<txUsedIdx, txLastUsed, txAvailIdx, txMem, netFrame, netOut, txDev, txWork, netBroken>>
    BY <1>10 DEF SendTimeout, Returns, TX!virtqueue_has_used, txUsedVars, txAvailVars, netDevVars
  <2>2. SendTimely'
    BY <2>1 DEF SendTimely
  <2> QED BY <2>1, <2>2 DEF InOrder
<1>11. CASE RxFill \/ RxAnswer
  <2>1. UNCHANGED <<txVars, txMem, netCallVars, txDev, txWork, netOut, netBroken>>
    BY <1>11 DEF RxFill, RxAnswer
  <2>2. Kept
    BY <2>1 DEF txVars, txAvailVars, txUsedVars, netCallVars
  <2> QED BY <1>3, <2>2
<1>12. CASE TxTransmit
  <2>1. /\ ~netBroken /\ txWork = Nil /\ txDev # txAvailIdx
        /\ txWork' = txAvail[txDev % txSize] /\ txDev' = (txDev + 1) % NET_IDX_MOD
        /\ netOut' = txMem
        /\ UNCHANGED <<txUsedIdx, txLastUsed, txAvailIdx, txMem, netFrame, netPc, netBroken>>
    BY <1>12, TxNames DEF TxTransmit, txVars, txAvailVars, txUsedVars, netCallVars
  <2>2. netPc = "poll" /\ SendWaiting
    BY <2>1 DEF SendTimely, SendWorking, SendAnswered
  <2>3. txWork' # Nil
    BY <1>2, <2>1
  <2>4. SendTimely'
    BY <2>1, <2>2, <2>3 DEF SendTimely, SendWaiting, SendWorking
  <2>5. netOut' = NextFrame(netOut)
    BY <2>1, <2>2 DEF SendTimely, SendWaiting
  <2> QED BY <2>1, <2>4, <2>5 DEF InOrder
<1>13. CASE TxAnswer
  <2>1. /\ ~netBroken /\ txWork # Nil /\ txUsedIdx' = (txUsedIdx + 1) % NET_IDX_MOD /\ txWork' = Nil
        /\ UNCHANGED <<txDev, netOut, txLastUsed, txAvailIdx, txMem, netFrame, netPc, netBroken>>
    BY <1>13, TxNames DEF TxAnswer, txAvailVars, netCallVars
  <2>2. netPc = "poll" /\ SendWorking
    BY <2>1 DEF SendTimely, SendWaiting, SendAnswered
  <2>3. txUsedIdx' # txLastUsed
    BY <1>2, <2>1, <2>2, RingMoves DEF SendWorking
  <2>4. SendTimely'
    BY <2>1, <2>2, <2>3 DEF SendTimely, SendWorking, SendAnswered
  <2> QED BY <2>1, <2>4 DEF InOrder
<1>14. CASE NetDie \/ UNCHANGED net_vars
  <2>1. /\ UNCHANGED <<txAvailIdx, txDev, txWork, txUsedIdx, txLastUsed, netFrame, netOut, txMem, netPc>>
        /\ netBroken' = netBroken \/ netBroken'
    BY <1>14 DEF NetDie, net_vars, txVars, txAvailVars, txUsedVars, netCallVars, netDevVars
  <2> QED BY <1>3, <2>1
<1> QED BY <1>4, <1>5, <1>6, <1>7, <1>8, <1>9, <1>10, <1>11, <1>12, <1>13, <1>14 DEF NetNext, NetDriver, NetDevice

\* With a device that answers in time or not at all, frames leave in the order
\* they are sent, once each, and a send that returns VIRTIO_NET_OK has left.
THEOREM SentInOrderAlways == NetSpec => SentInOrder
<1>1. SendInvariant /\ [NetNext]_net_vars => SendInvariant'
  BY NetStep, SendStep DEF SendInvariant
<1>2. SendInvariant /\ [NetNext]_net_vars
        => [~netLate =>
             /\ txWork = TX!Nil /\ txWork' # TX!Nil => netOut' = NextFrame(netOut)
             /\ netPc = "poll" /\ netPc' = "idle" /\ netRet' = "ok" => netOut = netFrame]_net_vars
  BY SendStep, TxNames DEF SendInvariant, InOrder
<1> QED BY SendInit, <1>1, <1>2, PTL DEF NetSpec, SentInOrder

-----------------------------------------------------------------------------
(* VirtioNet: receiving.                                                   *)

\* The ring index k after i.
After(i, k) == (i + k) % NET_IDX_MOD

LEMMA AfterIs ==
  ASSUME NEW i \in 0..(NET_IDX_MOD - 1), NEW k \in 0..NET_IDX_MOD
  PROVE  /\ After(i, k) = IF i + k < NET_IDX_MOD THEN i + k ELSE i + k - NET_IDX_MOD
         /\ After(i, k) \in 0..(NET_IDX_MOD - 1)
<1>1. NET_IDX_MOD \in Nat \ {0} /\ i \in Nat /\ k \in Nat
  BY RingOfSome
<1>2. CASE i + k < NET_IDX_MOD
  BY <1>1, <1>2 DEF After
<1>3. CASE ~(i + k < NET_IDX_MOD)
  <2> DEFINE r == i + k - NET_IDX_MOD
  <2>1. r \in 0..(NET_IDX_MOD - 1) /\ i + k = NET_IDX_MOD * 1 + r
    BY <1>1, <1>3
  <2> HIDE DEF r
  <2>2. (NET_IDX_MOD * 1 + r) % NET_IDX_MOD = r
    BY <1>1, <2>1
  <2>3. After(i, k) = r
    BY <2>1, <2>2 DEF After
  <2> QED BY <1>3, <2>1, <2>3 DEF r
<1> QED BY <1>2, <1>3

LEMMA AfterFacts ==
  ASSUME NEW i \in 0..(NET_IDX_MOD - 1)
  PROVE  /\ After(i, 0) = i
         /\ \A k \in 0..(NET_IDX_MOD - 1) : /\ (After(i, k) + 1) % NET_IDX_MOD = After(i, k + 1)
                                            /\ After(After(i, 1), k) = After(i, k + 1)
         /\ \A j, k \in 0..(NET_IDX_MOD - 1) : After(i, j) = After(i, k) => j = k
<1>1. NET_IDX_MOD \in Nat \ {0} /\ i \in Nat /\ i < NET_IDX_MOD /\ NET_IDX_MOD > 1
  BY RingOfSome
<1>2. After(i, 0) = i
  <2>1. 0 \in 0..NET_IDX_MOD
    BY <1>1
  <2> QED BY <1>1, <2>1, AfterIs
<1>3. ASSUME NEW k \in 0..(NET_IDX_MOD - 1)
      PROVE  (After(i, k) + 1) % NET_IDX_MOD = After(i, k + 1) /\ After(After(i, 1), k) = After(i, k + 1)
  <2>1. k \in 0..NET_IDX_MOD /\ k + 1 \in 0..NET_IDX_MOD /\ 1 \in 0..NET_IDX_MOD /\ k \in Nat
    BY <1>1
  <2>2. /\ After(i, k) = (IF i + k < NET_IDX_MOD THEN i + k ELSE i + k - NET_IDX_MOD)
        /\ After(i, k) \in 0..(NET_IDX_MOD - 1)
        /\ After(i, 1) = (IF i + 1 < NET_IDX_MOD THEN i + 1 ELSE i + 1 - NET_IDX_MOD)
        /\ After(i, 1) \in 0..(NET_IDX_MOD - 1)
        /\ After(i, k + 1) = (IF i + (k + 1) < NET_IDX_MOD THEN i + (k + 1) ELSE i + (k + 1) - NET_IDX_MOD)
    BY <2>1, AfterIs
  <2>3. After(After(i, k), 1) = (IF After(i, k) + 1 < NET_IDX_MOD THEN After(i, k) + 1
                                 ELSE After(i, k) + 1 - NET_IDX_MOD)
    BY <2>1, <2>2, AfterIs
  <2>4. After(After(i, 1), k) = (IF After(i, 1) + k < NET_IDX_MOD THEN After(i, 1) + k
                                 ELSE After(i, 1) + k - NET_IDX_MOD)
    BY <2>1, <2>2, AfterIs
  <2>5. After(After(i, k), 1) = (After(i, k) + 1) % NET_IDX_MOD
    BY DEF After
  <2> DEFINE a == After(i, k)
             b == After(i, 1)
             c == After(i, k + 1)
             d == After(a, 1)
             e == After(b, k)
  <2>6. d = c /\ e = c
    <3>1. /\ a = (IF i + k < NET_IDX_MOD THEN i + k ELSE i + k - NET_IDX_MOD)
          /\ b = (IF i + 1 < NET_IDX_MOD THEN i + 1 ELSE i + 1 - NET_IDX_MOD)
          /\ c = (IF i + (k + 1) < NET_IDX_MOD THEN i + (k + 1) ELSE i + (k + 1) - NET_IDX_MOD)
          /\ d = (IF a + 1 < NET_IDX_MOD THEN a + 1 ELSE a + 1 - NET_IDX_MOD)
          /\ e = (IF b + k < NET_IDX_MOD THEN b + k ELSE b + k - NET_IDX_MOD)
      BY <2>2, <2>3, <2>4
    <3> HIDE DEF a, b, c, d, e
    <3>2. k < NET_IDX_MOD
      BY <1>1
    <3> QED BY <1>1, <2>1, <3>1, <3>2
  <2> QED BY <2>5, <2>6
<1>4. ASSUME NEW j \in 0..(NET_IDX_MOD - 1), NEW k \in 0..(NET_IDX_MOD - 1), After(i, j) = After(i, k)
      PROVE  j = k
  <2>1. j \in 0..NET_IDX_MOD /\ k \in 0..NET_IDX_MOD
    BY <1>1
  <2>2. /\ After(i, j) = (IF i + j < NET_IDX_MOD THEN i + j ELSE i + j - NET_IDX_MOD)
        /\ After(i, k) = (IF i + k < NET_IDX_MOD THEN i + k ELSE i + k - NET_IDX_MOD)
    BY <2>1, AfterIs
  <2> DEFINE a == After(i, j)
  <2>3. /\ a = (IF i + j < NET_IDX_MOD THEN i + j ELSE i + j - NET_IDX_MOD)
        /\ a = (IF i + k < NET_IDX_MOD THEN i + k ELSE i + k - NET_IDX_MOD)
    BY <1>4, <2>2
  <2> HIDE DEF a
  <2>4. j \in Nat /\ k \in Nat /\ j < NET_IDX_MOD /\ k < NET_IDX_MOD
    BY <1>1
  <2> QED BY <1>1, <2>3, <2>4
<1> QED BY <1>2, <1>3, <1>4

\* Division with remainder.
LEMMA Division ==
  ASSUME NEW s \in Nat \ {0}, NEW a \in Nat
  PROVE  \E q \in Nat : a = s * q + (a % s)
<1>1. a \div s \in Nat /\ a = s * (a \div s) + (a % s)
  OBVIOUS
<1> QED BY <1>1

LEMMA Remainder ==
  ASSUME NEW s \in Nat \ {0}, NEW q \in Int, NEW r \in 0..(s - 1)
  PROVE  (s * q + r) % s = r
OBVIOUS

\* The slot of an index only depends on how far it has come.
LEMMA SlotIs ==
  ASSUME NEW s \in RxSizes, NEW i \in 0..(NET_IDX_MOD - 1), NEW k \in 0..NET_IDX_MOD
  PROVE  After(i, k) % s = (i + k) % s
<1>1. NET_IDX_MOD \in Nat \ {0} /\ i \in Nat /\ k \in Nat /\ s \in Nat \ {0} /\ NET_IDX_MOD % s = 0
  BY RingOfSome, NetAssumption
<1>2. PICK q \in Nat : NET_IDX_MOD = s * q
  <2>1. PICK q \in Nat : NET_IDX_MOD = s * q + (NET_IDX_MOD % s)
    BY <1>1, Division
  <2>2. s * q \in Nat
    BY <1>1
  <2> QED BY <1>1, <2>1, <2>2
<1>3. CASE i + k < NET_IDX_MOD
  BY <1>3, AfterIs
<1>4. CASE ~(i + k < NET_IDX_MOD)
  <2> DEFINE a == i + k - NET_IDX_MOD
             r == a % s
  <2>1. a \in Nat /\ After(i, k) = a /\ i + k = a + NET_IDX_MOD
    BY <1>1, <1>4, AfterIs
  <2> HIDE DEF a
  <2>2. PICK p \in Nat : a = s * p + r
    BY <1>1, <2>1, Division
  <2>3. r \in 0..(s - 1)
    BY <1>1, <2>1
  <2> HIDE DEF r
  <2>4. i + k = s * (p + q) + r
    BY <1>1, <1>2, <2>1, <2>2, <2>3
  <2>5. (s * (p + q) + r) % s = r
    BY <1>1, <2>3, Remainder
  <2> QED BY <2>1, <2>4, <2>5 DEF r
<1> QED BY <1>3, <1>4

LEMMA SlotsDiffer ==
  ASSUME NEW s \in RxSizes, NEW i \in 0..(NET_IDX_MOD - 1), NEW j \in 0..(s - 1), NEW k \in 0..(s - 1),
         After(i, j) % s = After(i, k) % s
  PROVE  j = k
<1>1. NET_IDX_MOD \in Nat \ {0} /\ i \in Nat /\ s \in Nat \ {0} /\ NET_IDX_MOD >= s /\ j \in Nat /\ k \in Nat
  BY RingOfSome, NetAssumption
<1>2. j \in 0..NET_IDX_MOD /\ k \in 0..NET_IDX_MOD
  BY <1>1
<1>3. (i + j) % s = (i + k) % s
  BY <1>2, SlotIs
<1> DEFINE a == i + j
           b == i + k
<1>13. a \in Nat /\ b \in Nat
  BY <1>1
<1> HIDE DEF a, b
<1>4. PICK p \in Nat : a = s * p + (a % s)
  BY <1>1, <1>13, Division
<1>5. PICK q \in Nat : b = s * q + (b % s)
  BY <1>1, <1>13, Division
<1>6. a % s \in Nat /\ a % s = b % s /\ a = i + j /\ b = i + k
  BY <1>1, <1>3, <1>13 DEF a, b
<1>7. s * (p - q) = j - k
  BY <1>1, <1>3, <1>4, <1>5, <1>6
<1>8. j - k < s /\ k - j < s
  BY <1>1
<1>9. CASE p - q >= 1
  BY <1>1, <1>7, <1>8, <1>9
<1>10. CASE p - q <= -1
  BY <1>1, <1>7, <1>8, <1>10
<1>11. CASE p - q = 0
  BY <1>1, <1>7, <1>11
<1> QED BY <1>9, <1>10, <1>11

BufferCount == Cardinality(NetBuffers)

\* From the first unread entry on, the available ring holds the descriptors of
\* all buffers: entry k's, and the frame its buffer holds.
Entry(k)   == rxAvail[After(rxLastUsed, k) % rxSize]
FrameAt(k) == rxMem[rxDesc[Entry(k)].addr]

\* The first u entries are filled, the device may work on the next, and the
\* others wait.
Window(u) ==
  /\ u \in 0..BufferCount
  /\ rxUsedIdx = After(rxLastUsed, u) /\ rxAvailIdx = After(rxLastUsed, BufferCount)
  /\ IF rxWork = Nil THEN rxDev = After(rxLastUsed, u)
     ELSE u < BufferCount /\ rxWork = Entry(u) /\ rxDev = After(rxLastUsed, u + 1)
  /\ \A k \in 0..(BufferCount - 1) : Entry(k) \in BufferDescs
  /\ \A j, k \in 0..(BufferCount - 1) : Entry(j) = Entry(k) => j = k
  /\ \A k \in 0..(u - 1) : rxUsed[After(rxLastUsed, k) % rxSize] = Entry(k)

\* They hold the frames after the one the stack has, in order; between
\* virtio_net_receive's copy and its end the first is the one it has.
Contents(u) ==
  /\ \A k \in 1..(u - 1) : FrameAt(k) = NextFrame(FrameAt(k - 1))
  /\ u # 0 => FrameAt(0) = IF netPc = "requeue" THEN netUser ELSE NextFrame(netUser)
  /\ arrived = IF u = 0 THEN netUser ELSE FrameAt(u - 1)
  /\ netPc \in {"copy", "requeue"} => u # 0 /\ rx_buffer_desc[netBuf] = Entry(0)

OwnBuffers == \A b \in NetBuffers : rxDesc[rx_buffer_desc[b]].addr = b

ReceiveInv == NetInv /\ OwnBuffers /\ \E u : Window(u) /\ Contents(u)

\* What follows from the invariant about the entries.
EntryFacts(u) ==
  /\ BufferCount \in Nat \ {0} /\ BufferCount < NET_IDX_MOD /\ BufferCount <= rxSize
  /\ NET_IDX_MOD \in Nat \ {0} /\ rxSize \in Nat \ {0} /\ rxSize <= NET_IDX_MOD
  /\ u \in 0..BufferCount
  /\ rxLastUsed \in 0..(NET_IDX_MOD - 1)
  /\ \A k \in 0..NET_IDX_MOD : After(rxLastUsed, k) \in 0..(NET_IDX_MOD - 1)
                               /\ After(rxLastUsed, k) % rxSize \in RX!Descs
  /\ \A k \in 0..(BufferCount - 1) :
       Entry(k) \in 0..(rxSize - 1) /\ Entry(k) \in RX!Descs /\ Entry(k) # Nil
       /\ rxDesc[Entry(k)].addr \in NetBuffers
  /\ \A j, k \in 0..(BufferCount - 1) : rxDesc[Entry(j)].addr = rxDesc[Entry(k)].addr => j = k

LEMMA EntriesAre ==
  ASSUME NetInv, OwnBuffers, NEW u, Window(u)
  PROVE  EntryFacts(u)
<1>1. /\ rxSize \in RxSizes /\ rxSize \in Nat \ {0} /\ 0..(rxSize - 1) \subseteq RX!Descs
      /\ Nil \notin RX!Descs /\ NET_IDX_MOD \in Nat \ {0} /\ rxLastUsed \in 0..(NET_IDX_MOD - 1)
      /\ \A i \in Nat : i % rxSize \in RX!Descs
  BY RxFacts
<1>2. /\ BufferCount \in Nat \ {0} /\ BufferCount < NET_IDX_MOD /\ BufferCount <= rxSize
      /\ rxSize <= NET_IDX_MOD
  <2>1. BufferCount \in Nat /\ BufferCount # 0
    BY NetAssumption, FS_CardinalityType, FS_EmptySet DEF BufferCount
  <2>2. NET_IDX_MOD > BufferCount /\ BufferCount <= rxSize
    BY <1>1, NetAssumption DEF BufferCount
  <2>3. rxSize <= NET_IDX_MOD
    BY <1>1, NetAssumption
  <2> QED BY <1>1, <2>1, <2>2, <2>3
<1>3. ASSUME NEW k \in 0..NET_IDX_MOD
      PROVE  After(rxLastUsed, k) \in 0..(NET_IDX_MOD - 1) /\ After(rxLastUsed, k) % rxSize \in RX!Descs
  <2>1. After(rxLastUsed, k) \in 0..(NET_IDX_MOD - 1)
    BY <1>1, AfterIs
  <2>2. After(rxLastUsed, k) \in Nat
    BY <1>1, <2>1
  <2> QED BY <1>1, <2>1, <2>2
<1>4. \A b \in NetBuffers : rx_buffer_desc[b] \in 0..(rxSize - 1)
  BY DEF NetInv, NetTypeOK
<1>5. ASSUME NEW k \in 0..(BufferCount - 1)
      PROVE  /\ Entry(k) \in 0..(rxSize - 1) /\ Entry(k) \in RX!Descs /\ Entry(k) # Nil
             /\ rxDesc[Entry(k)].addr \in NetBuffers
             /\ rx_buffer_desc[rxDesc[Entry(k)].addr] = Entry(k)
  <2>1. Entry(k) \in BufferDescs
    BY DEF Window
  <2>2. PICK b \in NetBuffers : Entry(k) = rx_buffer_desc[b]
    BY <2>1 DEF BufferDescs
  <2> QED BY <1>1, <1>4, <2>2 DEF OwnBuffers
<1>6. ASSUME NEW j \in 0..(BufferCount - 1), NEW k \in 0..(BufferCount - 1),
             rxDesc[Entry(j)].addr = rxDesc[Entry(k)].addr
      PROVE  j = k
  <2>1. Entry(j) = Entry(k)
    BY <1>5, <1>6
  <2> QED BY <2>1 DEF Window
<1>7. u \in 0..BufferCount
  BY DEF Window
<1> QED BY <1>1, <1>2, <1>3, <1>5, <1>6, <1>7 DEF EntryFacts

LEMMA ReceiveInit == NetInit => ReceiveInv
<1> SUFFICES ASSUME NetInit PROVE ReceiveInv
  OBVIOUS
<1> DEFINE bufs == SetToSeq(NetBuffers)
           n == Len(bufs)
<1>1. InitBuffers(bufs, n)
  BY InitBuffersFacts
<1> HIDE DEF bufs, n
<1>2. /\ bufs \in [1..n -> NetBuffers] /\ n \in Nat \ {0} /\ n = BufferCount /\ rxSize \in RxSizes
      /\ rxDesc = [i \in RX!Descs |->
           CASE i < n -> [addr |-> bufs[i + 1], flags |-> {"WRITE"}, next |-> 0]
             [] i >= n /\ i < rxSize - 1 -> [addr |-> "none", flags |-> {"NEXT"}, next |-> i + 1]
             [] OTHER -> [addr |-> "none", flags |-> {}, next |-> Nil]]
      /\ \A b \in NetBuffers : rx_buffer_desc[b] \in 0..(n - 1) /\ bufs[rx_buffer_desc[b] + 1] = b
      /\ BufferDescs = 0..(n - 1)
  BY <1>1 DEF InitBuffers, BufferCount
<1>3. /\ rxAvail = [i \in RX!Descs |-> IF i < n THEN i ELSE 0] /\ rxAvailIdx = n % NET_IDX_MOD
      /\ rxUsedIdx = 0 /\ rxLastUsed = 0 /\ rxWork = Nil /\ rxDev = 0 /\ netPc = "idle"
      /\ arrived = 0 /\ netUser = 0
  BY <1>1, RxNames DEF InitBuffers, NetInit
<1>4. /\ rxSize \in Nat \ {0} /\ 0..(rxSize - 1) \subseteq RX!Descs /\ n <= rxSize
      /\ NET_IDX_MOD \in Nat \ {0} /\ n < NET_IDX_MOD
  <2>1. n <= rxSize /\ n < NET_IDX_MOD
    BY <1>2, NetAssumption DEF BufferCount
  <2> QED BY <1>2, <2>1, RxSize
<1>5. OwnBuffers
  <2> SUFFICES ASSUME NEW b \in NetBuffers PROVE rxDesc[rx_buffer_desc[b]].addr = b
    BY DEF OwnBuffers
  <2> DEFINE i == rx_buffer_desc[b]
  <2>1. i \in 0..(n - 1) /\ bufs[i + 1] = b
    BY <1>2
  <2>2. i \in RX!Descs /\ i < n
    BY <1>2, <1>4, <2>1
  <2> HIDE DEF i
  <2>3. rxDesc[i] = [addr |-> bufs[i + 1], flags |-> {"WRITE"}, next |-> 0]
    <3>1. i \in Int /\ n \in Int
      BY <1>2, <2>1
    <3> QED BY <1>2, <2>2, <3>1
  <2> QED BY <2>1, <2>3 DEF i
<1>6. ASSUME NEW k \in 0..(n - 1) PROVE Entry(k) = k
  <2>1. k \in 0..(NET_IDX_MOD - 1) /\ k \in 0..(rxSize - 1) /\ 0 \in 0..(NET_IDX_MOD - 1) /\ k \in 0..NET_IDX_MOD
    BY <1>2, <1>4
  <2>2. After(0, k) = k
    BY <1>4, <2>1, AfterIs
  <2>3. k % rxSize = k /\ k \in RX!Descs /\ k < n
    <3>1. rxSize \in Nat \ {0} /\ n \in Nat
      BY <1>2, <1>4
    <3>2. k % rxSize = k
      BY <2>1, <3>1
    <3> QED BY <1>4, <2>1, <3>1, <3>2
  <2> QED BY <1>3, <2>2, <2>3 DEF Entry
<1>7. After(0, 0) = 0 /\ n % NET_IDX_MOD = After(0, n)
  <2>1. 0 \in 0..(NET_IDX_MOD - 1)
    BY <1>4
  <2>2. 0 + n = n
    BY <1>2
  <2> QED BY <2>1, <2>2, AfterFacts DEF After
<1>8. Window(0)
  <2>1. 0 \in 0..BufferCount /\ \A k : k \notin 0..(0 - 1)
    BY <1>2
  <2> QED BY <1>2, <1>3, <1>6, <1>7, <2>1 DEF Window
<1>9. Contents(0)
  BY <1>3 DEF Contents
<1> QED BY <1>5, <1>8, <1>9, NetInitInv DEF ReceiveInv

\* A step that leaves the receive queue, its device and the received frames alone.
LEMMA ReceiveKept ==
  ASSUME OwnBuffers, NEW u, Window(u), Contents(u),
         UNCHANGED <<rxSize, rxDesc, rxAvail, rxAvailIdx, rxUsed, rxUsedIdx, rxLastUsed>>,
         UNCHANGED <<rx_buffer_desc, rxMem, rxDev, rxWork, arrived, netUser, netBuf>>,
         netPc' = netPc \/ {netPc, netPc'} \cap {"copy", "requeue"} = {}
  PROVE  OwnBuffers' /\ Window(u)' /\ Contents(u)'
<1>1. \A k : Entry(k)' = Entry(k) /\ FrameAt(k)' = FrameAt(k)
  BY DEF Entry, FrameAt
<1>2. BufferDescs' = BufferDescs /\ OwnBuffers'
  BY DEF BufferDescs, OwnBuffers
<1>3. Window(u)'
  BY <1>1, <1>2 DEF Window
<1>4. Contents(u)'
  BY <1>1 DEF Contents
<1> QED BY <1>2, <1>3, <1>4

LEMMA ReceivedFacts ==
  ASSUME NetInv, OwnBuffers, NEW u, Window(u), Contents(u), Received
  PROVE  OwnBuffers' /\ Window(u)' /\ Contents(u)'
<1>1. EntryFacts(u)
  BY EntriesAre
<1>2. /\ netPc = "idle" /\ rxUsedIdx # rxLastUsed
      /\ UNCHANGED <<rxSize, rxDesc, rxAvail, rxAvailIdx, rxUsed, rxUsedIdx>>
      /\ UNCHANGED <<rx_buffer_desc, rxMem, rxDev, rxWork, arrived, netUser>>
  BY DEF Received, RX!virtqueue_has_used, rxFreeVars, rxAvailVars, rxUsedVars, netDevVars
<1>3. After(rxLastUsed, 0) = rxLastUsed
  BY <1>1, AfterFacts DEF EntryFacts
<1>4. u # 0
  BY <1>2, <1>3 DEF Window
<1>5. RX!UsedHead = Entry(0) /\ Entry(0) \in BufferDescs
  <2>1. 0 \in 0..(u - 1) /\ 0 \in 0..(BufferCount - 1)
    BY <1>1, <1>4 DEF EntryFacts
  <2> QED BY <1>3, <2>1 DEF Window, RX!UsedHead
<1>6. netPc' = "copy" /\ rxLastUsed' = rxLastUsed /\ rx_buffer_desc[netBuf'] = Entry(0)
  <2>1. {b \in NetBuffers : rx_buffer_desc[b] = RX!UsedHead} # {}
    BY <1>5 DEF BufferDescs
  <2> QED BY <1>5, <2>1 DEF Received
<1>7. \A k : Entry(k)' = Entry(k) /\ FrameAt(k)' = FrameAt(k)
  BY <1>2, <1>6 DEF Entry, FrameAt
<1>8. BufferDescs' = BufferDescs /\ OwnBuffers'
  BY <1>2 DEF BufferDescs, OwnBuffers
<1>9. Window(u)'
  BY <1>2, <1>6, <1>7, <1>8 DEF Window
<1>10. Contents(u)'
  BY <1>2, <1>4, <1>6, <1>7 DEF Contents
<1> QED BY <1>8, <1>9, <1>10

LEMMA CopyFacts ==
  ASSUME NetInv, OwnBuffers, NEW u, Window(u), Contents(u), CopyFrame
  PROVE  OwnBuffers' /\ Window(u)' /\ Contents(u)' /\ netUser' = NextFrame(netUser)
<1>1. EntryFacts(u)
  BY EntriesAre
<1>2. /\ netPc = "copy" /\ netPc' = "requeue" /\ netUser' = rxMem[netBuf] /\ netBuf' = netBuf
      /\ UNCHANGED <<rxSize, rxDesc, rxAvail, rxAvailIdx, rxUsed, rxUsedIdx, rxLastUsed>>
      /\ UNCHANGED <<rx_buffer_desc, rxMem, rxDev, rxWork, arrived>>
  BY DEF CopyFrame, rxVars, rxFreeVars, rxAvailVars, rxUsedVars, netDevVars
<1>3. u # 0 /\ rx_buffer_desc[netBuf] = Entry(0)
  BY <1>2 DEF Contents
<1>4. netBuf \in NetBuffers
  BY DEF NetInv, NetTypeOK
<1>5. rxDesc[Entry(0)].addr = netBuf
  BY <1>3, <1>4 DEF OwnBuffers
<1>6. netUser' = FrameAt(0) /\ FrameAt(0) = NextFrame(netUser)
  BY <1>2, <1>3, <1>5 DEF FrameAt, Contents
<1>7. \A k : Entry(k)' = Entry(k) /\ FrameAt(k)' = FrameAt(k)
  BY <1>2 DEF Entry, FrameAt
<1>8. BufferDescs' = BufferDescs /\ OwnBuffers'
  BY <1>2 DEF BufferDescs, OwnBuffers
<1>9. Window(u)'
  BY <1>2, <1>7, <1>8 DEF Window
<1>10. Contents(u)'
  BY <1>2, <1>3, <1>6, <1>7 DEF Contents
<1> QED BY <1>6, <1>8, <1>9, <1>10

\* A frame starts to arrive in the buffer of the first entry that waits.
LEMMA RxFillFacts ==
  ASSUME NetInv, OwnBuffers, NEW u, Window(u), Contents(u), RxFill
  PROVE  OwnBuffers' /\ Window(u)' /\ Contents(u)'
<1>1. EntryFacts(u)
  BY EntriesAre
<1>2. /\ rxWork = Nil /\ rxDev # rxAvailIdx
      /\ rxWork' = rxAvail[rxDev % rxSize] /\ rxDev' = (rxDev + 1) % NET_IDX_MOD
      /\ rxMem' = [rxMem EXCEPT ![rxDesc[rxWork'].addr] = 0]
      /\ UNCHANGED <<rxSize, rxDesc, rxAvail, rxAvailIdx, rxUsed, rxUsedIdx, rxLastUsed>>
      /\ UNCHANGED <<rx_buffer_desc, arrived, netUser, netBuf, netPc>>
  BY RxNames DEF RxFill, rxVars, rxFreeVars, rxAvailVars, rxUsedVars, netCallVars
<1>3. rxDev = After(rxLastUsed, u)
  BY <1>2 DEF Window
<1>4. u < BufferCount /\ u \in 0..(BufferCount - 1) /\ u \in 0..(NET_IDX_MOD - 1)
  <2>1. u # BufferCount
    BY <1>2, <1>3 DEF Window
  <2> QED BY <1>1, <2>1 DEF EntryFacts
<1>5. rxWork' = Entry(u) /\ rxDev' = After(rxLastUsed, u + 1)
  BY <1>1, <1>2, <1>3, <1>4, AfterFacts DEF Entry, EntryFacts
<1>6. rxWork' # Nil
  BY <1>1, <1>4, <1>5 DEF EntryFacts
<1>7. \A k : Entry(k)' = Entry(k)
  BY <1>2 DEF Entry
<1>8. BufferDescs' = BufferDescs /\ OwnBuffers'
  BY <1>2 DEF BufferDescs, OwnBuffers
<1>9. Window(u)'
  BY <1>2, <1>4, <1>5, <1>6, <1>7, <1>8 DEF Window
<1>10. ASSUME NEW k \in 0..(u - 1) PROVE FrameAt(k)' = FrameAt(k)
  <2>1. k \in 0..(BufferCount - 1) /\ k # u
    BY <1>1, <1>4 DEF EntryFacts
  <2>2. rxDesc[Entry(k)].addr # rxDesc[Entry(u)].addr
    BY <1>1, <1>4, <2>1 DEF EntryFacts
  <2>3. rxMem'[rxDesc[Entry(k)].addr] = rxMem[rxDesc[Entry(k)].addr]
    <3>1. rxMem \in [NetBuffers -> Frames \cup {0}]
      BY DEF NetInv, NetTypeOK
    <3>2. rxDesc[Entry(k)].addr \in NetBuffers
      BY <1>1, <2>1 DEF EntryFacts
    <3> QED BY <1>2, <1>5, <2>2, <3>1, <3>2
  <2> QED BY <1>2, <1>7, <2>3 DEF FrameAt
<1>11. Contents(u)'
  <2>1. u \in Nat
    BY <1>1 DEF EntryFacts
  <2>2. \A k \in 1..(u - 1) : FrameAt(k)' = NextFrame(FrameAt(k - 1)')
    <3> TAKE k \in 1..(u - 1)
    <3>1. k \in 0..(u - 1) /\ k - 1 \in 0..(u - 1)
      BY <2>1
    <3>2. FrameAt(k)' = FrameAt(k) /\ FrameAt(k - 1)' = FrameAt(k - 1)
      BY <1>10, <3>1
    <3> QED BY <3>2 DEF Contents
  <2>3. u # 0 => FrameAt(0)' = FrameAt(0) /\ FrameAt(u - 1)' = FrameAt(u - 1)
    <3>1. u # 0 => 0 \in 0..(u - 1) /\ u - 1 \in 0..(u - 1)
      BY <2>1
    <3> QED BY <1>10, <3>1
  <2> QED BY <1>2, <1>7, <2>2, <2>3 DEF Contents, NextFrame
<1> QED BY <1>8, <1>9, <1>11

\* The frame has arrived: its entry is filled.
LEMMA RxAnswerFacts ==
  ASSUME NetInv, OwnBuffers, NEW u, Window(u), Contents(u), RxAnswer
  PROVE  OwnBuffers' /\ Window(u + 1)' /\ Contents(u + 1)'
<1>1. EntryFacts(u)
  BY EntriesAre
<1>2. /\ rxWork # Nil /\ arrived' = NextFrame(arrived) /\ rxWork' = Nil
      /\ rxMem' = [rxMem EXCEPT ![rxDesc[rxWork].addr] = arrived']
      /\ rxUsed' = [rxUsed EXCEPT ![rxUsedIdx % rxSize] = rxWork]
      /\ rxUsedIdx' = (rxUsedIdx + 1) % NET_IDX_MOD
      /\ UNCHANGED <<rxSize, rxDesc, rxAvail, rxAvailIdx, rxLastUsed>>
      /\ UNCHANGED <<rx_buffer_desc, rxDev, netUser, netBuf, netPc>>
  BY RxNames DEF RxAnswer, rxFreeVars, rxAvailVars, netCallVars
<1>3. u < BufferCount /\ rxWork = Entry(u) /\ rxDev = After(rxLastUsed, u + 1) /\ rxUsedIdx = After(rxLastUsed, u)
  BY <1>2 DEF Window
<1>4. /\ u \in Nat /\ u \in 0..(BufferCount - 1) /\ u \in 0..(NET_IDX_MOD - 1) /\ u \in 0..(rxSize - 1)
      /\ u + 1 \in 0..BufferCount /\ u \in 0..NET_IDX_MOD /\ u + 1 # 0 /\ (u + 1) - 1 = u
      /\ BufferCount \in Nat /\ rxSize \in Nat
  BY <1>1, <1>3 DEF EntryFacts
<1>5. rxUsedIdx' = After(rxLastUsed, u + 1)
  BY <1>1, <1>2, <1>3, <1>4, AfterFacts DEF EntryFacts
<1>6. \A k : Entry(k)' = Entry(k)
  BY <1>2 DEF Entry
<1>7. BufferDescs' = BufferDescs /\ OwnBuffers'
  BY <1>2 DEF BufferDescs, OwnBuffers
<1>8. rxUsed \in [RX!Descs -> RX!Descs] /\ rxSize \in RxSizes
  BY RxFacts
<1>9. ASSUME NEW k \in 0..((u + 1) - 1)
      PROVE  rxUsed'[After(rxLastUsed, k) % rxSize] = Entry(k)
  <2>1. After(rxLastUsed, u) % rxSize \in RX!Descs
    BY <1>1, <1>4 DEF EntryFacts
  <2>2. CASE k = u
    BY <1>2, <1>3, <1>8, <2>1, <2>2
  <2>3. CASE k # u
    <3>1. k \in 0..(u - 1) /\ k \in 0..(rxSize - 1)
      BY <1>4, <2>3
    <3>2. After(rxLastUsed, k) % rxSize # After(rxLastUsed, u) % rxSize
      BY <1>1, <1>4, <1>8, <2>3, <3>1, SlotsDiffer DEF EntryFacts
    <3>3. rxUsed[After(rxLastUsed, k) % rxSize] = Entry(k)
      BY <3>1 DEF Window
    <3> QED BY <1>2, <1>3, <1>8, <3>2, <3>3
  <2> QED BY <2>2, <2>3
<1>10. Window(u + 1)'
  <2>1. \A k \in 0..((u + 1) - 1) : (rxUsed[After(rxLastUsed, k) % rxSize])' = Entry(k)'
    BY <1>2, <1>6, <1>9
  <2>2. /\ \A k \in 0..(BufferCount - 1) : Entry(k)' \in BufferDescs'
        /\ \A j, k \in 0..(BufferCount - 1) : Entry(j)' = Entry(k)' => j = k
    BY <1>6, <1>7 DEF Window
  <2>3. /\ u + 1 \in 0..BufferCount /\ rxUsedIdx' = After(rxLastUsed', u + 1)
        /\ rxAvailIdx' = After(rxLastUsed', BufferCount) /\ rxWork' = Nil /\ rxDev' = After(rxLastUsed', u + 1)
    BY <1>2, <1>3, <1>4, <1>5 DEF Window
  <2> QED BY <2>1, <2>2, <2>3 DEF Window, BufferCount, After
<1>11. rxMem \in [NetBuffers -> Frames \cup {0}]
  BY DEF NetInv, NetTypeOK
<1>12. ASSUME NEW k \in 0..(u - 1) PROVE FrameAt(k)' = FrameAt(k)
  <2>1. k \in 0..(BufferCount - 1) /\ k # u
    BY <1>4
  <2>2. rxDesc[Entry(k)].addr # rxDesc[Entry(u)].addr /\ rxDesc[Entry(k)].addr \in NetBuffers
    BY <1>1, <1>4, <2>1 DEF EntryFacts
  <2>3. rxMem'[rxDesc[Entry(k)].addr] = rxMem[rxDesc[Entry(k)].addr]
    BY <1>2, <1>3, <1>11, <2>2
  <2> QED BY <1>2, <1>6, <2>3 DEF FrameAt
<1>13. FrameAt(u)' = arrived' /\ arrived' = NextFrame(arrived)
  <2>1. rxDesc[Entry(u)].addr \in NetBuffers
    BY <1>1, <1>4 DEF EntryFacts
  <2>2. rxMem'[rxDesc[Entry(u)].addr] = arrived'
    BY <1>2, <1>3, <1>11, <2>1
  <2> QED BY <1>2, <1>6, <2>2 DEF FrameAt
<1>14. Contents(u + 1)'
  <2>1. \A k \in 1..((u + 1) - 1) : FrameAt(k)' = NextFrame(FrameAt(k - 1)')
    <3> TAKE k \in 1..((u + 1) - 1)
    <3>1. k - 1 \in 0..(u - 1)
      BY <1>4
    <3>2. FrameAt(k - 1)' = FrameAt(k - 1)
      BY <1>12, <3>1
    <3>3. CASE k = u
      <4>1. arrived = FrameAt(k - 1)
        BY <1>4, <3>3 DEF Contents
      <4> QED BY <1>13, <3>2, <3>3, <4>1
    <3>4. CASE k # u
      <4>1. k \in 0..(u - 1) /\ k \in 1..(u - 1)
        BY <1>4, <3>4
      <4>2. FrameAt(k)' = FrameAt(k)
        BY <1>12, <4>1
      <4> QED BY <3>2, <4>1, <4>2 DEF Contents
    <3> QED BY <3>3, <3>4
  <2>2. FrameAt(0)' = IF netPc' = "requeue" THEN netUser' ELSE NextFrame(netUser')
    <3>1. CASE u = 0
      <4>1. arrived = netUser /\ netPc # "requeue"
        BY <3>1 DEF Contents
      <4> QED BY <1>2, <1>13, <3>1, <4>1
    <3>2. CASE u # 0
      <4>1. 0 \in 0..(u - 1)
        BY <1>4, <3>2
      <4>2. FrameAt(0)' = FrameAt(0)
        BY <1>12, <4>1
      <4> QED BY <1>2, <3>2, <4>2 DEF Contents
    <3> QED BY <3>1, <3>2
  <2>3. arrived' = FrameAt((u + 1) - 1)'
    BY <1>4, <1>13
  <2>4. netPc' \in {"copy", "requeue"} => rx_buffer_desc'[netBuf'] = Entry(0)'
    BY <1>2, <1>6 DEF Contents
  <2> QED BY <1>4, <2>1, <2>2, <2>3, <2>4 DEF Contents, NextFrame
<1> QED BY <1>7, <1>10, <1>14

\* The first entry is read and its descriptor becomes the last one that waits.
LEMMA RequeueEntry ==
  ASSUME NetInv, OwnBuffers, NEW u, Window(u), Contents(u), Requeue
  PROVE  OwnBuffers' /\ Window(u - 1)' /\ Contents(u - 1)'
<1>1. EntryFacts(u)
  BY EntriesAre
<1> DEFINE x == rx_buffer_desc[netBuf]
           L == rxLastUsed
           M == NET_IDX_MOD
           N == BufferCount
<1>2. Requeued(x)
  BY RequeueFacts
<1>3. u # 0 /\ x = Entry(0)
  BY <1>2 DEF Contents, Requeued
<1>4. /\ rxDesc[x].addr = netBuf
      /\ \A i \in RX!Descs : rxDesc'[i].addr = rxDesc[i].addr
  <2>1. rxDesc[x].addr = netBuf
    BY <1>2 DEF OwnBuffers, Requeued
  <2> HIDE DEF x
  <2> QED BY <1>2, <2>1 DEF Requeued
<1>5. /\ UNCHANGED <<rxSize, rxUsed, rxUsedIdx, rxDev, rxWork, arrived, rxMem, netUser, netBuf, rx_buffer_desc>>
      /\ netPc = "requeue" /\ netPc' = "idle"
  BY <1>2 DEF Requeued, rxUsedVars, netDevVars
<1>6. /\ N \in Nat \ {0} /\ M \in Nat \ {0} /\ N < M /\ rxSize \in Nat \ {0} /\ N <= rxSize
      /\ u \in 1..N /\ u \in Nat /\ L \in 0..(M - 1) /\ rxSize \in RxSizes
  <2>1. /\ N \in Nat \ {0} /\ M \in Nat \ {0} /\ N < M /\ rxSize \in Nat \ {0} /\ N <= rxSize
        /\ u \in 0..N /\ L \in 0..(M - 1)
    BY <1>1 DEF EntryFacts
  <2> QED BY <1>3, <2>1, RxFacts
<1>7. rxLastUsed' = After(L, 1) /\ After(L, 1) \in 0..(M - 1)
  <2>1. 1 \in 0..M
    BY <1>6
  <2>2. After(L, 1) \in 0..(M - 1)
    BY <1>6, <2>1, AfterIs
  <2> QED BY <1>2, <2>2 DEF Requeued, EntryRead, After
<1>8. \A k \in 0..(M - 1) : After(rxLastUsed', k) = After(L, k + 1)
  BY <1>6, <1>7, AfterFacts
<1> DEFINE d == rxDesc'
           K == rxLastUsed'
           a == rxAvail'
<1>9. /\ a = [rxAvail EXCEPT ![After(K, N - 1) % rxSize] = x]
      /\ rxAvailIdx' = After(K, N)
  <2>1. rxAvailIdx = After(L, N)
    BY DEF Window
  <2>2. N - 1 \in 0..(M - 1) /\ (N - 1) + 1 = N /\ N \in 0..(M - 1)
    BY <1>6
  <2>3. After(K, N - 1) = After(L, N) /\ After(K, N) = After(L, N + 1)
    BY <1>8, <2>2
  <2>4. (After(L, N) + 1) % M = After(L, N + 1)
    BY <1>6, <2>2, AfterFacts
  <2> HIDE DEF x, K
  <2> QED BY <1>2, <2>1, <2>3, <2>4 DEF Requeued
<1>10. rxAvail \in [RX!Descs -> RX!Descs] /\ K \in 0..(M - 1) /\ rxSize' = rxSize
  BY <1>5, <1>7, RxFacts
<1> DEFINE old(k) == IF k = N - 1 THEN 0 ELSE k + 1
<1> HIDE DEF x, L, M, K, a, d
<1>11. \A k \in 0..(N - 1) : old(k) \in 0..(N - 1)
  <2> TAKE k \in 0..(N - 1)
  <2> QED BY <1>6
<1>12. ASSUME NEW k \in 0..(N - 1) PROVE Entry(k)' = Entry(old(k))
  <2>1. Entry(k)' = a[After(K, k) % rxSize]
    BY <1>10 DEF Entry, a, K
  <2>2. CASE k = N - 1
    <3>1. N \in 0..M
      BY <1>6
    <3>2. After(K, k) % rxSize \in RX!Descs
      <4>1. k \in 0..(M - 1) /\ k + 1 \in 0..M
        BY <1>6
      <4>2. After(K, k) = After(L, k + 1)
        BY <1>8, <4>1 DEF K
      <4> QED BY <1>1, <4>1, <4>2 DEF EntryFacts, L, M
    <3>3. a[After(K, k) % rxSize] = x
      BY <1>9, <1>10, <2>2, <3>2
    <3> QED BY <1>3, <2>1, <2>2, <3>3
  <2>3. CASE k # N - 1
    <3>1. k \in 0..(rxSize - 1) /\ N - 1 \in 0..(rxSize - 1) /\ k \in 0..(M - 1) /\ k + 1 \in 0..M
      BY <1>6
    <3>2. After(K, k) % rxSize # After(K, N - 1) % rxSize
      BY <1>6, <1>10, <2>3, <3>1, SlotsDiffer DEF M
    <3>3. a[After(K, k) % rxSize] = rxAvail[After(K, k) % rxSize]
      <4>1. a = [rxAvail EXCEPT ![After(K, N - 1) % rxSize] = x]
        BY <1>9
      <4> QED BY <1>10, <3>2, <4>1
    <3>4. After(K, k) = After(L, k + 1)
      BY <1>8, <3>1 DEF K
    <3> QED BY <2>1, <2>3, <3>3, <3>4 DEF Entry, L
  <2> QED BY <2>2, <2>3
<1>13. BufferDescs' = BufferDescs
  BY <1>5 DEF BufferDescs
<1>14. /\ \A k \in 0..(N - 1) : Entry(k)' \in BufferDescs'
       /\ \A j, k \in 0..(N - 1) : Entry(j)' = Entry(k)' => j = k
  <2>1. \A k \in 0..(N - 1) : Entry(k)' \in BufferDescs'
    <3> HIDE DEF old
    <3> QED BY <1>11, <1>12, <1>13 DEF Window
  <2>2. ASSUME NEW j \in 0..(N - 1), NEW k \in 0..(N - 1), Entry(j)' = Entry(k)' PROVE j = k
    <3>1. old(j) = old(k)
      <4> HIDE DEF old
      <4>1. old(j) \in 0..(N - 1) /\ old(k) \in 0..(N - 1) /\ Entry(old(j)) = Entry(old(k))
        BY <1>11, <1>12, <2>2
      <4> QED BY <4>1 DEF Window
    <3>2. j \in Nat /\ k \in Nat
      OBVIOUS
    <3> QED BY <1>6, <3>1, <3>2
  <2> QED BY <2>1, <2>2
<1>15. ASSUME NEW k \in 0..(N - 2)
       PROVE  /\ Entry(k)' = Entry(k + 1) /\ FrameAt(k)' = FrameAt(k + 1)
              /\ k + 1 \in 0..(N - 1) /\ After(K, k) = After(L, k + 1)
  <2>1. k \in 0..(N - 1) /\ k # N - 1 /\ k + 1 \in 0..(N - 1) /\ k \in 0..(M - 1)
    BY <1>6
  <2>2. Entry(k)' = Entry(k + 1)
    BY <1>12, <2>1
  <2>3. Entry(k + 1) \in RX!Descs
    BY <1>1, <2>1 DEF EntryFacts
  <2>4. FrameAt(k)' = rxMem[d[Entry(k)'].addr]
    BY <1>5 DEF FrameAt, d
  <2>5. d[Entry(k + 1)].addr = rxDesc[Entry(k + 1)].addr
    BY <1>4, <2>3 DEF d
  <2> QED BY <1>8, <2>1, <2>2, <2>4, <2>5 DEF FrameAt, K
<1>16. OwnBuffers'
  <2> SUFFICES ASSUME NEW b \in NetBuffers PROVE (rxDesc[rx_buffer_desc[b]].addr)' = b
    BY DEF OwnBuffers
  <2>1. rx_buffer_desc[b] \in RX!Descs
    BY RxFacts DEF NetInv, NetTypeOK
  <2> QED BY <1>4, <1>5, <2>1 DEF OwnBuffers
<1>17. /\ u - 1 \in 0..N /\ u - 1 \in 0..(M - 1) /\ u \in 0..(M - 1) /\ (u - 1) + 1 = u
       /\ After(K, u - 1) = After(L, u) /\ After(K, u) = After(L, u + 1)
  <2>1. u - 1 \in 0..N /\ u - 1 \in 0..(M - 1) /\ u \in 0..(M - 1) /\ (u - 1) + 1 = u
    BY <1>6
  <2> QED BY <1>8, <2>1 DEF K
<1>18. Window(u - 1)'
  <2>1. rxUsedIdx' = After(K, u - 1) /\ rxAvailIdx' = After(K, N)
    BY <1>5, <1>9, <1>17 DEF Window, L
  <2>2. CASE rxWork = Nil
    <3>1. rxDev' = After(K, u - 1) /\ rxWork' = Nil
      BY <1>5, <1>17, <2>2 DEF Window, L
    <3>2. \A k \in 0..((u - 1) - 1) : (rxUsed[After(rxLastUsed, k) % rxSize])' = Entry(k)'
      <4> TAKE k \in 0..((u - 1) - 1)
      <4>1. k \in 0..(N - 2) /\ k + 1 \in 0..(u - 1)
        BY <1>6
      <4>2. rxUsed[After(L, k + 1) % rxSize] = Entry(k + 1)
        BY <4>1 DEF Window, L
      <4> QED BY <1>5, <1>15, <4>1, <4>2 DEF K
    <3> QED BY <1>14, <1>17, <2>1, <3>1, <3>2 DEF Window, K, BufferCount, After
  <2>3. CASE rxWork # Nil
    <3>1. u < N /\ rxWork = Entry(u) /\ rxDev = After(L, u + 1)
      BY <2>3 DEF Window, L
    <3>2. u - 1 \in 0..(N - 2)
      BY <1>6, <3>1
    <3>3. Entry(u - 1)' = Entry(u)
      BY <1>15, <1>17, <3>2
    <3>4. /\ rxDev' = After(K, (u - 1) + 1) /\ rxWork' # Nil /\ u - 1 < N /\ rxWork' = Entry(u - 1)'
      BY <1>5, <1>6, <1>17, <2>3, <3>1, <3>3
    <3>5. \A k \in 0..((u - 1) - 1) : (rxUsed[After(rxLastUsed, k) % rxSize])' = Entry(k)'
      <4> TAKE k \in 0..((u - 1) - 1)
      <4>1. k \in 0..(N - 2) /\ k + 1 \in 0..(u - 1)
        BY <1>6
      <4>2. rxUsed[After(L, k + 1) % rxSize] = Entry(k + 1)
        BY <4>1 DEF Window, L
      <4> QED BY <1>5, <1>15, <4>1, <4>2 DEF K
    <3> QED BY <1>14, <1>17, <2>1, <3>4, <3>5 DEF Window, K, BufferCount, After
  <2> QED BY <2>2, <2>3
<1>19. Contents(u - 1)'
  <2>1. \A k \in 1..((u - 1) - 1) : FrameAt(k)' = NextFrame(FrameAt(k - 1)')
    <3> TAKE k \in 1..((u - 1) - 1)
    <3>1. k \in 0..(N - 2) /\ k - 1 \in 0..(N - 2) /\ k + 1 \in 1..(u - 1) /\ (k - 1) + 1 = k /\ (k + 1) - 1 = k
      BY <1>6
    <3>2. FrameAt(k)' = FrameAt(k + 1) /\ FrameAt(k - 1)' = FrameAt((k - 1) + 1)
      BY <1>15, <3>1
    <3>3. FrameAt(k + 1) = NextFrame(FrameAt((k + 1) - 1))
      BY <3>1 DEF Contents
    <3> QED BY <3>1, <3>2, <3>3
  <2>2. FrameAt(0) = netUser
    BY <1>3, <1>5 DEF Contents
  <2>3. CASE u = 1
    <3>1. arrived' = netUser' /\ u - 1 = 0
      BY <1>5, <1>6, <2>2, <2>3 DEF Contents
    <3> QED BY <1>5, <2>1, <3>1 DEF Contents, NextFrame
  <2>4. CASE u # 1
    <3>1. /\ 0 \in 0..(N - 2) /\ u - 2 \in 0..(N - 2) /\ 1 \in 1..(u - 1) /\ (u - 2) + 1 = u - 1 /\ u - 1 # 0
          /\ (u - 1) - 1 = u - 2
      BY <1>6, <2>4
    <3>2. FrameAt(0)' = FrameAt(1) /\ FrameAt(u - 2)' = FrameAt(u - 1)
      <4>1. FrameAt(0)' = FrameAt(0 + 1) /\ FrameAt(u - 2)' = FrameAt((u - 2) + 1)
        BY <1>15, <3>1
      <4> QED BY <3>1, <4>1
    <3>3. FrameAt(1) = NextFrame(FrameAt(0))
      <4>1. FrameAt(1) = NextFrame(FrameAt(1 - 1))
        BY <3>1 DEF Contents
      <4> QED BY <4>1
    <3>4. arrived = FrameAt(u - 1)
      BY <1>3 DEF Contents
    <3>5. arrived' = FrameAt((u - 1) - 1)' /\ FrameAt(0)' = NextFrame(netUser')
      BY <1>5, <2>2, <3>1, <3>2, <3>3, <3>4
    <3> QED BY <1>5, <2>1, <3>1, <3>5 DEF Contents, NextFrame
  <2> QED BY <2>3, <2>4
<1> QED BY <1>16, <1>18, <1>19

LEMMA ReceiveStep ==
  ASSUME NetInv, NetInv', OwnBuffers, NEW u, Window(u), Contents(u), [NetNext]_net_vars
  PROVE  /\ OwnBuffers' /\ \E v : Window(v)' /\ Contents(v)'
         /\ netPc = "copy" /\ netPc' = "requeue" => netUser' = NextFrame(netUser)
<1> DEFINE Kept == /\ UNCHANGED <<rxSize, rxDesc, rxAvail, rxAvailIdx, rxUsed, rxUsedIdx, rxLastUsed>>
                   /\ UNCHANGED <<rx_buffer_desc, rxMem, rxDev, rxWork, arrived, netUser, netBuf>>
                   /\ netPc' = netPc \/ {netPc, netPc'} \cap {"copy", "requeue"} = {}
<1>1. ASSUME Kept PROVE /\ OwnBuffers' /\ \E v : Window(v)' /\ Contents(v)'
                        /\ ~(netPc = "copy" /\ netPc' = "requeue")
  <2>1. OwnBuffers' /\ Window(u)' /\ Contents(u)'
    BY <1>1, ReceiveKept
  <2> QED BY <1>1, <2>1
<1>2. CASE Received
  <2>1. OwnBuffers' /\ Window(u)' /\ Contents(u)'
    BY <1>2, ReceivedFacts
  <2>2. netPc = "idle"
    BY <1>2 DEF Received
  <2> QED BY <2>1, <2>2
<1>3. CASE CopyFrame
  BY <1>3, CopyFacts
<1>4. CASE Requeue
  <2>1. OwnBuffers' /\ Window(u - 1)' /\ Contents(u - 1)'
    BY <1>4, RequeueEntry
  <2>2. netPc = "requeue"
    BY <1>4 DEF Requeue
  <2> QED BY <2>1, <2>2
<1>5. CASE Send
  <2>1. /\ netPc = "idle" /\ netPc' \in {"idle", "kick"}
        /\ UNCHANGED <<rxVars, rx_buffer_desc, rxMem, netBuf, netUser, netDevVars>>
    BY <1>5 DEF Send
  <2>2. Kept
    BY <2>1 DEF rxVars, rxFreeVars, rxAvailVars, rxUsedVars, netDevVars
  <2> QED BY <1>1, <2>2
<1>6. CASE SendKick
  <2>1. /\ netPc = "kick" /\ netPc' = "poll"
        /\ UNCHANGED <<rxVars, rx_buffer_desc, rxMem, netBuf, netUser, netDevVars>>
    BY <1>6 DEF SendKick
  <2>2. Kept
    BY <2>1 DEF rxVars, rxFreeVars, rxAvailVars, rxUsedVars, netDevVars
  <2> QED BY <1>1, <2>2
<1>7. CASE SendDone \/ SendTimeout
  <2>1. /\ netPc = "poll" /\ netPc' = "idle"
        /\ UNCHANGED <<rxVars, rx_buffer_desc, rxMem, netBuf, netUser, netDevVars>>
    BY <1>7 DEF SendDone, SendTimeout, Returns
  <2>2. Kept
    BY <2>1 DEF rxVars, rxFreeVars, rxAvailVars, rxUsedVars, netDevVars
  <2> QED BY <1>1, <2>2
<1>8. CASE RxFill
  <2>1. OwnBuffers' /\ Window(u)' /\ Contents(u)'
    BY <1>8, RxFillFacts
  <2>2. netPc' = netPc
    BY <1>8 DEF RxFill, netCallVars
  <2> QED BY <2>1, <2>2
<1>9. CASE RxAnswer
  <2>1. OwnBuffers' /\ Window(u + 1)' /\ Contents(u + 1)'
    BY <1>9, RxAnswerFacts
  <2>2. netPc' = netPc
    BY <1>9 DEF RxAnswer, netCallVars
  <2> QED BY <2>1, <2>2
<1>10. CASE TxTransmit \/ TxAnswer \/ NetDie
  <2>1. UNCHANGED <<rxVars, rx_buffer_desc, rxMem, netCallVars, rxDev, rxWork, arrived>>
    BY <1>10 DEF TxTransmit, TxAnswer, NetDie
  <2>2. Kept
    BY <2>1 DEF rxVars, rxFreeVars, rxAvailVars, rxUsedVars, netCallVars
  <2> QED BY <1>1, <2>2
<1>11. CASE UNCHANGED net_vars
  <2>1. Kept
    BY <1>11 DEF net_vars, rxVars, rxFreeVars, rxAvailVars, rxUsedVars, netCallVars, netDevVars
  <2> QED BY <1>1, <2>1
<1> QED BY <1>2, <1>3, <1>4, <1>5, <1>6, <1>7, <1>8, <1>9, <1>10, <1>11 DEF NetNext, NetDriver, NetDevice

\* virtio_net_receive hands over the frames that arrived in order, none twice,
\* none skipped and none that the device still writes, for any number of
\* buffers, any size of the ring and any device, the late one included.
THEOREM ReceivedInOrderAlways == NetSpec => ReceivedInOrder
<1>1. ReceiveInv /\ [NetNext]_net_vars => ReceiveInv'
  <2> SUFFICES ASSUME ReceiveInv, [NetNext]_net_vars PROVE ReceiveInv'
    OBVIOUS
  <2>1. NetInv'
    BY NetStep DEF ReceiveInv
  <2>2. PICK u : Window(u) /\ Contents(u)
    BY DEF ReceiveInv
  <2>3. OwnBuffers' /\ \E v : Window(v)' /\ Contents(v)'
    BY <2>1, <2>2, ReceiveStep DEF ReceiveInv
  <2> QED BY <2>1, <2>3 DEF ReceiveInv
<1>2. ReceiveInv /\ [NetNext]_net_vars
        => [netPc = "copy" /\ netPc' = "requeue" => netUser' = NextFrame(netUser)]_net_vars
  <2> SUFFICES ASSUME ReceiveInv, [NetNext]_net_vars, netPc = "copy", netPc' = "requeue"
               PROVE  netUser' = NextFrame(netUser)
    OBVIOUS
  <2>1. NetInv'
    BY NetStep DEF ReceiveInv
  <2>2. PICK u : Window(u) /\ Contents(u)
    BY DEF ReceiveInv
  <2> QED BY <2>1, <2>2, ReceiveStep DEF ReceiveInv
<1> QED BY ReceiveInit, <1>1, <1>2, PTL DEF NetSpec, ReceivedInOrder

-----------------------------------------------------------------------------
(* Both drivers.                                                           *)

\* Each driver and its device behave as they do alone.
LEMMA PartsAlone == VirtioSpec => Spec /\ NetSpec
<1>1. VirtioInit => Init /\ NetInit
  BY DEF VirtioInit
<1>2. [VirtioNext]_<<part, vars, net_vars>> => [Next]_vars /\ [NetNext]_net_vars
  BY DEF VirtioNext
<1> QED BY <1>1, <1>2, PTL DEF VirtioSpec, Spec, NetSpec

\* Every field of both drivers, their queues and their devices keeps its type.
THEOREM VirtioTypeCorrect == VirtioSpec => []VirtioTypeOK
<1>1. TypeOK /\ NetTypeOK => VirtioTypeOK
  BY DEF VirtioTypeOK
<1> QED BY <1>1, PartsAlone, BlkTypeCorrect, NetTypeCorrect, PTL

\* With a block device that answers in time or not at all, a request takes its
\* own used entry, and in all three queues no descriptor is lost or free twice.
THEOREM VirtqueueSoundTimely ==
  ASSUME LATE = FALSE, MAX_OVERLAPS < IDX_MOD - 1
  PROVE  VirtioSpec => []VirtqueueSound
<1>1. UsedHeadMatches /\ FreeListSound /\ NetQueuesSound => VirtqueueSound
  BY DEF VirtqueueSound
<1>2. Spec => []UsedHeadMatches
  BY UsedHeadMatchesTimely
<1> QED BY <1>1, <1>2, PartsAlone, FreeListAlways, NetQueuesAlways, PTL
=============================================================================
