---------------------- MODULE SimilaritySearchProofs ----------------------
(***************************************************************************)
(* The index holds what its lines make it, after any sequence of upserts   *)
(* and erasures; the candidates of a search are lines that share a term    *)
(* with it, and the best of them; and every candidate is scored once.      *)
(***************************************************************************)
EXTENDS SimilaritySearch, FiniteSetTheorems, TLAPS

\* Division rounded up: t ranges of the quotient cover n, and no t - 1 do more
\* than begin inside.
LEMMA CeilingDivision ==
  ASSUME NEW n \in Nat, NEW t \in Nat \ {0}
  PROVE  LET q == (n + t - 1) \div t
         IN  q \in Nat /\ n <= t * q /\ t * q <= n + t - 1
<1> DEFINE m == n + t - 1
           q == m \div t
<1>1. m \in Nat
  OBVIOUS
<1>2. q \in Nat /\ m = t * q + (m % t) /\ m % t \in 0 .. t - 1
  BY <1>1, SMT
<1>3. t * q \in Nat
  BY <1>2, SMT
<1> HIDE DEF q
<1>4. n <= t * q /\ t * q <= n + t - 1
  BY <1>2, <1>3 DEF m
<1> QED BY <1>2, <1>4 DEF q

\* There is at least one task, and there are few for the number of candidates.
LEMMA TaskCountFacts ==
  ASSUME NEW n \in Nat
  PROVE  /\ TaskCount(n) \in Nat \ {0}
         /\ (TaskCount(n) - 1) * (TaskCount(n) - 1) <= n
<1> DEFINE chunks == (n + ChunkTarget - 1) \div ChunkTarget
           t == TaskCount(n)
<1>1. CASE n < MinParallel
  BY <1>1 DEF TaskCount
<1>2. CASE n >= MinParallel
  <2>1. chunks \in Nat /\ n <= ChunkTarget * chunks
    BY CeilingDivision, SearchAssumption
  <2>2. n \in Nat \ {0} /\ chunks # 0
    BY <1>2, <2>1, SearchAssumption
  <2>3. t \in Nat \ {0} /\ t <= MaxTasks
    BY <1>2, <2>1, <2>2, SearchAssumption DEF TaskCount
  <2> HIDE DEF t
  <2>4. (t - 1) * (t - 1) <= (MaxTasks - 1) * (MaxTasks - 1)
    BY <2>3, SearchAssumption
  <2>5. (t - 1) * (t - 1) \in Nat /\ (MaxTasks - 1) * (MaxTasks - 1) \in Nat
    BY <2>3, SearchAssumption
  <2>6. (t - 1) * (t - 1) <= n
    BY <1>2, <2>4, <2>5, SearchAssumption
  <2> QED BY <2>3, <2>6 DEF t
<1> QED BY <1>1, <1>2, SearchAssumption

\* A range that begins at a multiple of its size contains a position if and only
\* if the quotient says so.
LEMMA OneRange ==
  ASSUME NEW q \in Nat \ {0}, NEW i \in Nat, NEW j \in Nat, NEW p \in Nat,
         i * q < p, p <= i * q + q, j * q < p, p <= j * q + q
  PROVE  i = j
<1>1. ASSUME NEW a \in Nat, NEW b \in Nat, a < b PROVE a * q + q <= b * q
  <2>1. (a + 1) * q <= b * q
    BY <1>1, SMT
  <2>2. (a + 1) * q = a * q + q
    BY SMT
  <2> QED BY <2>1, <2>2
<1>2. i * q \in Nat /\ j * q \in Nat
  BY SMT
<1>3. ~(i < j) /\ ~(j < i)
  BY <1>1, <1>2
<1> QED BY <1>3

\* Every candidate is in the range of exactly one scoring task, and no range is
\* negative, for every number of candidates and every admissible choice of the
\* constants.
THEOREM RangesPartition == \A n \in Nat : Partitioned(n)
<1> SUFFICES ASSUME NEW n \in Nat PROVE Partitioned(n)
  OBVIOUS
<1> DEFINE t == TaskCount(n)
           q == ChunkSize(n)
<1>1. t \in Nat \ {0} /\ (t - 1) * (t - 1) <= n
  BY TaskCountFacts
<1>2. q \in Nat /\ n <= t * q /\ t * q <= n + t - 1
  BY <1>1, CeilingDivision DEF ChunkSize
<1> HIDE DEF t, q
<1>3. (t - 1) * q <= n
  <2>1. t * ((t - 1) * q) = (t - 1) * (t * q)
    BY <1>1, <1>2, SMT
  <2>2. (t - 1) * (t * q) <= (t - 1) * (n + t - 1)
    BY <1>1, <1>2, SMT
  <2>3. (t - 1) * (n + t - 1) = (t - 1) * n + (t - 1) * (t - 1)
    BY <1>1, SMT
  <2>4. (t - 1) * n + n = t * n
    BY <1>1, SMT
  <2>5. (t - 1) * q \in Nat /\ (t - 1) * n \in Nat /\ t * n \in Nat /\ (t - 1) * (t - 1) \in Nat
    BY <1>1, <1>2, SMT
  <2>6. t * ((t - 1) * q) <= t * n
    BY <1>1, <2>1, <2>2, <2>3, <2>4, <2>5
  <2>7. ASSUME NEW a \in Nat, a > n PROVE t * a > t * n
    BY <1>1, <2>7, SMT
  <2> DEFINE z == (t - 1) * q
  <2>8. z \in Nat /\ t * z <= t * n /\ t * z \in Nat
    BY <1>1, <2>5, <2>6
  <2> HIDE DEF z
  <2>9. z <= n
    BY <2>5, <2>7, <2>8
  <2> QED BY <2>9 DEF z
<1>4. \A i \in 0 .. t - 1 : i * q \in Nat /\ i * q <= n
  <2> SUFFICES ASSUME NEW i \in 0 .. t - 1 PROVE i * q \in Nat /\ i * q <= n
    OBVIOUS
  <2>1. i \in Nat /\ i <= t - 1
    BY <1>1
  <2>2. i * q <= (t - 1) * q /\ i * q \in Nat /\ (t - 1) * q \in Nat
    BY <1>1, <1>2, <2>1, SMT
  <2> QED BY <1>3, <2>2
<1>5. \A i \in 0 .. t - 1 : ChunkBegin(n, i) <= ChunkEnd(n, i)
  BY <1>2, <1>4 DEF ChunkBegin, ChunkEnd, q
<1>6. ASSUME NEW p \in 1 .. n
      PROVE  \E i \in 0 .. t - 1 :
               /\ ChunkBegin(n, i) < p /\ p <= ChunkEnd(n, i)
               /\ \A j \in 0 .. t - 1 : ChunkBegin(n, j) < p /\ p <= ChunkEnd(n, j) => j = i
  <2>1. n \in Nat \ {0} /\ q \in Nat \ {0}
    BY <1>1, <1>2
  <2> DEFINE i == (p - 1) \div q
  <2>2. i \in Nat /\ i * q <= p - 1 /\ p - 1 < i * q + q
    <3>1. p - 1 \in Nat
      OBVIOUS
    <3>2. i \in Nat /\ p - 1 = q * i + ((p - 1) % q) /\ (p - 1) % q \in 0 .. q - 1
      BY <2>1, <3>1, SMT
    <3>3. q * i = i * q /\ i * q \in Nat
      BY <2>1, <3>2, SMT
    <3> HIDE DEF i
    <3> QED BY <2>1, <3>1, <3>2, <3>3
  <2> HIDE DEF i
  <2>3. i < t
    <3>1. ASSUME i >= t PROVE i * q >= t * q
      BY <1>1, <2>1, <2>2, <3>1, SMT
    <3>2. t * q \in Nat /\ i * q \in Nat
      BY <1>1, <2>1, <2>2, SMT
    <3> QED BY <1>1, <1>2, <2>2, <3>1, <3>2
  <2>4. i \in 0 .. t - 1 /\ i * q \in Nat
    BY <1>1, <1>4, <2>2, <2>3
  <2>5. ChunkBegin(n, i) < p /\ p <= ChunkEnd(n, i)
    BY <2>1, <2>2, <2>4 DEF ChunkBegin, ChunkEnd, q
  <2>6. ASSUME NEW j \in 0 .. t - 1, ChunkBegin(n, j) < p, p <= ChunkEnd(n, j)
        PROVE  j = i
    <3>1. j * q \in Nat /\ j * q < p /\ p <= j * q + q
      BY <1>4, <2>1, <2>6 DEF ChunkBegin, ChunkEnd, q
    <3>2. i * q < p /\ p <= i * q + q /\ p \in Nat
      BY <2>1, <2>2, <2>4
    <3> QED BY <1>1, <2>1, <2>2, <3>1, <3>2, OneRange
  <2> QED BY <2>4, <2>5, <2>6
<1> QED BY <1>5, <1>6 DEF Partitioned, t

-----------------------------------------------------------------------------
(* The index itself: postings, and the numbers of terms. *)

\* Every set of numbers that is not empty has a least one, found among the
\* intervals from 1 to its members.
LEMMA Least ==
  ASSUME NEW T, T \subseteq Nat, T # {}
  PROVE  \E x \in T : \A y \in T : x <= y
<1> DEFINE I == {1 .. n : n \in T}
<1>1. I # {} /\ I \subseteq FiniteSubsetsOf(Nat)
  <2>1. ASSUME NEW n \in T PROVE 1 .. n \subseteq Nat /\ IsFiniteSet(1 .. n)
    BY FS_Interval
  <2> QED  BY <2>1 DEF FiniteSubsetsOf
<1>2. IsWellFoundedOn(StrictSubsetOrdering(Nat), FiniteSubsetsOf(Nat))
  BY FS_StrictSubsetOrderingWellFounded
<1>3. \E s \in I : \A r \in I : ~ (<<r, s>> \in StrictSubsetOrdering(Nat))
  <2> HIDE DEF I
  <2> QED  BY <1>1, <1>2, WFMin
<1>4. PICK x \in T : \A y \in T : ~ (<<1 .. y, 1 .. x>> \in StrictSubsetOrdering(Nat))
  BY <1>3
<1>5. ASSUME NEW y \in T, y < x PROVE FALSE
  <2>1. 1 .. y \subseteq 1 .. x /\ 1 .. y # 1 .. x
    <3>1. x \in 1 .. x /\ x \notin 1 .. y
      BY <1>5
    <3> QED  BY <1>5, <3>1
  <2>2. <<1 .. y, 1 .. x>> \in StrictSubsetOrdering(Nat)
    <3>1. 1 .. y \in SUBSET Nat /\ 1 .. x \in SUBSET Nat
      OBVIOUS
    <3> QED  BY <2>1, <3>1 DEF StrictSubsetOrdering
  <2> QED  BY <2>2, <1>4, <1>5
<1> QED  BY <1>5

LEMMA RemovedAt ==
  ASSUME NEW S, NEW s \in Seq(S), NEW i \in 1 .. Len(s)
  PROVE  /\ RemoveAt(s, i) \in Seq(S) /\ Len(RemoveAt(s, i)) = Len(s) - 1
         /\ \A j \in 1 .. Len(s) - 1 : RemoveAt(s, i)[j] = IF j < i THEN s[j] ELSE s[j + 1]
<1> DEFINE a == SubSeq(s, 1, i - 1)
           b == SubSeq(s, i + 1, Len(s))
<1>1. /\ a \in Seq(S) /\ Len(a) = i - 1
      /\ \A j \in 1 .. i - 1 : a[j] = s[j]
  OBVIOUS
<1>2. /\ b \in Seq(S) /\ Len(b) = Len(s) - i
      /\ \A j \in 1 .. Len(s) - i : b[j] = s[i + j]
  OBVIOUS
<1>3. RemoveAt(s, i) = a \o b
  BY DEF RemoveAt
<1>4. i \in Nat /\ Len(s) \in Nat /\ 1 <= i /\ i <= Len(s)
  OBVIOUS
<1> HIDE DEF a, b
<1>5. a \o b \in Seq(S) /\ Len(a \o b) = Len(s) - 1
  <2>0. a \in Seq(S) /\ b \in Seq(S)
    BY <1>1, <1>2
  <2>1. a \o b \in Seq(S) /\ Len(a \o b) = Len(a) + Len(b)
    BY <2>0
  <2> QED  BY <1>1, <1>2, <1>4, <2>1
<1>6. ASSUME NEW j \in 1 .. Len(s) - 1 PROVE (a \o b)[j] = IF j < i THEN s[j] ELSE s[j + 1]
  <2>1. CASE j < i
    <3>1. j \in 1 .. i - 1
      BY <1>4, <2>1
    <3> QED  BY <1>1, <1>2, <2>1, <3>1
  <2>2. CASE ~(j < i)
    <3>1. j - (i - 1) \in 1 .. Len(s) - i /\ i + (j - (i - 1)) = j + 1
      BY <1>4, <2>2
    <3>2. (a \o b)[j] = b[j - (i - 1)]
      BY <1>1, <1>2, <1>4, <2>2
    <3> QED  BY <1>2, <2>2, <3>1, <3>2
  <2> QED  BY <2>1, <2>2
<1> QED  BY <1>3, <1>5, <1>6

LEMMA InsertedAt ==
  ASSUME NEW s \in Seq(LineIds), NEW i \in 1 .. Len(s) + 1, NEW x \in LineIds
  PROVE  /\ InsertAt(s, i, x) \in Seq(LineIds) /\ Len(InsertAt(s, i, x)) = Len(s) + 1
         /\ \A j \in 1 .. Len(s) + 1 :
              InsertAt(s, i, x)[j] = IF j < i THEN s[j] ELSE IF j = i THEN x ELSE s[j - 1]
<1> DEFINE a == SubSeq(s, 1, i - 1)
           b == SubSeq(s, i, Len(s))
           c == Append(a, x)
<1>1. /\ a \in Seq(LineIds) /\ Len(a) = i - 1
      /\ \A j \in 1 .. i - 1 : a[j] = s[j]
  OBVIOUS
<1>2. /\ b \in Seq(LineIds) /\ Len(b) = Len(s) - (i - 1)
      /\ \A j \in 1 .. Len(s) - (i - 1) : b[j] = s[(i - 1) + j]
  OBVIOUS
<1>3. InsertAt(s, i, x) = c \o b
  <2>1. a \in Seq(LineIds) /\ x \in LineIds
    BY <1>1
  <2> HIDE DEF a
  <2>2. a \o <<x>> = Append(a, x)
    BY <2>1
  <2>3. InsertAt(s, i, x) = a \o <<x>> \o b
    BY DEF InsertAt, a
  <2> QED  BY <2>2, <2>3
<1>4. i \in Nat /\ Len(s) \in Nat /\ 1 <= i /\ i <= Len(s) + 1
  OBVIOUS
<1> HIDE DEF a, b
<1>5. /\ c \in Seq(LineIds) /\ Len(c) = i /\ c[i] = x
      /\ \A j \in 1 .. i - 1 : c[j] = s[j]
  BY <1>1, <1>4
<1> HIDE DEF c
<1>6. c \o b \in Seq(LineIds) /\ Len(c \o b) = Len(s) + 1
  BY <1>2, <1>4, <1>5
<1>7. ASSUME NEW j \in 1 .. Len(s) + 1
      PROVE  (c \o b)[j] = IF j < i THEN s[j] ELSE IF j = i THEN x ELSE s[j - 1]
  <2>1. CASE j <= i
    <3>1. (c \o b)[j] = c[j]
      BY <1>2, <1>4, <1>5, <2>1
    <3>2. j = i \/ (j \in 1 .. i - 1 /\ j < i)
      BY <1>4, <2>1
    <3> QED  BY <1>5, <3>1, <3>2
  <2>2. CASE ~(j <= i)
    <3>1. j - i \in 1 .. Len(s) - (i - 1) /\ (i - 1) + (j - i) = j - 1
      BY <1>4, <2>2
    <3>2. (c \o b)[j] = b[j - i]
      BY <1>2, <1>4, <1>5, <2>2
    <3>3. ~(j < i) /\ j # i
      BY <1>4, <2>2
    <3> QED  BY <1>2, <3>1, <3>2, <3>3
  <2> QED  BY <2>1, <2>2
<1> QED  BY <1>3, <1>6, <1>7

LEMMA FunctionIsSeq ==
  ASSUME NEW n \in Nat, NEW S, NEW f \in [1 .. n -> S]
  PROVE  f \in Seq(S) /\ Len(f) = n
OBVIOUS

\* The lines of a set, in ascending order.
Ascending(p) == \A i, j \in 1 .. Len(p) : i < j => p[i] < p[j]
Posting(p, S) == p \in Seq(LineIds) /\ Ascending(p) /\ ToSet(p) = S

LEMMA PostingFacts ==
  ASSUME NEW p \in Seq(LineIds)
  PROVE  /\ Len(p) \in Nat /\ ToSet(p) = {p[j] : j \in 1 .. Len(p)}
         /\ \A j \in 1 .. Len(p) : p[j] \in LineIds /\ p[j] \in Nat
         /\ LineIds \subseteq Nat
<1>1. LineIds \subseteq Nat
  BY IndexAssumption
<1>2. Len(p) \in Nat /\ DOMAIN p = 1 .. Len(p) /\ \A j \in 1 .. Len(p) : p[j] \in LineIds
  OBVIOUS
<1> QED  BY <1>1, <1>2 DEF ToSet

LEMMA LowerBoundFacts ==
  ASSUME NEW p \in Seq(LineIds), NEW x \in LineIds
  PROVE  /\ LowerBound(p, x) \in 1 .. Len(p) + 1
         /\ \A j \in 1 .. LowerBound(p, x) - 1 : p[j] < x
         /\ LowerBound(p, x) <= Len(p) => p[LowerBound(p, x)] >= x
<1> DEFINE T == {i \in 1 .. Len(p) + 1 : i <= Len(p) => p[i] >= x}
<1>0. x \in Nat /\ Len(p) \in Nat /\ \A j \in 1 .. Len(p) : p[j] \in Nat
  BY PostingFacts
<1>1. T \subseteq Nat /\ Len(p) + 1 \in T
  BY <1>0
<1>2. PICK i \in T : \A j \in T : i <= j
  BY <1>1, Least
<1>3. \A j \in 1 .. i - 1 : p[j] < x
  <2> SUFFICES ASSUME NEW j \in 1 .. i - 1 PROVE p[j] < x
    OBVIOUS
  <2>1. j \in 1 .. Len(p) /\ j \notin T
    BY <1>0, <1>2
  <2> QED  BY <1>0, <2>1
<1>4. i \in 1 .. Len(p) + 1 /\ (i <= Len(p) => p[i] >= x)
  OBVIOUS
<1> QED  BY <1>3, <1>4 DEF LowerBound

LEMMA Dropped ==
  ASSUME NEW p, NEW S, Posting(p, S), NEW id \in S
  PROVE  Posting(DropPosting(p, id), S \ {id})
<1> DEFINE i == LowerBound(p, id)
           q == DropPosting(p, id)
<1>1. /\ p \in Seq(LineIds) /\ Len(p) \in Nat /\ id \in LineIds /\ id \in Nat
      /\ \A j \in 1 .. Len(p) : p[j] \in LineIds /\ p[j] \in Nat
      /\ S = {p[j] : j \in 1 .. Len(p)} /\ Ascending(p)
  <2>1. p \in Seq(LineIds) /\ Ascending(p) /\ ToSet(p) = S
    BY DEF Posting
  <2>2. /\ Len(p) \in Nat /\ ToSet(p) = {p[j] : j \in 1 .. Len(p)}
        /\ \A j \in 1 .. Len(p) : p[j] \in LineIds /\ p[j] \in Nat
        /\ LineIds \subseteq Nat
    BY <2>1, PostingFacts
  <2> QED  BY <2>1, <2>2
<1>2. PICK m \in 1 .. Len(p) : p[m] = id
  BY <1>1
<1>3. i \in 1 .. Len(p) /\ p[i] = id
  <2>1. /\ i \in 1 .. Len(p) + 1 /\ \A j \in 1 .. i - 1 : p[j] < id
        /\ i <= Len(p) => p[i] >= id
    BY <1>1, LowerBoundFacts
  <2> HIDE DEF i
  <2>2. ~(m < i)
    BY <1>1, <1>2, <2>1
  <2>3. ~(i < m)
    <3> SUFFICES ASSUME i < m PROVE FALSE
      OBVIOUS
    <3>1. p[i] < p[m] /\ i \in 1 .. Len(p)
      BY <1>1, <2>1 DEF Ascending
    <3> QED  BY <1>1, <1>2, <2>1, <3>1
  <2> QED  BY <1>1, <1>2, <2>1, <2>2, <2>3
<1>4. q = RemoveAt(p, i)
  BY <1>1, <1>3 DEF DropPosting
<1> HIDE DEF i, q
<1>5. /\ q \in Seq(LineIds) /\ Len(q) = Len(p) - 1
      /\ \A j \in 1 .. Len(q) : q[j] = IF j < i THEN p[j] ELSE p[j + 1]
  BY <1>1, <1>3, <1>4, RemovedAt
<1>6. Ascending(q)
  <2> SUFFICES ASSUME NEW j \in 1 .. Len(q), NEW k \in 1 .. Len(q), j < k PROVE q[j] < q[k]
    BY DEF Ascending
  <2>1. j \in 1 .. Len(p) /\ j + 1 \in 1 .. Len(p) /\ k \in 1 .. Len(p) /\ k + 1 \in 1 .. Len(p)
    BY <1>1, <1>5
  <2>2. p[j] < p[k] /\ p[j] < p[k + 1] /\ p[j + 1] < p[k + 1]
    BY <1>1, <2>1 DEF Ascending
  <2> QED  BY <1>3, <1>5, <2>2
<1>7. ASSUME NEW j \in 1 .. Len(q) PROVE q[j] \in S \ {id}
  <2>1. j \in 1 .. Len(p) /\ j + 1 \in 1 .. Len(p)
    BY <1>1, <1>5
  <2>2. \A k \in 1 .. Len(p) : k # i => p[k] # id
    <3> SUFFICES ASSUME NEW k \in 1 .. Len(p), k # i PROVE p[k] # p[i]
      BY <1>3
    <3>1. p[k] < p[i] \/ p[i] < p[k]
      BY <1>1, <1>3 DEF Ascending
    <3> QED  BY <1>1, <1>3, <3>1
  <2>3. CASE j < i
    BY <1>1, <1>5, <2>1, <2>2, <2>3
  <2>4. CASE ~(j < i)
    <3>1. q[j] = p[j + 1] /\ j + 1 # i
      BY <1>1, <1>3, <1>5, <2>4
    <3> QED  BY <1>1, <2>1, <2>2, <3>1
  <2> QED  BY <2>3, <2>4
<1>8. ASSUME NEW x \in S \ {id} PROVE \E j \in 1 .. Len(q) : q[j] = x
  <2>1. PICK k \in 1 .. Len(p) : p[k] = x
    BY <1>1
  <2>2. k # i
    BY <1>3, <2>1
  <2>3. CASE k < i
    <3>1. k \in 1 .. Len(q)
      BY <1>1, <1>3, <1>5, <2>3
    <3> QED  BY <1>5, <2>1, <2>3, <3>1
  <2>4. CASE i < k
    <3>1. k - 1 \in 1 .. Len(q) /\ ~(k - 1 < i) /\ (k - 1) + 1 = k
      BY <1>1, <1>3, <1>5, <2>4
    <3>2. q[k - 1] = p[(k - 1) + 1]
      BY <1>5, <3>1
    <3> QED  BY <2>1, <3>1, <3>2
  <2> QED  BY <1>3, <2>2, <2>3, <2>4
<1>9. ToSet(q) = S \ {id}
  <2>1. DOMAIN q = 1 .. Len(q)
    BY <1>5
  <2> QED  BY <1>7, <1>8, <2>1 DEF ToSet
<1> QED  BY <1>5, <1>6, <1>9 DEF Posting, q

LEMMA Added ==
  ASSUME NEW p, NEW S, Posting(p, S), NEW id \in LineIds, id \notin S
  PROVE  Posting(AddPosting(p, id), S \cup {id})
<1> DEFINE i == LowerBound(p, id)
           q == AddPosting(p, id)
<1>1. /\ p \in Seq(LineIds) /\ Len(p) \in Nat /\ id \in Nat
      /\ \A j \in 1 .. Len(p) : p[j] \in LineIds /\ p[j] \in Nat
      /\ S = {p[j] : j \in 1 .. Len(p)} /\ Ascending(p)
  <2>1. p \in Seq(LineIds) /\ Ascending(p) /\ ToSet(p) = S
    BY DEF Posting
  <2>2. /\ Len(p) \in Nat /\ ToSet(p) = {p[j] : j \in 1 .. Len(p)}
        /\ \A j \in 1 .. Len(p) : p[j] \in LineIds /\ p[j] \in Nat
        /\ LineIds \subseteq Nat
    BY <2>1, PostingFacts
  <2> QED  BY <2>1, <2>2
<1>2. /\ i \in 1 .. Len(p) + 1 /\ \A j \in 1 .. i - 1 : p[j] < id
      /\ i <= Len(p) => p[i] > id
  <2>1. /\ i \in 1 .. Len(p) + 1 /\ \A j \in 1 .. i - 1 : p[j] < id
        /\ i <= Len(p) => p[i] >= id
    BY <1>1, LowerBoundFacts
  <2>2. i <= Len(p) => p[i] # id
    BY <1>1, <2>1
  <2> HIDE DEF i
  <2>3. i <= Len(p) => p[i] \in Nat
    BY <1>1, <2>1
  <2> QED  BY <1>1, <2>1, <2>2, <2>3
<1> HIDE DEF i
<1>3. PICK at \in 1 .. Len(p) + 1 :
        /\ \A j \in 1 .. at - 1 : p[j] < id
        /\ \A j \in at .. Len(p) : p[j] > id
        /\ q \in Seq(LineIds) /\ Len(q) = Len(p) + 1
        /\ \A j \in 1 .. Len(p) + 1 : q[j] = IF j < at THEN p[j] ELSE IF j = at THEN id ELSE p[j - 1]
  <2>1. CASE p = << >> \/ Last(p) < id
    <3> DEFINE at == Len(p) + 1
    <3>1. q = Append(p, id)
      BY <2>1 DEF AddPosting
    <3>2. \A j \in 1 .. Len(p) : p[j] < id
      <4> SUFFICES ASSUME NEW j \in 1 .. Len(p) PROVE p[j] < id
        OBVIOUS
      <4>1. p # << >> /\ Len(p) \in 1 .. Len(p)
        BY <1>1
      <4>2. p[Len(p)] < id
        BY <2>1, <4>1 DEF Last
      <4>3. j = Len(p) \/ p[j] < p[Len(p)]
        BY <1>1, <4>1 DEF Ascending
      <4> QED  BY <1>1, <4>1, <4>2, <4>3
    <3>3. \A j \in 1 .. Len(p) + 1 : q[j] = IF j < at THEN p[j] ELSE IF j = at THEN id ELSE p[j - 1]
      BY <1>1, <3>1
    <3>4. q \in Seq(LineIds) /\ Len(q) = Len(p) + 1
      BY <1>1, <3>1
    <3>5. at \in 1 .. Len(p) + 1 /\ at - 1 = Len(p) /\ at .. Len(p) = {}
      BY <1>1
    <3> HIDE DEF at, q
    <3> QED  BY <3>2, <3>3, <3>4, <3>5
  <2>2. CASE ~(p = << >> \/ Last(p) < id)
    <3>1. q = InsertAt(p, i, id)
      <4>1. i <= Len(p) => p[i] # id
        <5>1. i <= Len(p) => p[i] \in Nat
          BY <1>1, <1>2
        <5> QED  BY <1>1, <1>2, <5>1
      <4> QED  BY <2>2, <4>1 DEF AddPosting, i
    <3>2. /\ q \in Seq(LineIds) /\ Len(q) = Len(p) + 1
          /\ \A j \in 1 .. Len(p) + 1 : q[j] = IF j < i THEN p[j] ELSE IF j = i THEN id ELSE p[j - 1]
      <4> HIDE DEF q
      <4>1. p \in Seq(LineIds) /\ i \in 1 .. Len(p) + 1 /\ id \in LineIds
        BY <1>1, <1>2
      <4>2. /\ InsertAt(p, i, id) \in Seq(LineIds) /\ Len(InsertAt(p, i, id)) = Len(p) + 1
            /\ \A j \in 1 .. Len(p) + 1 :
                 InsertAt(p, i, id)[j] = IF j < i THEN p[j] ELSE IF j = i THEN id ELSE p[j - 1]
        <5> HIDE DEF i
        <5> QED  BY ONLY ZenonT(60), <4>1, InsertedAt
      <4> QED  BY <3>1, <4>2, Zenon
    <3>3. \A j \in i .. Len(p) : p[j] > id
      <4> SUFFICES ASSUME NEW j \in i .. Len(p) PROVE p[j] > id
        OBVIOUS
      <4>1. i \in 1 .. Len(p) /\ j \in 1 .. Len(p) /\ (j = i \/ i < j)
        BY <1>1, <1>2
      <4>2. p[i] > id /\ (j = i \/ p[i] < p[j])
        BY <1>1, <1>2, <4>1 DEF Ascending
      <4> QED  BY <1>1, <4>1, <4>2
    <3> QED  BY <1>2, <3>2, <3>3
  <2> QED  BY <2>1, <2>2
<1> HIDE DEF q
<1>6. Ascending(q)
  <2> SUFFICES ASSUME NEW j \in 1 .. Len(p) + 1, NEW k \in 1 .. Len(p) + 1, j < k PROVE q[j] < q[k]
    BY <1>3 DEF Ascending
  <2>1. CASE k < at
    <3>1. j \in 1 .. Len(p) /\ k \in 1 .. Len(p) /\ j < at
      BY <1>1, <2>1
    <3>2. p[j] < p[k]
      BY <1>1, <3>1 DEF Ascending
    <3> QED  BY <1>3, <2>1, <3>1, <3>2
  <2>2. CASE k = at
    <3>1. j \in 1 .. at - 1 /\ j < at
      BY <1>1, <2>2
    <3> QED  BY <1>3, <2>2, <3>1
  <2>3. CASE k > at
    <3>1. k - 1 \in 1 .. Len(p) /\ k - 1 \in at .. Len(p) /\ q[k] = p[k - 1]
      BY <1>1, <1>3, <2>3
    <3>2. p[k - 1] > id /\ p[k - 1] \in Nat
      BY <1>1, <1>3, <3>1
    <3>3. CASE j < at
      <4>1. j \in 1 .. at - 1 /\ j \in 1 .. Len(p) /\ q[j] = p[j]
        BY <1>1, <1>3, <3>3
      <4>2. p[j] < id /\ p[j] \in Nat
        BY <1>1, <1>3, <4>1
      <4> QED  BY <1>1, <3>1, <3>2, <4>1, <4>2
    <3>4. CASE j = at
      BY <1>3, <3>1, <3>2, <3>4, <1>1
    <3>5. CASE j > at
      <4>1. j - 1 \in 1 .. Len(p) /\ j - 1 < k - 1 /\ q[j] = p[j - 1]
        <5>1. j - 1 \in 1 .. Len(p) /\ j - 1 < k - 1 /\ ~(j < at) /\ j # at
          BY <1>1, <2>3, <3>5
        <5> QED  BY <1>3, <5>1
      <4>2. p[j - 1] < p[k - 1]
        BY <1>1, <3>1, <4>1 DEF Ascending
      <4> QED  BY <3>1, <4>1, <4>2
    <3> QED  BY <3>3, <3>4, <3>5
  <2> QED  BY <2>1, <2>2, <2>3
<1>7. ASSUME NEW j \in 1 .. Len(p) + 1 PROVE q[j] \in S \cup {id}
  <2>1. CASE j < at
    <3>1. j \in 1 .. Len(p) /\ q[j] = p[j]
      BY <1>1, <1>3, <2>1
    <3> QED  BY <1>1, <3>1
  <2>2. CASE j = at
    BY <1>3, <2>2
  <2>3. CASE j > at
    <3>1. j - 1 \in 1 .. Len(p) /\ q[j] = p[j - 1]
      BY <1>1, <1>3, <2>3
    <3> QED  BY <1>1, <3>1
  <2> QED  BY <2>1, <2>2, <2>3
<1>8. ASSUME NEW x \in S \cup {id} PROVE \E j \in 1 .. Len(p) + 1 : q[j] = x
  <2>1. CASE x = id
    BY <1>3, <2>1
  <2>2. CASE x \in S
    <3>1. PICK k \in 1 .. Len(p) : p[k] = x
      BY <1>1, <2>2
    <3>2. CASE k < at
      <4>1. k \in 1 .. Len(p) + 1
        BY <1>1
      <4> QED  BY <1>3, <3>1, <3>2, <4>1
    <3>3. CASE k >= at
      <4>1. k + 1 \in 1 .. Len(p) + 1 /\ ~(k + 1 < at) /\ k + 1 # at /\ (k + 1) - 1 = k
        BY <1>1, <3>3
      <4>2. q[k + 1] = p[(k + 1) - 1]
        BY <1>3, <4>1
      <4> QED  BY <3>1, <4>1, <4>2
    <3> QED  BY <3>2, <3>3
  <2> QED  BY <2>1, <2>2
<1>9. ToSet(q) = S \cup {id}
  <2>1. DOMAIN q = 1 .. Len(p) + 1
    BY <1>3
  <2> QED  BY <1>7, <1>8, <2>1 DEF ToSet
<1> QED  BY <1>3, <1>6, <1>9 DEF Posting, q

-----------------------------------------------------------------------------
(* The invariant of the index, for an index ix and the lines sh it was given. *)

Having(sh, t) == {id \in DOMAIN sh : t \in TermsOf(sh[id].text)}
LinesOf(sh, p) == {id \in DOMAIN sh : sh[id].path = p}

Formed(ix) ==
  ix = [lines |-> ix.lines, frequency |-> ix.frequency, postings |-> ix.postings,
        termIds |-> ix.termIds, refs |-> ix.refs, pathRefs |-> ix.pathRefs]

Given(sh) ==
  /\ IsFiniteSet(DOMAIN sh) /\ DOMAIN sh \subseteq LineIds
  /\ \A id \in DOMAIN sh : sh[id].path \in Paths /\ sh[id].text \in Texts

\* No two terms have the same number.
Numbered(ix) ==
  /\ DOMAIN ix.termIds \subseteq Terms /\ ix.refs \in Seq(Nat)
  /\ \A t \in DOMAIN ix.termIds : ix.termIds[t] \in 1 .. Len(ix.refs)
  /\ \A t, u \in DOMAIN ix.termIds : ix.termIds[t] = ix.termIds[u] => t = u

\* A line is recorded under the numbers that its terms still have.
Recorded(ix, sh) ==
  /\ DOMAIN ix.lines = DOMAIN sh
  /\ \A id \in DOMAIN sh :
       /\ ix.lines[id].path = sh[id].path
       /\ TermsOf(sh[id].text) \subseteq DOMAIN ix.termIds
       /\ DOMAIN ix.lines[id].counts = {ix.termIds[t] : t \in TermsOf(sh[id].text)}

\* A term keeps its number as long as a line has it: erasing the lines releases
\* it no more often than it is retained.
Referenced(ix, sh) ==
  \A t \in DOMAIN ix.termIds : Cardinality(Having(sh, t)) <= ix.refs[ix.termIds[t]]

Posted(ix, sh) ==
  /\ DOMAIN ix.frequency = DOMAIN ix.postings
  /\ DOMAIN ix.postings \subseteq {ix.termIds[t] : t \in DOMAIN ix.termIds}
  /\ \A t \in DOMAIN ix.termIds :
       /\ ix.termIds[t] \in DOMAIN ix.postings <=> Having(sh, t) # {}
       /\ Having(sh, t) # {} =>
            /\ Posting(ix.postings[ix.termIds[t]], Having(sh, t))
            /\ ix.frequency[ix.termIds[t]] = Cardinality(Having(sh, t))

Filed(ix, sh) ==
  /\ ix.pathRefs \in [Paths -> Nat]
  /\ \A p \in Paths : ix.pathRefs[p] = Cardinality(LinesOf(sh, p))

Good(ix, sh) ==
  Formed(ix) /\ Given(sh) /\ Numbered(ix) /\ Recorded(ix, sh) /\ Referenced(ix, sh) /\
  Posted(ix, sh) /\ Filed(ix, sh)

LEMMA HavingFinite ==
  ASSUME NEW sh, Given(sh), NEW t
  PROVE  IsFiniteSet(Having(sh, t)) /\ Cardinality(Having(sh, t)) \in Nat
<1>1. IsFiniteSet(DOMAIN sh) /\ Having(sh, t) \subseteq DOMAIN sh
  BY DEF Given, Having
<1>2. IsFiniteSet(Having(sh, t))
  BY <1>1, FS_Subset
<1> QED  BY <1>2, FS_CardinalityType

LEMMA LinesOfFinite ==
  ASSUME NEW sh, Given(sh), NEW p
  PROVE  IsFiniteSet(LinesOf(sh, p)) /\ Cardinality(LinesOf(sh, p)) \in Nat
<1>1. IsFiniteSet(DOMAIN sh) /\ LinesOf(sh, p) \subseteq DOMAIN sh
  BY DEF Given, LinesOf
<1>2. IsFiniteSet(LinesOf(sh, p))
  BY <1>1, FS_Subset
<1> QED  BY <1>2, FS_CardinalityType

LEMMA NotEmptyPosting ==
  ASSUME NEW p, NEW S, Posting(p, S)
  PROVE  p # << >> <=> S # {}
<1>1. p \in Seq(LineIds) /\ ToSet(p) = {p[j] : j \in 1 .. Len(p)} /\ Len(p) \in Nat /\ ToSet(p) = S
  BY PostingFacts DEF Posting
<1>2. p # << >> => 1 \in 1 .. Len(p)
  BY <1>1
<1>3. p = << >> => 1 .. Len(p) = {}
  BY <1>1
<1> QED  BY <1>1, <1>2, <1>3

\* The invariant says what the property demands.
LEMMA GoodIsExact == Good(index, shown) => IndexExact
<1> SUFFICES ASSUME Good(index, shown) PROVE IndexExact
  OBVIOUS
<1>1. /\ Formed(index) /\ Given(shown) /\ Numbered(index) /\ Recorded(index, shown)
      /\ Posted(index, shown) /\ Filed(index, shown)
  BY DEF Good
<1>2. \A t : LinesWith(t) = Having(shown, t)
  BY DEF LinesWith, Having
<1>3. \A k \in DOMAIN index.postings : \E t \in DOMAIN index.termIds :
        /\ k = index.termIds[t] /\ Having(shown, t) # {}
        /\ Posting(index.postings[k], Having(shown, t))
        /\ index.frequency[k] = Cardinality(Having(shown, t))
  BY <1>1 DEF Posted
<1>4. \A k \in DOMAIN index.postings :
        /\ k \in 1 .. Len(index.refs)
        /\ index.postings[k] \in Seq(LineIds) /\ index.postings[k] # << >>
        /\ Ascending(index.postings[k])
        /\ index.frequency[k] \in Nat \ {0}
  <2> SUFFICES ASSUME NEW k \in DOMAIN index.postings
               PROVE  /\ k \in 1 .. Len(index.refs)
                      /\ index.postings[k] \in Seq(LineIds) /\ index.postings[k] # << >>
                      /\ Ascending(index.postings[k])
                      /\ index.frequency[k] \in Nat \ {0}
    OBVIOUS
  <2>1. PICK t \in DOMAIN index.termIds :
          /\ k = index.termIds[t] /\ Having(shown, t) # {}
          /\ Posting(index.postings[k], Having(shown, t))
          /\ index.frequency[k] = Cardinality(Having(shown, t))
    BY <1>3
  <2>2. k \in 1 .. Len(index.refs)
    BY <1>1, <2>1 DEF Numbered
  <2>3. index.postings[k] \in Seq(LineIds) /\ index.postings[k] # << >> /\ Ascending(index.postings[k])
    BY <2>1, NotEmptyPosting DEF Posting
  <2>4. Cardinality(Having(shown, t)) \in Nat \ {0}
    BY <1>1, <2>1, HavingFinite, FS_EmptySet
  <2> QED  BY <2>1, <2>2, <2>3, <2>4
<1>5. IndexTypeOK
  <2>1. DOMAIN index.lines \subseteq LineIds /\ DOMAIN shown \subseteq LineIds
    BY <1>1 DEF Recorded, Given
  <2>2. \A id \in DOMAIN index.lines :
          /\ index.lines[id].path \in Paths
          /\ DOMAIN index.lines[id].counts \subseteq 1 .. Len(index.refs)
    BY <1>1 DEF Recorded, Given, Numbered
  <2>3. DOMAIN index.frequency = DOMAIN index.postings
    BY <1>1 DEF Posted
  <2>4. /\ DOMAIN index.termIds \subseteq Terms /\ index.refs \in Seq(Nat)
        /\ \A t \in DOMAIN index.termIds : index.termIds[t] \in 1 .. Len(index.refs)
    BY <1>1 DEF Numbered
  <2>5. index.pathRefs \in [Paths -> Nat]
    BY <1>1 DEF Filed
  <2> QED  BY <1>4, <2>1, <2>2, <2>3, <2>4, <2>5 DEF IndexTypeOK
<1>6. ASSUME NEW t \in Terms
      PROVE  Having(shown, t) =
               IF t \in DOMAIN index.termIds
               THEN ToSet(At(index.postings, index.termIds[t], << >>)) ELSE {}
  <2>1. CASE t \notin DOMAIN index.termIds
    BY <1>1, <2>1 DEF Recorded, Having
  <2>2. CASE t \in DOMAIN index.termIds /\ Having(shown, t) # {}
    BY <1>1, <2>2 DEF Posted, Posting, At
  <2>3. CASE t \in DOMAIN index.termIds /\ Having(shown, t) = {}
    <3>1. At(index.postings, index.termIds[t], << >>) = << >>
      BY <1>1, <2>3 DEF Posted, At
    <3>2. ToSet(<< >>) = {}
      BY DEF ToSet
    <3> QED  BY <2>3, <3>1, <3>2
  <2> QED  BY <2>1, <2>2, <2>3
<1>7. ASSUME NEW t \in DOMAIN index.termIds
      PROVE  At(index.frequency, index.termIds[t], 0) = Cardinality(Having(shown, t))
  <2>1. CASE Having(shown, t) # {}
    BY <1>1, <2>1 DEF Posted, At
  <2>2. CASE Having(shown, t) = {}
    BY <1>1, <2>2, FS_EmptySet DEF Posted, At
  <2> QED  BY <2>1, <2>2
<1>8. PostingsSorted
  <2>1. \A k \in DOMAIN index.postings : DOMAIN index.postings[k] = 1 .. Len(index.postings[k])
    BY <1>4
  <2> QED  BY <1>4, <2>1 DEF PostingsSorted, Ascending
<1>9. FilesExact
  BY <1>1 DEF FilesExact, Filed, LinesOf
<1> QED  BY <1>2, <1>5, <1>6, <1>7, <1>8, <1>9 DEF IndexExact, LookupExact, FrequencyExact

LEMMA EmptyIsGood == Init => Good(index, shown)
<1> SUFFICES ASSUME Init PROVE Good(index, shown)
  OBVIOUS
<1>1. index = EmptyIndex /\ shown = << >> /\ DOMAIN shown = {}
  BY DEF Init
<1>2. Formed(index)
  BY <1>1 DEF Formed, EmptyIndex
<1>3. Given(shown)
  BY <1>1, FS_EmptySet DEF Given
<1>4. index.termIds = << >> /\ index.lines = << >> /\ index.postings = << >>
      /\ index.frequency = << >> /\ index.refs = << >> /\ index.pathRefs = [p \in Paths |-> 0]
  BY <1>1 DEF EmptyIndex
<1>5. Numbered(index)
  BY <1>4 DEF Numbered
<1>6. Recorded(index, shown) /\ Referenced(index, shown) /\ Posted(index, shown)
  BY <1>1, <1>4 DEF Recorded, Referenced, Posted
<1>7. Filed(index, shown)
  <2>1. \A p : LinesOf(shown, p) = {}
    BY <1>1 DEF LinesOf
  <2> QED  BY <1>4, <2>1, FS_EmptySet DEF Filed
<1> QED  BY <1>2, <1>3, <1>5, <1>6, <1>7 DEF Good

-----------------------------------------------------------------------------
(* Erasing a line. *)

NumbersOf(ix, id) == DOMAIN ix.lines[id].counts
PostingLeft(ix, id, k) ==
  IF k \in NumbersOf(ix, id) THEN DropPosting(ix.postings[k], id) ELSE ix.postings[k]
HeldLeft(ix, id, k) == IF k \in NumbersOf(ix, id) THEN ix.frequency[k] - 1 ELSE ix.frequency[k]
Released(ix, id, k) == k \in NumbersOf(ix, id) /\ ix.refs[k] = 1

Members(l, f, p, t, r, c) ==
  [lines |-> l, frequency |-> f, postings |-> p, termIds |-> t, refs |-> r, pathRefs |-> c]

LEMMA ErasedFields ==
  ASSUME NEW ix, Formed(ix), NEW id \in DOMAIN ix.lines
  PROVE  /\ Formed(Erased(ix, id))
         /\ Erased(ix, id).lines = [j \in DOMAIN ix.lines \ {id} |-> ix.lines[j]]
         /\ Erased(ix, id).frequency =
              [k \in {j \in DOMAIN ix.frequency : HeldLeft(ix, id, j) # 0} |-> HeldLeft(ix, id, k)]
         /\ Erased(ix, id).postings =
              [k \in {j \in DOMAIN ix.postings : PostingLeft(ix, id, j) # << >>} |->
                 PostingLeft(ix, id, k)]
         /\ Erased(ix, id).termIds =
              [t \in {u \in DOMAIN ix.termIds :
                        ix.termIds[u] \notin {k \in NumbersOf(ix, id) : ix.refs[k] = 1}} |->
                 ix.termIds[t]]
         /\ Erased(ix, id).refs =
              [k \in DOMAIN ix.refs |->
                 IF k \in NumbersOf(ix, id) /\ ix.refs[k] > 0 THEN ix.refs[k] - 1 ELSE ix.refs[k]]
         /\ Erased(ix, id).pathRefs =
              [ix.pathRefs EXCEPT ![ix.lines[id].path] = ix.pathRefs[ix.lines[id].path] - 1]
<1> DEFINE ids == NumbersOf(ix, id)
           left == [lines |-> [j \in DOMAIN ix.lines \ {id} |-> ix.lines[j]],
                    frequency |-> [k \in {j \in DOMAIN ix.frequency : HeldLeft(ix, id, j) # 0} |->
                                     HeldLeft(ix, id, k)],
                    postings |-> [k \in {j \in DOMAIN ix.postings : PostingLeft(ix, id, j) # << >>} |->
                                    PostingLeft(ix, id, k)],
                    termIds |-> ix.termIds, refs |-> ix.refs,
                    pathRefs |-> [ix.pathRefs EXCEPT ![ix.lines[id].path] =
                                    ix.pathRefs[ix.lines[id].path] - 1]]
<1>1. Erased(ix, id) = ReleaseTerms(left, ids)
  <2>1. PICK a, b, x, v, d :
          /\ a = [k \in {j \in DOMAIN ix.postings : PostingLeft(ix, id, j) # << >>} |->
                    PostingLeft(ix, id, k)]
          /\ b = [k \in {j \in DOMAIN ix.frequency : HeldLeft(ix, id, j) # 0} |-> HeldLeft(ix, id, k)]
          /\ x = ix.lines[id].path
          /\ v = ix.pathRefs[ix.lines[id].path] - 1
          /\ d = Without(ix.lines, id)
    OBVIOUS
  <2>2. Erased(ix, id) =
          ReleaseTerms([ix EXCEPT !.postings = a, !.frequency = b, !.pathRefs[x] = v, !.lines = d], ids)
    BY <2>1, Zenon DEF Erased, PostingLeft, HeldLeft, NumbersOf
  <2>3. [ix EXCEPT !.postings = a, !.frequency = b, !.pathRefs[x] = v, !.lines = d]
          = Members(d, b, a, ix.termIds, ix.refs, [ix.pathRefs EXCEPT ![x] = v])
    <3> DEFINE l == ix.lines
               f == ix.frequency
               p == ix.postings
               t == ix.termIds
               r == ix.refs
               c == ix.pathRefs
    <3>1. [ix EXCEPT !.postings = a, !.frequency = b, !.pathRefs[x] = v, !.lines = d] =
            [[[[ix EXCEPT !.postings = a] EXCEPT !.frequency = b] EXCEPT !.pathRefs[x] = v]
               EXCEPT !.lines = d]
      BY Zenon
    <3>2. ix = Members(l, f, p, t, r, c)
      BY DEF Formed, Members
    <3> HIDE DEF l, f, p, t, r, c
    <3>3. [ix EXCEPT !.postings = a] = Members(l, f, a, t, r, c)
      BY <3>2 DEF Members
    <3>4. [Members(l, f, a, t, r, c) EXCEPT !.frequency = b] = Members(l, b, a, t, r, c)
      BY DEF Members
    <3>5. [Members(l, b, a, t, r, c) EXCEPT !.pathRefs[x] = v]
            = Members(l, b, a, t, r, [c EXCEPT ![x] = v])
      BY DEF Members
    <3>6. [Members(l, b, a, t, r, [c EXCEPT ![x] = v]) EXCEPT !.lines = d]
            = Members(d, b, a, t, r, [c EXCEPT ![x] = v])
      BY DEF Members
    <3>7. [ix EXCEPT !.postings = a, !.frequency = b, !.pathRefs[x] = v, !.lines = d]
            = Members(d, b, a, t, r, [c EXCEPT ![x] = v])
      BY <3>1, <3>3, <3>4, <3>5, <3>6, Zenon
    <3> QED  BY <3>7 DEF t, r, c
  <2>4. Members(d, b, a, ix.termIds, ix.refs, [ix.pathRefs EXCEPT ![x] = v]) = left
    BY <2>1 DEF Members, Without
  <2> QED  BY <2>2, <2>3, <2>4, Zenon
<1>2. ReleaseTerms(left, ids) =
        [left EXCEPT
          !.refs = [k \in DOMAIN ix.refs |->
                      IF k \in ids /\ ix.refs[k] > 0 THEN ix.refs[k] - 1 ELSE ix.refs[k]],
          !.termIds = [t \in {u \in DOMAIN ix.termIds :
                                ix.termIds[u] \notin {k \in ids : ix.refs[k] = 1}} |-> ix.termIds[t]]]
  BY DEF ReleaseTerms, LastReference
<1> HIDE DEF ids
<1> QED  BY ZenonT(60), <1>1, <1>2 DEF Formed, ids

\* What the members hold of a line without it.
LEMMA HavingWithout ==
  ASSUME NEW sh, NEW id, NEW t
  PROVE  Having(Without(sh, id), t) = Having(sh, t) \ {id}
BY DEF Having, Without

LEMMA LinesOfWithout ==
  ASSUME NEW sh, NEW id, NEW p
  PROVE  LinesOf(Without(sh, id), p) = LinesOf(sh, p) \ {id}
BY DEF LinesOf, Without

LEMMA OneLess ==
  ASSUME NEW S, IsFiniteSet(S), NEW x \in S
  PROVE  Cardinality(S \ {x}) = Cardinality(S) - 1 /\ Cardinality(S) \in Nat \ {0}
<1>1. IsFiniteSet(S \ {x}) /\ Cardinality(S \ {x}) = Cardinality(S) - 1
  BY FS_RemoveElement
<1>2. Cardinality(S) \in Nat /\ Cardinality(S \ {x}) \in Nat
  BY <1>1, FS_CardinalityType
<1> QED  BY <1>1, <1>2

LEMMA ErasedIsGood ==
  ASSUME NEW ix, NEW sh, Good(ix, sh), NEW id
  PROVE  Good(Erased(ix, id), Without(sh, id))
<1>0. /\ Formed(ix) /\ Given(sh) /\ Numbered(ix) /\ Recorded(ix, sh) /\ Referenced(ix, sh)
      /\ Posted(ix, sh) /\ Filed(ix, sh)
  BY DEF Good
<1>1. CASE id \notin DOMAIN sh
  <2>1. Erased(ix, id) = ix
    BY <1>0, <1>1 DEF Erased, Recorded
  <2>2. DOMAIN sh \ {id} = DOMAIN sh
    BY <1>1
  <2> DEFINE rest == Without(sh, id)
  <2>3. DOMAIN rest = DOMAIN sh /\ \A j \in DOMAIN sh : rest[j] = sh[j]
    BY <2>2 DEF Without
  <2> HIDE DEF rest
  <2>4. (\A t : Having(rest, t) = Having(sh, t)) /\ \A p : LinesOf(rest, p) = LinesOf(sh, p)
    BY <2>3 DEF Having, LinesOf
  <2>5. Given(rest)
    BY <1>0, <2>3 DEF Given
  <2>6. Recorded(ix, rest)
    BY <1>0, <2>3 DEF Recorded
  <2>7. Referenced(ix, rest)
    BY <1>0, <2>4 DEF Referenced
  <2>8. Posted(ix, rest)
    BY <1>0, <2>4 DEF Posted
  <2>9. Filed(ix, rest)
    BY <1>0, <2>4 DEF Filed
  <2> QED  BY <1>0, <2>1, <2>5, <2>6, <2>7, <2>8, <2>9 DEF Good, rest
<1>2. CASE id \in DOMAIN sh
  <2> DEFINE e == Erased(ix, id)
             rest == Without(sh, id)
             ids == NumbersOf(ix, id)
             gone == {k \in ids : ix.refs[k] = 1}
             own == TermsOf(sh[id].text)
  <2>1. /\ Formed(e)
        /\ e.lines = [j \in DOMAIN ix.lines \ {id} |-> ix.lines[j]]
        /\ e.frequency =
              [k \in {j \in DOMAIN ix.frequency : HeldLeft(ix, id, j) # 0} |-> HeldLeft(ix, id, k)]
        /\ e.postings =
              [k \in {j \in DOMAIN ix.postings : PostingLeft(ix, id, j) # << >>} |->
                 PostingLeft(ix, id, k)]
        /\ e.termIds = [t \in {u \in DOMAIN ix.termIds : ix.termIds[u] \notin gone} |-> ix.termIds[t]]
        /\ e.refs =
              [k \in DOMAIN ix.refs |->
                 IF k \in ids /\ ix.refs[k] > 0 THEN ix.refs[k] - 1 ELSE ix.refs[k]]
        /\ e.pathRefs =
              [ix.pathRefs EXCEPT ![ix.lines[id].path] = ix.pathRefs[ix.lines[id].path] - 1]
    <3>1. id \in DOMAIN ix.lines
      BY <1>0, <1>2 DEF Recorded
    <3> QED  BY <1>0, <3>1, ErasedFields
  <2>2. ids = {ix.termIds[t] : t \in own} /\ own \subseteq DOMAIN ix.termIds
    BY <1>0, <1>2 DEF Recorded, NumbersOf
  <2>3. \A t \in DOMAIN ix.termIds : ix.termIds[t] \in ids <=> t \in own
    BY <1>0, <2>2 DEF Numbered
  <2>4. \A t : t \in own <=> id \in Having(sh, t)
    BY <1>2 DEF Having
  <2>5. \A t : Having(rest, t) = Having(sh, t) \ {id}
    BY HavingWithout
  <2>6. DOMAIN rest = DOMAIN sh \ {id} /\ \A j \in DOMAIN rest : rest[j] = sh[j]
    BY DEF Without
  <2> HIDE DEF e, rest, ids, own
  <2>7. \A t : IsFiniteSet(Having(sh, t)) /\ Cardinality(Having(sh, t)) \in Nat
    BY <1>0, HavingFinite
  <2>8. \A t \in own : /\ Cardinality(Having(sh, t) \ {id}) = Cardinality(Having(sh, t)) - 1
                       /\ Cardinality(Having(sh, t)) \in Nat \ {0}
    BY <2>4, <2>7, OneLess
  <2>9. \A t \in DOMAIN ix.termIds :
          /\ ix.termIds[t] \in 1 .. Len(ix.refs) /\ ix.termIds[t] \in DOMAIN ix.refs
          /\ ix.refs[ix.termIds[t]] \in Nat
    BY <1>0 DEF Numbered
  \* A term that is given up was held by this line alone.
  <2>10. \A t \in DOMAIN ix.termIds : ix.termIds[t] \in gone => t \in own /\ Having(sh, t) = {id}
    <3> SUFFICES ASSUME NEW t \in DOMAIN ix.termIds, ix.termIds[t] \in gone
                 PROVE  t \in own /\ Having(sh, t) = {id}
      OBVIOUS
    <3>1. t \in own /\ ix.refs[ix.termIds[t]] = 1
      BY <2>3
    <3>2. Cardinality(Having(sh, t)) <= 1
      BY <1>0, <3>1 DEF Referenced
    <3>3. Cardinality(Having(sh, t)) = 1
      <4>1. Cardinality(Having(sh, t)) \in Nat \ {0}
        BY <2>8, <3>1
      <4> QED  BY <3>2, <4>1
    <3>4. PICK x : Having(sh, t) = {x}
      BY <2>7, <3>3, FS_Singleton
    <3> QED  BY <2>4, <3>1, <3>4
  <2>11. \A t \in DOMAIN ix.termIds :
           t \in DOMAIN e.termIds => e.termIds[t] = ix.termIds[t]
    BY <2>1
  <2>12. \A t \in DOMAIN ix.termIds : Having(sh, t) \ {id} # {} => t \in DOMAIN e.termIds
    BY <2>1, <2>10
  <2>13. DOMAIN e.termIds \subseteq DOMAIN ix.termIds
    BY <2>1
  <2> HIDE DEF gone
  <2>14. Given(rest)
    <3>1. IsFiniteSet(DOMAIN rest)
      BY <1>0, <2>6, FS_RemoveElement DEF Given
    <3> QED  BY <1>0, <2>6, <3>1 DEF Given
  <2>15. Numbered(e)
    <3>1. e.refs \in Seq(Nat) /\ Len(e.refs) = Len(ix.refs)
      <4>1. ix.refs \in Seq(Nat) /\ DOMAIN ix.refs = 1 .. Len(ix.refs) /\ Len(ix.refs) \in Nat
        BY <1>0 DEF Numbered
      <4>2. \A k \in 1 .. Len(ix.refs) : ix.refs[k] \in Nat
        BY <4>1
      <4>3. e.refs \in [1 .. Len(ix.refs) -> Nat]
        BY <2>1, <4>1, <4>2
      <4> QED  BY <4>1, <4>3, FunctionIsSeq
    <3>2. \A t \in DOMAIN e.termIds : e.termIds[t] \in 1 .. Len(e.refs)
      BY <2>9, <2>11, <2>13, <3>1
    <3> QED  BY <1>0, <2>11, <2>13, <3>1, <3>2 DEF Numbered
  <2>16. Recorded(e, rest)
    <3>1. DOMAIN e.lines = DOMAIN rest /\ \A j \in DOMAIN rest : e.lines[j] = ix.lines[j]
      BY <1>0, <2>1, <2>6 DEF Recorded
    <3>2. ASSUME NEW j \in DOMAIN rest
          PROVE  /\ e.lines[j].path = rest[j].path
                 /\ TermsOf(rest[j].text) \subseteq DOMAIN e.termIds
                 /\ DOMAIN e.lines[j].counts = {e.termIds[t] : t \in TermsOf(rest[j].text)}
      <4>1. /\ ix.lines[j].path = sh[j].path
            /\ TermsOf(sh[j].text) \subseteq DOMAIN ix.termIds
            /\ DOMAIN ix.lines[j].counts = {ix.termIds[t] : t \in TermsOf(sh[j].text)}
        BY <1>0, <2>6 DEF Recorded
      <4>2. \A t \in TermsOf(sh[j].text) : j \in Having(sh, t) \ {id}
        BY <2>6 DEF Having
      <4>3. TermsOf(sh[j].text) \subseteq DOMAIN e.termIds
        BY <2>12, <4>1, <4>2
      <4>4. \A t \in TermsOf(sh[j].text) : e.termIds[t] = ix.termIds[t]
        BY <2>11, <4>1, <4>3
      <4>5. rest[j] = sh[j] /\ e.lines[j] = ix.lines[j]
        BY <2>6, <3>1
      <4> QED  BY <4>1, <4>3, <4>4, <4>5
    <3> QED  BY <3>1, <3>2 DEF Recorded
  <2>17. Referenced(e, rest)
    <3> SUFFICES ASSUME NEW t \in DOMAIN e.termIds
                 PROVE  Cardinality(Having(rest, t)) <= e.refs[e.termIds[t]]
      BY DEF Referenced
    <3>1. t \in DOMAIN ix.termIds /\ e.termIds[t] = ix.termIds[t]
      BY <2>11, <2>13
    <3>2. Cardinality(Having(sh, t)) <= ix.refs[ix.termIds[t]]
      BY <1>0, <3>1 DEF Referenced
    <3> DEFINE k == ix.termIds[t]
    <3>3. k \in DOMAIN ix.refs /\ ix.refs[k] \in Nat
      BY <2>9, <3>1
    <3>4. e.refs[k] = IF k \in ids /\ ix.refs[k] > 0 THEN ix.refs[k] - 1 ELSE ix.refs[k]
      BY <2>1, <3>3
    <3>5. CASE t \in own
      <4>1. k \in ids
        BY <2>3, <3>1, <3>5
      <4>2. Having(rest, t) = Having(sh, t) \ {id}
        BY <2>5
      <4>3. /\ Cardinality(Having(rest, t)) = Cardinality(Having(sh, t)) - 1
            /\ Cardinality(Having(sh, t)) \in Nat \ {0}
        BY <2>8, <3>5, <4>2
      <4> QED  BY <3>1, <3>2, <3>3, <3>4, <4>1, <4>3
    <3>6. CASE t \notin own
      <4>1. Having(rest, t) = Having(sh, t) /\ k \notin ids
        BY <2>3, <2>4, <2>5, <3>1, <3>6
      <4> QED  BY <3>1, <3>2, <3>4, <4>1
    <3> QED  BY <3>5, <3>6
  <2>18. \A t \in DOMAIN ix.termIds : Having(sh, t) # {} =>
           /\ ix.termIds[t] \in DOMAIN ix.postings
           /\ Posting(PostingLeft(ix, id, ix.termIds[t]), Having(rest, t))
           /\ HeldLeft(ix, id, ix.termIds[t]) = Cardinality(Having(rest, t))
    <3> SUFFICES ASSUME NEW t \in DOMAIN ix.termIds, Having(sh, t) # {}
                 PROVE  /\ ix.termIds[t] \in DOMAIN ix.postings
                        /\ Posting(PostingLeft(ix, id, ix.termIds[t]), Having(rest, t))
                        /\ HeldLeft(ix, id, ix.termIds[t]) = Cardinality(Having(rest, t))
      OBVIOUS
    <3> DEFINE k == ix.termIds[t]
    <3>1. /\ k \in DOMAIN ix.postings /\ Posting(ix.postings[k], Having(sh, t))
          /\ ix.frequency[k] = Cardinality(Having(sh, t))
      BY <1>0 DEF Posted
    <3>2. CASE t \in own
      <4>1. k \in ids /\ id \in Having(sh, t)
        BY <2>3, <2>4, <3>2
      <4>2. Posting(DropPosting(ix.postings[k], id), Having(sh, t) \ {id})
        BY <3>1, <4>1, Dropped
      <4>3. PostingLeft(ix, id, k) = DropPosting(ix.postings[k], id)
        BY <4>1 DEF PostingLeft, ids
      <4>4. HeldLeft(ix, id, k) = ix.frequency[k] - 1
        BY <4>1 DEF HeldLeft, ids
      <4> QED  BY <2>5, <2>8, <3>1, <3>2, <4>2, <4>3, <4>4
    <3>3. CASE t \notin own
      <4>1. k \notin ids /\ Having(rest, t) = Having(sh, t)
        BY <2>3, <2>4, <2>5, <3>3
      <4>2. PostingLeft(ix, id, k) = ix.postings[k] /\ HeldLeft(ix, id, k) = ix.frequency[k]
        BY <4>1 DEF PostingLeft, HeldLeft, ids
      <4> QED  BY <3>1, <4>1, <4>2
    <3> QED  BY <3>2, <3>3
  <2>19. \A k \in DOMAIN ix.postings : \E t \in DOMAIN ix.termIds : k = ix.termIds[t] /\ Having(sh, t) # {}
    BY <1>0 DEF Posted
  <2>20. Posted(e, rest)
    <3>1. \A t \in DOMAIN ix.termIds : Having(sh, t) # {} =>
            /\ PostingLeft(ix, id, ix.termIds[t]) # << >> <=> Having(rest, t) # {}
            /\ HeldLeft(ix, id, ix.termIds[t]) # 0 <=> Having(rest, t) # {}
      <4>1. ASSUME NEW t PROVE Cardinality(Having(rest, t)) # 0 <=> Having(rest, t) # {}
        BY <2>14, HavingFinite, FS_EmptySet
      <4> QED  BY <2>18, <4>1, NotEmptyPosting
    <3>2. DOMAIN ix.frequency = DOMAIN ix.postings
      BY <1>0 DEF Posted
    <3>3. /\ DOMAIN e.postings = {k \in DOMAIN ix.postings : PostingLeft(ix, id, k) # << >>}
          /\ DOMAIN e.frequency = {k \in DOMAIN ix.postings : HeldLeft(ix, id, k) # 0}
          /\ \A k \in DOMAIN e.postings : e.postings[k] = PostingLeft(ix, id, k)
          /\ \A k \in DOMAIN e.frequency : e.frequency[k] = HeldLeft(ix, id, k)
      BY <2>1, <3>2
    <3>4. DOMAIN e.frequency = DOMAIN e.postings
      BY <2>19, <3>1, <3>3
    <3>5. DOMAIN e.postings \subseteq {e.termIds[t] : t \in DOMAIN e.termIds}
      <4> SUFFICES ASSUME NEW k \in DOMAIN e.postings
                   PROVE  \E t \in DOMAIN e.termIds : k = e.termIds[t]
        OBVIOUS
      <4>1. k \in DOMAIN ix.postings /\ PostingLeft(ix, id, k) # << >>
        BY <3>3
      <4>2. PICK t \in DOMAIN ix.termIds : k = ix.termIds[t] /\ Having(sh, t) # {}
        BY <2>19, <4>1
      <4>3. Having(rest, t) # {}
        BY <3>1, <4>1, <4>2
      <4> QED  BY <2>5, <2>11, <2>12, <4>2, <4>3
    <3>6. ASSUME NEW t \in DOMAIN e.termIds
          PROVE  /\ e.termIds[t] \in DOMAIN e.postings <=> Having(rest, t) # {}
                 /\ Having(rest, t) # {} =>
                      /\ Posting(e.postings[e.termIds[t]], Having(rest, t))
                      /\ e.frequency[e.termIds[t]] = Cardinality(Having(rest, t))
      <4>1. t \in DOMAIN ix.termIds /\ e.termIds[t] = ix.termIds[t]
        BY <2>11, <2>13
      <4>2. CASE Having(sh, t) = {}
        <5>1. ix.termIds[t] \notin DOMAIN ix.postings
          BY <1>0, <4>1, <4>2 DEF Posted
        <5>2. Having(rest, t) = {} /\ e.termIds[t] \notin DOMAIN e.postings
          BY <2>5, <3>3, <4>1, <4>2, <5>1
        <5> QED  BY <5>2
      <4>3. CASE Having(sh, t) # {}
        <5>1. e.termIds[t] \in DOMAIN e.postings <=> Having(rest, t) # {}
          BY <2>18, <3>1, <3>3, <4>1, <4>3
        <5> QED  BY <2>18, <3>3, <3>4, <4>1, <4>3, <5>1
      <4> QED  BY <4>2, <4>3
    <3> QED  BY <3>4, <3>5, <3>6 DEF Posted
  <2>21. Filed(e, rest)
    <3> DEFINE path == ix.lines[id].path
    <3>1. path = sh[id].path /\ path \in Paths
      BY <1>0, <1>2 DEF Recorded, Given
    <3>2. /\ ix.pathRefs \in [Paths -> Nat]
          /\ \A p \in Paths : ix.pathRefs[p] = Cardinality(LinesOf(sh, p))
      BY <1>0 DEF Filed
    <3>3. \A p : LinesOf(rest, p) = LinesOf(sh, p) \ {id}
      BY LinesOfWithout DEF rest
    <3> HIDE DEF path
    <3>4. ASSUME NEW p \in Paths PROVE e.pathRefs[p] = Cardinality(LinesOf(rest, p))
      <4>1. CASE p = path
        <5>1. id \in LinesOf(sh, p)
          BY <1>2, <3>1, <4>1 DEF LinesOf
        <5>2. Cardinality(LinesOf(sh, p) \ {id}) = Cardinality(LinesOf(sh, p)) - 1
          BY <1>0, <5>1, LinesOfFinite, OneLess
        <5> QED  BY <2>1, <3>1, <3>2, <3>3, <4>1, <5>2 DEF path
      <4>2. CASE p # path
        <5>1. LinesOf(rest, p) = LinesOf(sh, p)
          BY <3>1, <3>3, <4>2 DEF LinesOf
        <5> QED  BY <2>1, <3>2, <4>2, <5>1 DEF path
      <4> QED  BY <4>1, <4>2
    <3>5. \A p \in Paths : Cardinality(LinesOf(rest, p)) \in Nat
      BY <2>14, LinesOfFinite
    <3>6. e.pathRefs = [p \in Paths |-> e.pathRefs[p]]
      BY <2>1, <3>2
    <3>7. e.pathRefs \in [Paths -> Nat]
      BY <3>4, <3>5, <3>6
    <3> QED  BY <3>4, <3>7 DEF Filed
  <2> QED  BY <2>1, <2>14, <2>15, <2>16, <2>17, <2>20, <2>21 DEF Good, e, rest
<1> QED  BY <1>1, <1>2

-----------------------------------------------------------------------------
(* Numbering the terms of a text. *)

News(ix, grams) ==
  {i \in DOMAIN grams : /\ grams[i] \notin DOMAIN ix.termIds
                        /\ \A j \in 1 .. i - 1 : grams[j] # grams[i]}
NumberAt(ix, grams, i) == Len(ix.refs) + Cardinality({j \in News(ix, grams) : j <= i})
NumbersAfter(ix, grams) ==
  [t \in DOMAIN ix.termIds \cup ToSet(grams) |->
     IF t \in DOMAIN ix.termIds THEN ix.termIds[t]
     ELSE NumberAt(ix, grams, CHOOSE i \in News(ix, grams) : grams[i] = t)]
UsesAfter(ix, grams, k) ==
  Cardinality({i \in DOMAIN grams : NumbersAfter(ix, grams)[grams[i]] = k})

LEMMA RetainedFields ==
  ASSUME NEW ix, Formed(ix), NEW grams
  PROVE  RetainTerms(ix, grams) =
           Members(ix.lines, ix.frequency, ix.postings, NumbersAfter(ix, grams),
                   [k \in 1 .. Len(ix.refs) + Cardinality(News(ix, grams)) |->
                      UsesAfter(ix, grams, k) + IF k <= Len(ix.refs) THEN ix.refs[k] ELSE 0],
                   ix.pathRefs)
<1> DEFINE l == ix.lines
           f == ix.frequency
           p == ix.postings
           c == ix.pathRefs
<1>1. PICK t, r :
        /\ t = NumbersAfter(ix, grams)
        /\ r = [k \in 1 .. Len(ix.refs) + Cardinality(News(ix, grams)) |->
                  UsesAfter(ix, grams, k) + IF k <= Len(ix.refs) THEN ix.refs[k] ELSE 0]
  OBVIOUS
<1>2. RetainTerms(ix, grams) = [ix EXCEPT !.termIds = t, !.refs = r]
  BY <1>1, Zenon DEF RetainTerms, NumbersAfter, NumberAt, UsesAfter, News
<1> DEFINE old == ix.termIds
           before == ix.refs
<1>3. ix = Members(l, f, p, old, before, c)
  BY DEF Formed, Members
<1> HIDE DEF l, f, p, c, old, before
<1>4. [ix EXCEPT !.termIds = t, !.refs = r] = Members(l, f, p, t, r, c)
  <2>1. [ix EXCEPT !.termIds = t, !.refs = r] = [[ix EXCEPT !.termIds = t] EXCEPT !.refs = r]
    BY Zenon
  <2>2. [ix EXCEPT !.termIds = t] = Members(l, f, p, t, before, c)
    BY <1>3 DEF Members
  <2>3. [Members(l, f, p, t, before, c) EXCEPT !.refs = r] = Members(l, f, p, t, r, c)
    BY DEF Members
  <2> QED  BY <2>1, <2>2, <2>3, Zenon
<1>5. RetainTerms(ix, grams) = Members(l, f, p, t, r, c)
  BY <1>2, <1>4, Zenon
<1> QED  BY <1>1, <1>5 DEF l, f, p, c

\* The first occurrence of each term that has no number is new, and the new ones
\* are numbered without gap or repetition.
LEMMA NewNumbers ==
  ASSUME NEW ix, ix.refs \in Seq(Nat), NEW grams \in Seq(Terms)
  PROVE  /\ IsFiniteSet(News(ix, grams)) /\ Cardinality(News(ix, grams)) \in Nat
         /\ \A i \in News(ix, grams) :
              NumberAt(ix, grams, i) \in
                Len(ix.refs) + 1 .. Len(ix.refs) + Cardinality(News(ix, grams))
         /\ \A i, j \in News(ix, grams) :
              NumberAt(ix, grams, i) = NumberAt(ix, grams, j) => i = j
         /\ \A t \in ToSet(grams) \ DOMAIN ix.termIds : \E i \in News(ix, grams) : grams[i] = t
<1> DEFINE news == News(ix, grams)
           UpTo(i) == {j \in news : j <= i}
<1>1. /\ DOMAIN grams = 1 .. Len(grams) /\ Len(grams) \in Nat /\ Len(ix.refs) \in Nat
      /\ ToSet(grams) = {grams[i] : i \in 1 .. Len(grams)}
  BY DEF ToSet
<1>2. news \subseteq 1 .. Len(grams) /\ news \subseteq Nat
  BY <1>1 DEF News
<1>3. IsFiniteSet(news) /\ Cardinality(news) \in Nat
  <2>1. IsFiniteSet(1 .. Len(grams))
    BY <1>1, FS_Interval
  <2>2. IsFiniteSet(news)
    BY <1>2, <2>1, FS_Subset
  <2> QED  BY <2>2, FS_CardinalityType
<1>4. ASSUME NEW t \in ToSet(grams) \ DOMAIN ix.termIds
      PROVE  \E i \in news : grams[i] = t
  <2> DEFINE at == {i \in 1 .. Len(grams) : grams[i] = t}
  <2>1. at \subseteq Nat /\ at # {}
    BY <1>1
  <2>2. PICK i \in at : \A j \in at : i <= j
    BY <2>1, Least
  <2>3. \A j \in 1 .. i - 1 : grams[j] # t
    <3> SUFFICES ASSUME NEW j \in 1 .. i - 1 PROVE grams[j] # t
      OBVIOUS
    <3>1. j \in 1 .. Len(grams) /\ ~(i <= j)
      BY <1>1
    <3> QED  BY <2>2, <3>1
  <2> QED  BY <1>1, <2>3 DEF News
<1> HIDE DEF news
<1>5. \A i \in news : /\ IsFiniteSet(UpTo(i)) /\ Cardinality(UpTo(i)) \in Nat \ {0}
                      /\ Cardinality(UpTo(i)) <= Cardinality(news)
  <2> SUFFICES ASSUME NEW i \in news
               PROVE  /\ IsFiniteSet(UpTo(i)) /\ Cardinality(UpTo(i)) \in Nat \ {0}
                      /\ Cardinality(UpTo(i)) <= Cardinality(news)
    OBVIOUS
  <2>1. IsFiniteSet(UpTo(i)) /\ Cardinality(UpTo(i)) <= Cardinality(news)
    BY <1>3, FS_Subset
  <2>2. i \in UpTo(i)
    BY <1>2
  <2>3. Cardinality(UpTo(i)) \in Nat /\ Cardinality(UpTo(i)) # 0
    BY <2>1, <2>2, FS_EmptySet, FS_CardinalityType
  <2> QED  BY <2>1, <2>3
<1>6. \A i \in news : NumberAt(ix, grams, i) = Len(ix.refs) + Cardinality(UpTo(i))
  BY DEF NumberAt, news
<1>7. ASSUME NEW i \in news, NEW j \in news, i < j
      PROVE  Cardinality(UpTo(i)) # Cardinality(UpTo(j))
  <2>0. i \in Nat /\ j \in Nat
    BY <1>2
  <2>1. UpTo(i) \subseteq UpTo(j) /\ j \in UpTo(j) /\ j \notin UpTo(i)
    <3>1. \A k \in news : k <= i => k <= j
      BY <1>2, <1>7, <2>0
    <3>2. j <= j /\ ~(j <= i)
      BY <1>7, <2>0
    <3>3. \A m, k : k \in UpTo(m) <=> k \in news /\ k <= m
      BY DEF UpTo
    <3> HIDE DEF UpTo
    <3> QED  BY <3>1, <3>2, <3>3, Zenon
  <2>2. IsFiniteSet(UpTo(j))
    BY <1>5
  <2> HIDE DEF UpTo
  <2> QED  BY <2>1, <2>2, FS_Subset
<1> HIDE DEF UpTo
<1>8. ASSUME NEW i \in news
      PROVE  NumberAt(ix, grams, i) \in Len(ix.refs) + 1 .. Len(ix.refs) + Cardinality(news)
  <2>1. /\ Cardinality(UpTo(i)) \in Nat \ {0} /\ Cardinality(UpTo(i)) <= Cardinality(news)
        /\ NumberAt(ix, grams, i) = Len(ix.refs) + Cardinality(UpTo(i))
    BY <1>5, <1>6
  <2> QED  BY <1>1, <1>3, <2>1
<1>9. ASSUME NEW i \in news, NEW j \in news, NumberAt(ix, grams, i) = NumberAt(ix, grams, j)
      PROVE  i = j
  <2>1. /\ Cardinality(UpTo(i)) \in Nat /\ Cardinality(UpTo(j)) \in Nat
        /\ Len(ix.refs) + Cardinality(UpTo(i)) = Len(ix.refs) + Cardinality(UpTo(j))
    BY <1>5, <1>6, <1>9
  <2>2. Cardinality(UpTo(i)) = Cardinality(UpTo(j))
    BY <1>1, <2>1
  <2>3. i \in Nat /\ j \in Nat /\ ~(i < j) /\ ~(j < i)
    BY <1>2, <1>7, <2>2
  <2> QED  BY <2>3
<1> QED  BY <1>3, <1>4, <1>8, <1>9 DEF news

\* After retaining, each term of the text has a number, which counts one line
\* more than there are.
LEMMA RetainedIsGood ==
  ASSUME NEW ix, NEW sh, Good(ix, sh), NEW grams \in Seq(Terms)
  PROVE  /\ Good(RetainTerms(ix, grams), sh)
         /\ ToSet(grams) \subseteq DOMAIN RetainTerms(ix, grams).termIds
         /\ \A t \in ToSet(grams) :
              Cardinality(Having(sh, t)) <
                RetainTerms(ix, grams).refs[RetainTerms(ix, grams).termIds[t]]
<1>0. /\ Formed(ix) /\ Given(sh) /\ Numbered(ix) /\ Recorded(ix, sh) /\ Referenced(ix, sh)
      /\ Posted(ix, sh) /\ Filed(ix, sh)
  BY DEF Good
<1> DEFINE e == RetainTerms(ix, grams)
           news == News(ix, grams)
           n == Len(ix.refs)
           ids == NumbersAfter(ix, grams)
           New(t) == CHOOSE i \in news : grams[i] = t
<1>1. /\ Formed(e) /\ e.lines = ix.lines /\ e.frequency = ix.frequency
      /\ e.postings = ix.postings /\ e.pathRefs = ix.pathRefs
      /\ e.termIds = ids
      /\ e.refs = [k \in 1 .. n + Cardinality(news) |->
                     UsesAfter(ix, grams, k) + IF k <= n THEN ix.refs[k] ELSE 0]
  <2>1. PICK l, f, p, t, r, c :
          /\ e = Members(l, f, p, t, r, c)
          /\ l = ix.lines /\ f = ix.frequency /\ p = ix.postings /\ t = ids /\ c = ix.pathRefs
          /\ r = [k \in 1 .. n + Cardinality(news) |->
                    UsesAfter(ix, grams, k) + IF k <= n THEN ix.refs[k] ELSE 0]
    BY <1>0, RetainedFields, Zenon
  <2> HIDE DEF e
  <2>2. /\ e.lines = l /\ e.frequency = f /\ e.postings = p /\ e.termIds = t /\ e.refs = r
        /\ e.pathRefs = c
    BY <2>1 DEF Members
  <2>3. Formed(e)
    BY <2>1, <2>2, Zenon DEF Formed, Members
  <2> QED  BY <2>1, <2>2, <2>3, Zenon
<1> HIDE DEF e
<1>2. /\ DOMAIN ix.termIds \subseteq Terms /\ ix.refs \in Seq(Nat)
      /\ \A t \in DOMAIN ix.termIds : ix.termIds[t] \in 1 .. n
      /\ \A t, u \in DOMAIN ix.termIds : ix.termIds[t] = ix.termIds[u] => t = u
  BY <1>0 DEF Numbered
<1>3. /\ n \in Nat /\ \A k \in 1 .. n : ix.refs[k] \in Nat
      /\ DOMAIN grams = 1 .. Len(grams) /\ Len(grams) \in Nat
      /\ ToSet(grams) = {grams[i] : i \in 1 .. Len(grams)} /\ ToSet(grams) \subseteq Terms
  BY <1>2 DEF ToSet
<1>4. /\ IsFiniteSet(news) /\ Cardinality(news) \in Nat
      /\ \A i \in news : NumberAt(ix, grams, i) \in n + 1 .. n + Cardinality(news)
      /\ \A i, j \in news : NumberAt(ix, grams, i) = NumberAt(ix, grams, j) => i = j
      /\ \A t \in ToSet(grams) \ DOMAIN ix.termIds : \E i \in news : grams[i] = t
  BY <1>2, NewNumbers
<1>5. /\ DOMAIN ids = DOMAIN ix.termIds \cup ToSet(grams)
      /\ \A t \in DOMAIN ix.termIds : ids[t] = ix.termIds[t]
      /\ \A t \in ToSet(grams) \ DOMAIN ix.termIds :
           ids[t] = NumberAt(ix, grams, New(t)) /\ New(t) \in news /\ grams[New(t)] = t
  <2>1. \A t \in ToSet(grams) \ DOMAIN ix.termIds : New(t) \in news /\ grams[New(t)] = t
    BY <1>4
  <2> QED  BY <2>1 DEF NumbersAfter
<1> HIDE DEF news, ids, New
<1>6. \A t \in DOMAIN ids : ids[t] \in 1 .. n + Cardinality(news)
  <2>1. \A t \in DOMAIN ix.termIds : ids[t] \in 1 .. n + Cardinality(news)
    BY <1>2, <1>3, <1>4, <1>5
  <2>2. \A t \in ToSet(grams) \ DOMAIN ix.termIds : ids[t] \in n + 1 .. n + Cardinality(news)
    BY <1>4, <1>5
  <2>3. \A t \in ToSet(grams) \ DOMAIN ix.termIds : ids[t] \in 1 .. n + Cardinality(news)
    BY <1>3, <1>4, <2>2
  <2> QED  BY <1>5, <2>1, <2>3
<1>7. \A t, u \in DOMAIN ids : ids[t] = ids[u] => t = u
  <2> SUFFICES ASSUME NEW t \in DOMAIN ids, NEW u \in DOMAIN ids, ids[t] = ids[u] PROVE t = u
    OBVIOUS
  <2>1. \A s \in DOMAIN ix.termIds : ids[s] <= n
    BY <1>2, <1>3, <1>5
  <2>2. \A s \in ToSet(grams) \ DOMAIN ix.termIds : ~(ids[s] <= n)
    <3> SUFFICES ASSUME NEW s \in ToSet(grams) \ DOMAIN ix.termIds PROVE ~(ids[s] <= n)
      OBVIOUS
    <3>1. ids[s] \in n + 1 .. n + Cardinality(news)
      BY <1>4, <1>5
    <3> QED  BY <1>3, <1>4, <3>1
  <2>3. CASE t \in DOMAIN ix.termIds /\ u \in DOMAIN ix.termIds
    BY <1>2, <1>5, <2>3
  <2>4. CASE t \notin DOMAIN ix.termIds /\ u \notin DOMAIN ix.termIds
    <3>1. New(t) = New(u)
      BY <1>4, <1>5, <2>4
    <3> QED  BY <1>5, <2>4, <3>1
  <2> QED  BY <1>5, <2>1, <2>2, <2>3, <2>4
<1>8. \A k \in 1 .. n + Cardinality(news) : UsesAfter(ix, grams, k) \in Nat
  <2> SUFFICES ASSUME NEW k PROVE UsesAfter(ix, grams, k) \in Nat
    OBVIOUS
  <2> DEFINE at == {i \in DOMAIN grams : NumbersAfter(ix, grams)[grams[i]] = k}
  <2>1. IsFiniteSet(1 .. Len(grams)) /\ at \subseteq 1 .. Len(grams)
    BY <1>3, FS_Interval
  <2>2. IsFiniteSet(at)
    BY <2>1, FS_Subset
  <2> QED  BY <2>2, FS_CardinalityType DEF UsesAfter
<1>9. \A t \in ToSet(grams) : UsesAfter(ix, grams, ids[t]) # 0
  <2> SUFFICES ASSUME NEW t \in ToSet(grams) PROVE UsesAfter(ix, grams, ids[t]) # 0
    OBVIOUS
  <2> DEFINE at == {i \in DOMAIN grams : NumbersAfter(ix, grams)[grams[i]] = ids[t]}
  <2>1. IsFiniteSet(1 .. Len(grams)) /\ at \subseteq 1 .. Len(grams)
    BY <1>3, FS_Interval
  <2>2. IsFiniteSet(at)
    BY <2>1, FS_Subset
  <2>3. at # {}
    BY <1>3 DEF ids
  <2>4. Cardinality(at) # 0
    BY <2>2, <2>3, FS_EmptySet
  <2> QED  BY <2>4 DEF UsesAfter
<1>10. Numbered(e)
  <2>1. e.refs \in [1 .. n + Cardinality(news) -> Nat]
    <3>1. ASSUME NEW k \in 1 .. n + Cardinality(news)
          PROVE  UsesAfter(ix, grams, k) + (IF k <= n THEN ix.refs[k] ELSE 0) \in Nat
      <4>1. k <= n => k \in 1 .. n
        BY <1>3, <1>4
      <4> QED  BY <1>3, <1>8, <4>1
    <3> QED  BY <1>1, <3>1
  <2>2. e.refs \in Seq(Nat) /\ Len(e.refs) = n + Cardinality(news)
    <3>1. n + Cardinality(news) \in Nat
      BY <1>3, <1>4
    <3> QED  BY <2>1, <3>1, FunctionIsSeq
  <2> QED  BY <1>1, <1>2, <1>3, <1>5, <1>6, <1>7, <2>2 DEF Numbered
<1>11. Recorded(e, sh)
  <2>1. DOMAIN e.lines = DOMAIN sh
    BY <1>0, <1>1 DEF Recorded
  <2>2. ASSUME NEW j \in DOMAIN sh
        PROVE  /\ e.lines[j].path = sh[j].path
               /\ TermsOf(sh[j].text) \subseteq DOMAIN e.termIds
               /\ DOMAIN e.lines[j].counts = {e.termIds[t] : t \in TermsOf(sh[j].text)}
    <3>1. /\ ix.lines[j].path = sh[j].path
          /\ TermsOf(sh[j].text) \subseteq DOMAIN ix.termIds
          /\ DOMAIN ix.lines[j].counts = {ix.termIds[t] : t \in TermsOf(sh[j].text)}
      BY <1>0 DEF Recorded
    <3>2. \A t \in TermsOf(sh[j].text) : e.termIds[t] = ix.termIds[t]
      BY <1>1, <1>5, <3>1
    <3> QED  BY <1>1, <1>5, <3>1, <3>2
  <2> QED  BY <2>1, <2>2 DEF Recorded
\* A term that is new is on no line.
<1>12. \A t \in ToSet(grams) \ DOMAIN ix.termIds : Having(sh, t) = {}
  BY <1>0 DEF Recorded, Having
<1>13. \A t : Cardinality(Having(sh, t)) \in Nat
  BY <1>0, HavingFinite
<1>14. \A t \in DOMAIN e.termIds :
         /\ e.termIds[t] \in 1 .. n + Cardinality(news)
         /\ e.refs[e.termIds[t]] =
              UsesAfter(ix, grams, e.termIds[t]) +
                IF e.termIds[t] <= n THEN ix.refs[e.termIds[t]] ELSE 0
  BY <1>1, <1>6
<1>15. ASSUME NEW t \in DOMAIN e.termIds
       PROVE  /\ Cardinality(Having(sh, t)) <= e.refs[e.termIds[t]]
              /\ t \in ToSet(grams) => Cardinality(Having(sh, t)) < e.refs[e.termIds[t]]
  <2> DEFINE k == e.termIds[t]
             u == UsesAfter(ix, grams, k)
             c == Cardinality(Having(sh, t))
  <2>1. /\ k \in 1 .. n + Cardinality(news) /\ u \in Nat /\ c \in Nat
        /\ e.refs[k] = u + IF k <= n THEN ix.refs[k] ELSE 0
        /\ t \in ToSet(grams) => u # 0
    BY <1>1, <1>8, <1>9, <1>13, <1>14
  <2>2. CASE t \in DOMAIN ix.termIds
    <3>1. k = ix.termIds[t] /\ k \in 1 .. n /\ ix.refs[k] \in Nat /\ c <= ix.refs[k]
      BY <1>0, <1>1, <1>2, <1>3, <1>5, <2>2 DEF Referenced
    <3> HIDE DEF k, u, c
    <3>2. k <= n
      BY <1>3, <3>1
    <3>3. e.refs[k] = u + ix.refs[k]
      BY <2>1, <3>2
    <3>4. c <= e.refs[k] /\ (t \in ToSet(grams) => c < e.refs[k])
      BY <2>1, <3>1, <3>3
    <3> QED  BY <3>4 DEF k, c
  <2>3. CASE t \notin DOMAIN ix.termIds
    <3>1. t \in ToSet(grams)
      BY <1>1, <1>5, <2>3
    <3>2. c = 0
      BY <1>12, <2>3, <3>1, FS_EmptySet
    <3>3. e.refs[k] \in Nat /\ e.refs[k] >= u
      <4>1. k <= n => ix.refs[k] \in Nat
        BY <1>3, <2>1
      <4> HIDE DEF k, u, c
      <4> QED  BY <2>1, <4>1
    <3> HIDE DEF k, u, c
    <3>4. c <= e.refs[k] /\ c < e.refs[k]
      BY <2>1, <3>1, <3>2, <3>3
    <3> QED  BY <3>4 DEF k, c
  <2> QED  BY <2>2, <2>3
<1>16. Referenced(e, sh)
  BY <1>15 DEF Referenced
<1>17. Posted(e, sh)
  <2>1. DOMAIN e.frequency = DOMAIN e.postings
    BY <1>0, <1>1 DEF Posted
  <2>2. DOMAIN e.postings \subseteq {e.termIds[t] : t \in DOMAIN e.termIds}
    <3>1. DOMAIN ix.postings \subseteq {ix.termIds[t] : t \in DOMAIN ix.termIds}
      BY <1>0 DEF Posted
    <3> QED  BY <1>1, <1>5, <3>1
  <2>3. ASSUME NEW t \in DOMAIN e.termIds
        PROVE  /\ e.termIds[t] \in DOMAIN e.postings <=> Having(sh, t) # {}
               /\ Having(sh, t) # {} =>
                    /\ Posting(e.postings[e.termIds[t]], Having(sh, t))
                    /\ e.frequency[e.termIds[t]] = Cardinality(Having(sh, t))
    <3>1. CASE t \in DOMAIN ix.termIds
      BY <1>0, <1>1, <1>5, <3>1 DEF Posted
    <3>2. CASE t \notin DOMAIN ix.termIds
      <4>1. Having(sh, t) = {}
        BY <1>1, <1>5, <1>12, <3>2
      <4>2. e.termIds[t] \notin DOMAIN e.postings
        <5> SUFFICES ASSUME e.termIds[t] \in DOMAIN e.postings PROVE FALSE
          OBVIOUS
        <5>1. PICK s \in DOMAIN ix.termIds : ids[t] = ids[s]
          BY <1>0, <1>1, <1>5 DEF Posted
        <5> QED  BY <1>1, <1>5, <1>7, <3>2, <5>1
      <4> QED  BY <4>1, <4>2
    <3> QED  BY <3>1, <3>2
  <2> QED  BY <2>1, <2>2, <2>3 DEF Posted
<1>18. Filed(e, sh)
  BY <1>0, <1>1 DEF Filed
<1>19. Good(e, sh)
  BY <1>0, <1>1, <1>10, <1>11, <1>16, <1>17, <1>18 DEF Good
<1>20. ToSet(grams) \subseteq DOMAIN e.termIds
  BY <1>1, <1>5
<1> QED  BY <1>15, <1>19, <1>20 DEF e

-----------------------------------------------------------------------------
(* Entering a line. *)

FrequencyWith(ix, ids) ==
  [k \in DOMAIN ix.frequency \cup ids |-> At(ix.frequency, k, 0) + IF k \in ids THEN 1 ELSE 0]
PostingsWith(ix, ids, id) ==
  [k \in DOMAIN ix.postings \cup ids |->
     IF k \in ids THEN AddPosting(At(ix.postings, k, << >>), id) ELSE ix.postings[k]]

Retained(ix, id, text) == RetainTerms(Erased(ix, id), Grams[text])
NumbersIn(kept, text) == {kept.termIds[t] : t \in ToSet(Grams[text])}
Entered(kept, id, path, counts, ids) ==
  Members([j \in DOMAIN kept.lines \cup {id} |->
             IF j = id THEN [path |-> path, counts |-> counts] ELSE kept.lines[j]],
          FrequencyWith(kept, ids), PostingsWith(kept, ids, id), kept.termIds, kept.refs,
          [kept.pathRefs EXCEPT ![path] = kept.pathRefs[path] + 1])

LEMMA UpsertedFields ==
  ASSUME NEW ix, NEW id, NEW path, NEW text, Formed(Retained(ix, id, text))
  PROVE  \E counts :
           /\ DOMAIN counts = NumbersIn(Retained(ix, id, text), text)
           /\ Upserted(ix, id, path, text) =
                Entered(Retained(ix, id, text), id, path, counts,
                        NumbersIn(Retained(ix, id, text), text))
<1> DEFINE kept == Retained(ix, id, text)
           ids == NumbersIn(kept, text)
           count(k) == Cardinality({i \in DOMAIN Grams[text] : kept.termIds[Grams[text][i]] = k})
           l == kept.lines
           f == kept.frequency
           p == kept.postings
           t == kept.termIds
           r == kept.refs
           c == kept.pathRefs
<1>1. PICK counts, a, b, v, d :
        /\ counts = [k \in ids |-> count(k)]
        /\ d = With(l, id, [path |-> path, counts |-> counts])
        /\ a = FrequencyWith(kept, ids) /\ b = PostingsWith(kept, ids, id)
        /\ v = c[path] + 1
  OBVIOUS
<1>2. Upserted(ix, id, path, text) =
        [kept EXCEPT !.pathRefs[path] = v, !.lines = d, !.frequency = a, !.postings = b]
  BY <1>1, Zenon DEF Upserted, FrequencyWith, PostingsWith, Retained, NumbersIn
<1>3. [kept EXCEPT !.pathRefs[path] = v, !.lines = d, !.frequency = a, !.postings = b] =
        [[[[kept EXCEPT !.pathRefs[path] = v] EXCEPT !.lines = d] EXCEPT !.frequency = a]
           EXCEPT !.postings = b]
  BY Zenon
<1>4. kept = Members(l, f, p, t, r, c)
  BY DEF Formed, Members
<1>5. DOMAIN counts = ids
  BY <1>1
<1>6. d = [j \in DOMAIN l \cup {id} |-> IF j = id THEN [path |-> path, counts |-> counts] ELSE l[j]]
  BY <1>1 DEF With
<1> HIDE DEF kept, ids, l, f, p, t, r, c
<1>7. [kept EXCEPT !.pathRefs[path] = v] = Members(l, f, p, t, r, [c EXCEPT ![path] = v])
  BY <1>4 DEF Members
<1>8. [Members(l, f, p, t, r, [c EXCEPT ![path] = v]) EXCEPT !.lines = d]
        = Members(d, f, p, t, r, [c EXCEPT ![path] = v])
  BY DEF Members
<1>9. [Members(d, f, p, t, r, [c EXCEPT ![path] = v]) EXCEPT !.frequency = a]
        = Members(d, a, p, t, r, [c EXCEPT ![path] = v])
  BY DEF Members
<1>10. [Members(d, a, p, t, r, [c EXCEPT ![path] = v]) EXCEPT !.postings = b]
         = Members(d, a, b, t, r, [c EXCEPT ![path] = v])
  BY DEF Members
<1>11. Upserted(ix, id, path, text) = Members(d, a, b, t, r, [c EXCEPT ![path] = v])
  BY <1>2, <1>3, <1>7, <1>8, <1>9, <1>10, Zenon
<1>12. Upserted(ix, id, path, text) =
         Entered(kept, id, path, counts, ids)
  BY <1>1, <1>6, <1>11, Zenon DEF Entered, l, t, r, c
<1> QED  BY <1>5, <1>12, Zenon DEF kept, ids

\* Entering a line that is not in the index, whose terms have numbers.
LEMMA EnteredIsGood ==
  ASSUME NEW ix, NEW sh, Good(ix, sh), NEW id \in LineIds, id \notin DOMAIN sh,
         NEW path \in Paths, NEW text \in Texts,
         TermsOf(text) \subseteq DOMAIN ix.termIds,
         \A t \in TermsOf(text) : Cardinality(Having(sh, t)) < ix.refs[ix.termIds[t]],
         NEW e, Formed(e), e.termIds = ix.termIds, e.refs = ix.refs,
         DOMAIN e.lines = DOMAIN ix.lines \cup {id},
         \A j \in DOMAIN ix.lines \ {id} : e.lines[j] = ix.lines[j],
         e.lines[id].path = path,
         DOMAIN e.lines[id].counts = {ix.termIds[t] : t \in TermsOf(text)},
         e.frequency = FrequencyWith(ix, {ix.termIds[t] : t \in TermsOf(text)}),
         e.postings = PostingsWith(ix, {ix.termIds[t] : t \in TermsOf(text)}, id),
         e.pathRefs = [ix.pathRefs EXCEPT ![path] = ix.pathRefs[path] + 1],
         NEW now, DOMAIN now = DOMAIN sh \cup {id}, \A j \in DOMAIN sh : now[j] = sh[j],
         now[id].path = path, now[id].text = text
  PROVE  Good(e, now)
<1>0. /\ Formed(ix) /\ Given(sh) /\ Numbered(ix) /\ Recorded(ix, sh) /\ Referenced(ix, sh)
      /\ Posted(ix, sh) /\ Filed(ix, sh)
  BY DEF Good
<1> DEFINE ids == {ix.termIds[t] : t \in TermsOf(text)}
           own == TermsOf(text)
<1>1. \A t \in DOMAIN ix.termIds : ix.termIds[t] \in ids <=> t \in own
  BY <1>0 DEF Numbered
<1>2. \A t : Having(now, t) = IF t \in own THEN Having(sh, t) \cup {id} ELSE Having(sh, t)
  BY DEF Having
<1>3. \A t : id \notin Having(sh, t)
  BY DEF Having
<1>4. \A t : IsFiniteSet(Having(sh, t)) /\ Cardinality(Having(sh, t)) \in Nat
  BY <1>0, HavingFinite
<1>5. \A t \in own : Cardinality(Having(sh, t) \cup {id}) = Cardinality(Having(sh, t)) + 1
  BY <1>3, <1>4, FS_AddElement
<1>6. Given(now)
  <2>1. IsFiniteSet(DOMAIN now)
    BY <1>0, FS_AddElement DEF Given
  <2> QED  BY <1>0, <2>1 DEF Given
<1>7. Numbered(e)
  BY <1>0 DEF Numbered
<1>8. Recorded(e, now)
  <2>1. DOMAIN e.lines = DOMAIN now
    BY <1>0 DEF Recorded
  <2>2. ASSUME NEW j \in DOMAIN now
        PROVE  /\ e.lines[j].path = now[j].path
               /\ TermsOf(now[j].text) \subseteq DOMAIN e.termIds
               /\ DOMAIN e.lines[j].counts = {e.termIds[t] : t \in TermsOf(now[j].text)}
    <3>1. CASE j = id
      BY <3>1
    <3>2. CASE j # id
      <4>1. /\ j \in DOMAIN sh /\ ix.lines[j].path = sh[j].path
            /\ TermsOf(sh[j].text) \subseteq DOMAIN ix.termIds
            /\ DOMAIN ix.lines[j].counts = {ix.termIds[t] : t \in TermsOf(sh[j].text)}
        BY <1>0, <3>2 DEF Recorded
      <4>2. j \in DOMAIN ix.lines \ {id}
        BY <1>0, <3>2, <4>1 DEF Recorded
      <4>3. e.lines[j] = ix.lines[j] /\ now[j] = sh[j]
        BY <4>1, <4>2
      <4> QED  BY <4>1, <4>3
    <3> QED  BY <3>1, <3>2
  <2> QED  BY <2>1, <2>2 DEF Recorded
<1> HIDE DEF ids, own
<1>9. Referenced(e, now)
  <2> SUFFICES ASSUME NEW t \in DOMAIN ix.termIds
               PROVE  Cardinality(Having(now, t)) <= ix.refs[ix.termIds[t]]
    BY DEF Referenced
  <2>1. Cardinality(Having(sh, t)) <= ix.refs[ix.termIds[t]] /\ ix.refs[ix.termIds[t]] \in Nat
    BY <1>0 DEF Referenced, Numbered
  <2>2. CASE t \in own
    <3>1. Cardinality(Having(sh, t)) < ix.refs[ix.termIds[t]]
      BY <2>2 DEF own
    <3>2. Cardinality(Having(now, t)) = Cardinality(Having(sh, t)) + 1
      BY <1>2, <1>5, <2>2
    <3>3. Cardinality(Having(sh, t)) \in Nat
      BY <1>4
    <3> QED  BY <2>1, <3>1, <3>2, <3>3
  <2>3. CASE t \notin own
    BY <1>2, <2>1, <2>3
  <2> QED  BY <2>2, <2>3
<1>10. /\ DOMAIN e.postings = DOMAIN ix.postings \cup ids
       /\ DOMAIN e.frequency = DOMAIN ix.frequency \cup ids
       /\ \A k \in ids : /\ e.postings[k] = AddPosting(At(ix.postings, k, << >>), id)
                         /\ e.frequency[k] = At(ix.frequency, k, 0) + 1
       /\ \A k \in DOMAIN ix.postings \ ids : e.postings[k] = ix.postings[k]
       /\ \A k \in DOMAIN ix.frequency \ ids : e.frequency[k] = ix.frequency[k] + 0
  BY DEF FrequencyWith, PostingsWith, ids, At
<1>11. /\ DOMAIN ix.frequency = DOMAIN ix.postings
       /\ DOMAIN ix.postings \subseteq {ix.termIds[t] : t \in DOMAIN ix.termIds}
       /\ \A t \in DOMAIN ix.termIds :
            /\ ix.termIds[t] \in DOMAIN ix.postings <=> Having(sh, t) # {}
            /\ Having(sh, t) # {} =>
                 /\ Posting(ix.postings[ix.termIds[t]], Having(sh, t))
                 /\ ix.frequency[ix.termIds[t]] = Cardinality(Having(sh, t))
  BY <1>0 DEF Posted
<1>12. Posted(e, now)
  <2>1. DOMAIN e.frequency = DOMAIN e.postings
    BY <1>10, <1>11
  <2>2. DOMAIN e.postings \subseteq {e.termIds[t] : t \in DOMAIN e.termIds}
    <3>1. ids \subseteq {ix.termIds[t] : t \in DOMAIN ix.termIds}
      BY DEF ids
    <3>2. ASSUME NEW k \in DOMAIN e.postings PROVE \E t \in DOMAIN ix.termIds : k = ix.termIds[t]
      BY <1>10, <1>11, <3>1
    <3> QED  BY <3>2
  <2>3. ASSUME NEW t \in DOMAIN ix.termIds
        PROVE  /\ ix.termIds[t] \in DOMAIN e.postings <=> Having(now, t) # {}
               /\ Having(now, t) # {} =>
                    /\ Posting(e.postings[ix.termIds[t]], Having(now, t))
                    /\ e.frequency[ix.termIds[t]] = Cardinality(Having(now, t))
    <3> DEFINE k == ix.termIds[t]
    <3>1. CASE t \in own
      <4>1. k \in ids /\ Having(now, t) = Having(sh, t) \cup {id}
        BY <1>1, <1>2, <3>1
      <4>2. Cardinality(Having(now, t)) = Cardinality(Having(sh, t)) + 1
        BY <1>5, <3>1, <4>1
      <4>3. /\ Posting(At(ix.postings, k, << >>), Having(sh, t))
            /\ At(ix.frequency, k, 0) = Cardinality(Having(sh, t))
        <5>1. CASE Having(sh, t) # {}
          BY <1>11, <5>1 DEF At
        <5>2. CASE Having(sh, t) = {}
          <6>1. At(ix.postings, k, << >>) = << >> /\ At(ix.frequency, k, 0) = 0
            BY <1>11, <5>2 DEF At
          <6>2. Posting(<< >>, {})
            BY DEF Posting, Ascending, ToSet
          <6> QED  BY <5>2, <6>1, <6>2, FS_EmptySet
        <5> QED  BY <5>1, <5>2
      <4>4. Posting(e.postings[k], Having(now, t))
        <5>1. Posting(AddPosting(At(ix.postings, k, << >>), id), Having(sh, t) \cup {id})
          BY <1>3, <4>3, Added
        <5> QED  BY <1>10, <4>1, <5>1
      <4>5. e.frequency[k] = Cardinality(Having(now, t))
        BY <1>10, <4>1, <4>2, <4>3
      <4>6. k \in DOMAIN e.postings /\ Having(now, t) # {}
        BY <1>10, <4>1
      <4> QED  BY <4>4, <4>5, <4>6
    <3>2. CASE t \notin own
      <4>1. k \notin ids /\ Having(now, t) = Having(sh, t)
        BY <1>1, <1>2, <3>2
      <4>2. k \in DOMAIN e.postings <=> Having(now, t) # {}
        BY <1>10, <1>11, <4>1
      <4>3. ASSUME Having(now, t) # {}
            PROVE  /\ Posting(e.postings[k], Having(now, t))
                   /\ e.frequency[k] = Cardinality(Having(now, t))
        <5>1. /\ k \in DOMAIN ix.postings /\ k \in DOMAIN ix.frequency
              /\ Posting(ix.postings[k], Having(sh, t))
              /\ ix.frequency[k] = Cardinality(Having(sh, t))
          BY <1>11, <4>1, <4>3
        <5>2. e.postings[k] = ix.postings[k] /\ e.frequency[k] = ix.frequency[k] + 0
          BY <1>10, <4>1, <5>1
        <5>3. Cardinality(Having(sh, t)) \in Nat
          BY <1>4
        <5> QED  BY <4>1, <5>1, <5>2, <5>3
      <4> QED  BY <4>2, <4>3
    <3> QED  BY <3>1, <3>2
  <2> QED  BY <2>1, <2>2, <2>3 DEF Posted
<1>13. Filed(e, now)
  <2>1. /\ ix.pathRefs \in [Paths -> Nat]
        /\ \A p \in Paths : ix.pathRefs[p] = Cardinality(LinesOf(sh, p))
    BY <1>0 DEF Filed
  <2>2. \A p : LinesOf(now, p) = IF p = path THEN LinesOf(sh, p) \cup {id} ELSE LinesOf(sh, p)
    BY DEF LinesOf
  <2>3. \A p \in Paths : e.pathRefs[p] = IF p = path THEN ix.pathRefs[p] + 1 ELSE ix.pathRefs[p]
    BY <2>1
  <2>4. e.pathRefs \in [Paths -> Nat]
    BY <2>1
  <2>5. Cardinality(LinesOf(sh, path) \cup {id}) = Cardinality(LinesOf(sh, path)) + 1
    <3>1. id \notin LinesOf(sh, path)
      BY DEF LinesOf
    <3> QED  BY <1>0, <3>1, LinesOfFinite, FS_AddElement
  <2>6. ASSUME NEW p \in Paths PROVE e.pathRefs[p] = Cardinality(LinesOf(now, p))
    BY <2>1, <2>2, <2>3, <2>5
  <2> QED  BY <2>4, <2>6 DEF Filed
<1> QED  BY <1>6, <1>7, <1>8, <1>9, <1>12, <1>13 DEF Good

LEMMA UpsertStep ==
  ASSUME Good(index, shown), NEW id \in LineIds, NEW path \in Paths, NEW text \in Texts,
         Upsert(id, path, text)
  PROVE  Good(index', shown')
<1> DEFINE kept == Retained(index, id, text)
           rest == Without(shown, id)
           ids == NumbersIn(kept, text)
<1>1. Grams[text] \in Seq(Terms)
  BY IndexAssumption
<1>2. Good(Erased(index, id), rest)
  BY ErasedIsGood
<1>3. /\ Good(kept, rest) /\ TermsOf(text) \subseteq DOMAIN kept.termIds
      /\ \A t \in TermsOf(text) : Cardinality(Having(rest, t)) < kept.refs[kept.termIds[t]]
  <2> HIDE DEF rest
  <2> QED  BY <1>1, <1>2, RetainedIsGood DEF TermsOf, Retained
<1>4. Formed(kept)
  BY <1>3 DEF Good
<1>5. PICK counts : DOMAIN counts = ids /\ index' = Entered(kept, id, path, counts, ids)
  BY <1>4, UpsertedFields, Zenon DEF Upsert
<1> HIDE DEF kept, ids
<1>6. PICK e, now : e = index' /\ now = shown'
  OBVIOUS
<1>7. /\ e.termIds = kept.termIds /\ e.refs = kept.refs
      /\ e.lines = [j \in DOMAIN kept.lines \cup {id} |->
                      IF j = id THEN [path |-> path, counts |-> counts] ELSE kept.lines[j]]
      /\ e.frequency = FrequencyWith(kept, ids)
      /\ e.postings = PostingsWith(kept, ids, id)
      /\ e.pathRefs = [kept.pathRefs EXCEPT ![path] = kept.pathRefs[path] + 1]
      /\ e = Members(e.lines, e.frequency, e.postings, e.termIds, e.refs, e.pathRefs)
  BY <1>5, <1>6 DEF Entered, Members
<1>8. Formed(e)
  BY <1>7, Zenon DEF Formed, Members
<1>9. /\ DOMAIN e.lines = DOMAIN kept.lines \cup {id}
      /\ \A j \in DOMAIN kept.lines \ {id} : e.lines[j] = kept.lines[j]
      /\ e.lines[id].path = path /\ DOMAIN e.lines[id].counts = ids
  BY <1>5, <1>7
<1>10. ids = {kept.termIds[t] : t \in TermsOf(text)}
  BY Zenon DEF ids, NumbersIn, TermsOf
<1>11. /\ DOMAIN now = DOMAIN rest \cup {id} /\ id \notin DOMAIN rest
       /\ \A j \in DOMAIN rest : now[j] = rest[j]
       /\ now[id].path = path /\ now[id].text = text
  BY <1>6 DEF Upsert, With, Without
<1> HIDE DEF rest
<1>12. Good(e, now)
  BY SMTT(60), <1>3, <1>7, <1>8, <1>9, <1>10, <1>11, EnteredIsGood
<1> QED  BY <1>6, <1>12, Zenon

GoodIndex == Good(index, shown)

LEMMA GoodAlways == Spec => []GoodIndex
<1>1. Init => GoodIndex
  BY EmptyIsGood DEF GoodIndex
<1>2. GoodIndex /\ [Next]_vars => GoodIndex'
  <2> SUFFICES ASSUME Good(index, shown), [Next]_vars PROVE Good(index', shown')
    BY DEF GoodIndex
  <2>1. ASSUME NEW id \in LineIds, NEW path \in Paths, NEW text \in Texts, Upsert(id, path, text)
        PROVE  Good(index', shown')
    BY <2>1, UpsertStep
  <2>2. ASSUME NEW id \in LineIds, Erase(id) PROVE Good(index', shown')
    <3>1. Good(Erased(index, id), Without(shown, id))
      BY ErasedIsGood
    <3>2. index' = Erased(index, id) /\ shown' = Without(shown, id)
      BY <2>2 DEF Erase
    <3> QED  BY <3>1, <3>2
  <2>3. CASE UNCHANGED vars
    BY <2>3 DEF vars
  <2> QED  BY <2>1, <2>2, <2>3 DEF Next
<1> QED  BY <1>1, <1>2, PTL DEF Spec

\* Looking a term up finds exactly the lines that have it, whatever was entered,
\* replaced and erased before: no line is found by a text it has no more, and
\* none is lost because its term gave up its number.
THEOREM IndexAlwaysExact == Spec => []IndexExact
<1>1. GoodIndex => IndexExact
  BY GoodIsExact DEF GoodIndex
<1> QED  BY <1>1, GoodAlways, PTL

\* Whatever was indexed and erased before, the tasks of a search score each of
\* its candidates exactly once, however many there are.
THEOREM EachScoredOnce == Spec => []ScoredOnce
<1>1. GoodIndex => ScoredOnce
  <2> SUFFICES ASSUME GoodIndex, NEW n \in 0 .. Cardinality(DOMAIN shown)
               PROVE  Partitioned(n)
    BY DEF ScoredOnce
  <2>1. Cardinality(DOMAIN shown) \in Nat
    BY FS_CardinalityType DEF GoodIndex, Good, Given
  <2> QED  BY <2>1, RangesPartition
<1> QED  BY <1>1, GoodAlways, PTL
-----------------------------------------------------------------------------
(* The candidates of a search. *)

\* A beginning of a posting has no more lines than its length.
LEMMA PrefixFacts ==
  ASSUME NEW p \in Seq(LineIds), NEW n \in 0 .. Len(p)
  PROVE  /\ ToSet(SubSeq(p, 1, n)) = {p[j] : j \in 1 .. n}
         /\ IsFiniteSet({p[j] : j \in 1 .. n})
         /\ Cardinality({p[j] : j \in 1 .. n}) \in Nat /\ Cardinality({p[j] : j \in 1 .. n}) <= n
<1> DEFINE q == SubSeq(p, 1, n)
           T == {p[j] : j \in 1 .. n}
           f == [j \in 1 .. n |-> p[j]]
<1>1. n \in Nat /\ Len(p) \in Nat /\ n <= Len(p)
  OBVIOUS
<1>2. DOMAIN q = 1 .. n /\ \A j \in 1 .. n : q[j] = p[j]
  BY <1>1
<1>3. ToSet(q) = T
  BY <1>2 DEF ToSet
<1>4. f \in Surjection(1 .. n, T)
  BY DEF Surjection
<1>5. IsFiniteSet(1 .. n) /\ Cardinality(1 .. n) = n
  BY <1>1, FS_Interval
<1> HIDE DEF f, T, q
<1>6. IsFiniteSet(T) /\ Cardinality(T) <= n
  BY <1>4, <1>5, FS_Surjection
<1>7. Cardinality(T) \in Nat
  BY <1>6, FS_CardinalityType
<1> QED  BY <1>3, <1>6, <1>7 DEF T, q

\* A posting is as long as there are lines in it.
LEMMA PostingLength ==
  ASSUME NEW p, NEW X, Posting(p, X)
  PROVE  Len(p) = Cardinality(X)
<1> DEFINE f == [j \in 1 .. Len(p) |-> p[j]]
<1>1. /\ Len(p) \in Nat /\ X = {p[j] : j \in 1 .. Len(p)} /\ Ascending(p)
      /\ \A j \in 1 .. Len(p) : p[j] \in Nat
  BY PostingFacts DEF Posting
<1>2. f \in Surjection(1 .. Len(p), X)
  BY <1>1 DEF Surjection
<1>3. f \in Injection(1 .. Len(p), X)
  <2>1. ASSUME NEW i \in 1 .. Len(p), NEW j \in 1 .. Len(p), p[i] = p[j] PROVE i = j
    <3>1. ~(i < j) /\ ~(j < i)
      BY <1>1, <2>1 DEF Ascending
    <3> QED  BY <1>1, <3>1
  <2>2. f \in [1 .. Len(p) -> X] /\ DOMAIN f = 1 .. Len(p)
    BY <1>1
  <2>3. \A i \in 1 .. Len(p) : f[i] = p[i]
    OBVIOUS
  <2> HIDE DEF f
  <2> QED  BY <2>1, <2>2, <2>3 DEF Injection, IsInjective
<1>4. IsFiniteSet(1 .. Len(p)) /\ Cardinality(1 .. Len(p)) = Len(p)
  <2>1. Len(p) \in Nat
    BY <1>1
  <2> HIDE <1>1, <1>2, <1>3
  <2> QED  BY SMTT(60), <2>1, FS_Interval
<1> HIDE DEF f
<1> QED  BY <1>2, <1>3, <1>4, FS_Surjection

\* What is inserted is a beginning of the posting, its first line included, and
\* all of it when there were no candidates and it is within the budget.
LEMMA Inserted ==
  ASSUME NEW C, NEW p \in Seq(LineIds)
  PROVE  \E n \in 0 .. Len(p) :
           /\ InsertUpToBudget(C, p) = C \cup {p[j] : j \in 1 .. n}
           /\ p # << >> => n >= 1
           /\ C = {} /\ Len(p) <= Budget => n = Len(p)
<1> DEFINE full(n) == Cardinality(C \cup ToSet(SubSeq(p, 1, n))) >= Budget
           stop == {n \in 1 .. Len(p) : full(n)}
<1>0. Len(p) \in Nat /\ Budget \in Nat /\ (p # << >> => Len(p) >= 1)
  BY SearchAssumption
<1>1. CASE stop = {}
  <2>1. InsertUpToBudget(C, p) = C \cup ToSet(SubSeq(p, 1, Len(p)))
    BY <1>1, Zenon DEF InsertUpToBudget
  <2>2. Len(p) \in 0 .. Len(p)
    BY <1>0
  <2>3. ToSet(SubSeq(p, 1, Len(p))) = {p[j] : j \in 1 .. Len(p)}
    BY <2>2, PrefixFacts
  <2> QED  BY <1>0, <2>1, <2>2, <2>3
<1>2. CASE stop # {}
  <2> DEFINE m == CHOOSE n \in stop : \A k \in stop : n <= k
  <2>1. \E n \in stop : \A k \in stop : n <= k
    <3>1. stop \subseteq Nat
      BY <1>0
    <3> HIDE DEF stop
    <3> QED  BY <1>2, <3>1, Least
  <2>2. m \in stop
    BY <2>1
  <2>3. InsertUpToBudget(C, p) = C \cup ToSet(SubSeq(p, 1, m))
    BY <1>2, Zenon DEF InsertUpToBudget
  <2> HIDE DEF m
  <2>4. m \in 1 .. Len(p) /\ full(m)
    BY <2>2
  <2>5. m \in 0 .. Len(p) /\ m >= 1 /\ m \in Nat /\ m <= Len(p)
    BY <1>0, <2>4
  <2>6. /\ ToSet(SubSeq(p, 1, m)) = {p[j] : j \in 1 .. m}
        /\ Cardinality({p[j] : j \in 1 .. m}) \in Nat /\ Cardinality({p[j] : j \in 1 .. m}) <= m
    BY <2>5, PrefixFacts
  <2>7. ASSUME C = {}, Len(p) <= Budget PROVE m = Len(p)
    <3>1. C \cup ToSet(SubSeq(p, 1, m)) = {p[j] : j \in 1 .. m}
      BY <2>6, <2>7
    <3>2. Cardinality({p[j] : j \in 1 .. m}) >= Budget
      BY <2>4, <3>1
    <3> QED  BY <1>0, <2>5, <2>6, <2>7, <3>2
  <2> QED  BY <2>3, <2>5, <2>6, <2>7
<1> QED  BY <1>1, <1>2

\* One more term adds lines of its posting and takes none away; the first one
\* adds one, and all it has within the budget.
LEMMA WithTermFacts ==
  ASSUME NEW C, NEW k, index.postings[k] \in Seq(LineIds), index.postings[k] # << >>
  PROVE  /\ C \subseteq WithTerm(C, k)
         /\ WithTerm(C, k) \subseteq C \cup ToSet(index.postings[k])
         /\ C = {} => WithTerm(C, k) # {}
         /\ C = {} /\ PostingSize(k) <= Budget => WithTerm(C, k) = ToSet(index.postings[k])
<1> DEFINE p == index.postings[k]
<1>1. /\ Len(p) \in Nat /\ ToSet(p) = {p[j] : j \in 1 .. Len(p)} /\ Len(p) >= 1
  BY PostingFacts
<1>2. PostingSize(k) = Len(p)
  BY DEF PostingSize
<1>3. PICK n \in 0 .. Len(p) :
        /\ InsertUpToBudget(C, p) = C \cup {p[j] : j \in 1 .. n}
        /\ n >= 1
        /\ C = {} /\ Len(p) <= Budget => n = Len(p)
  BY Inserted
<1>4. WithTerm(C, k) = C \/ WithTerm(C, k) = InsertUpToBudget(C, p)
  BY DEF WithTerm
<1>5. C = {} => WithTerm(C, k) = InsertUpToBudget(C, p)
  BY FS_EmptySet, SearchAssumption DEF WithTerm, SkipCommon
<1> HIDE DEF p
<1>6. {p[j] : j \in 1 .. n} \subseteq ToSet(p)
  BY <1>1
<1>7. p[1] \in {p[j] : j \in 1 .. n}
  BY <1>1, <1>3
<1>8. C = {} /\ Len(p) <= Budget => InsertUpToBudget(C, p) = ToSet(p)
  BY <1>1, <1>3
<1>9. C = {} => InsertUpToBudget(C, p) # {}
  BY <1>3, <1>7
<1>10. C \subseteq WithTerm(C, k) /\ WithTerm(C, k) \subseteq C \cup ToSet(p)
  BY <1>3, <1>4, <1>6
<1> QED  BY <1>2, <1>5, <1>8, <1>9, <1>10 DEF p

\* f holds the candidates after each of the first n terms.
Rounds(f, order, n) ==
  f = [i \in 0 .. n |-> IF i = 0 THEN {} ELSE WithTerm(f[i - 1], order[i])]

\* The loop over the terms has such candidates: if it had none after some number
\* of terms, there would be a least such number.
LEMMA CollectFacts ==
  ASSUME NEW order, Len(order) \in Nat
  PROVE  \E f : Rounds(f, order, Len(order)) /\ Collect(order) = f[Len(order)]
<1> DEFINE T == {n \in Nat : ~ \E f : Rounds(f, order, n)}
<1>1. T = {}
  <2> SUFFICES ASSUME T # {} PROVE FALSE
    OBVIOUS
  <2>1. PICK m \in T : \A n \in T : m <= n
    <3>1. T \subseteq Nat
      OBVIOUS
    <3> HIDE DEF T
    <3> QED  BY <3>1, Least
  <2>2. m \in Nat /\ ~ \E f : Rounds(f, order, m)
    OBVIOUS
  <2>3. CASE m = 0
    <3> DEFINE g == [i \in 0 .. 0 |-> {}]
    <3>1. Rounds(g, order, 0)
      BY DEF Rounds
    <3> QED  BY <2>2, <2>3, <3>1
  <2>4. CASE m # 0
    <3>1. m - 1 \in Nat /\ ~(m <= m - 1)
      BY <2>2, <2>4
    <3>2. m - 1 \notin T
      BY <2>1, <3>1
    <3>3. PICK f : Rounds(f, order, m - 1)
      BY <3>1, <3>2
    <3> DEFINE g == [i \in 0 .. m |-> IF i = m THEN WithTerm(f[m - 1], order[m]) ELSE f[i]]
    <3>4. ASSUME NEW i \in 0 .. m
          PROVE  g[i] = IF i = 0 THEN {} ELSE WithTerm(g[i - 1], order[i])
      <4>1. i = 0 => g[i] = {}
        BY <2>2, <2>4, <3>3 DEF Rounds
      <4>2. ASSUME i # 0, i # m PROVE g[i] = WithTerm(g[i - 1], order[i])
        <5>1. i \in 0 .. m - 1 /\ i - 1 \in 0 .. m /\ i - 1 # m
          BY <2>2, <4>2
        <5>2. g[i] = f[i] /\ g[i - 1] = f[i - 1]
          BY <4>2, <5>1
        <5> HIDE DEF g
        <5>3. f[i] = WithTerm(f[i - 1], order[i])
          BY <3>3, <4>2, <5>1 DEF Rounds
        <5> QED  BY <5>2, <5>3
      <4>3. i = m => g[i] = WithTerm(g[i - 1], order[i])
        <5>1. m \in 0 .. m /\ m - 1 \in 0 .. m /\ m - 1 # m
          BY <2>2, <3>1
        <5>2. g[m] = WithTerm(f[m - 1], order[m]) /\ g[m - 1] = f[m - 1]
          BY <5>1
        <5> QED  BY <5>2
      <4> HIDE DEF g
      <4> QED  BY <4>1, <4>2, <4>3
    <3>5. g = [i \in 0 .. m |-> g[i]]
      OBVIOUS
    <3> HIDE DEF g
    <3>6. Rounds(g, order, m)
      BY <3>4, <3>5 DEF Rounds
    <3> QED  BY <2>2, <3>6
  <2> QED  BY <2>3, <2>4
<1> DEFINE F == CHOOSE f : Rounds(f, order, Len(order))
<1>2. \E f : Rounds(f, order, Len(order))
  BY <1>1
<1>3. Rounds(F, order, Len(order))
  BY <1>2
<1>4. Collect(order) = F[Len(order)]
  BY DEF Collect, Rounds
<1> QED  BY <1>3, <1>4

\* The candidates are lines of the terms' postings, and those that the first
\* term gave stay.
LEMMA Collected ==
  ASSUME NEW n \in Nat \ {0}, NEW order \in [1 .. n -> DOMAIN index.postings],
         \A k \in DOMAIN index.postings :
           index.postings[k] \in Seq(LineIds) /\ index.postings[k] # << >>
  PROVE  /\ WithTerm({}, order[1]) \subseteq Collect(order)
         /\ \A id \in Collect(order) : \E i \in 1 .. n : id \in ToSet(index.postings[order[i]])
<1>1. Len(order) = n
  BY FunctionIsSeq
<1>2. PICK f : Rounds(f, order, n) /\ Collect(order) = f[n]
  BY <1>1, CollectFacts
<1>3. f[0] = {} /\ \A i \in 1 .. n : f[i] = WithTerm(f[i - 1], order[i])
  <2> HIDE <1>1
  <2>1. 0 \in 0 .. n
    OBVIOUS
  <2>2. f[0] = {}
    BY <1>2, <2>1 DEF Rounds
  <2>3. ASSUME NEW i \in 1 .. n PROVE f[i] = WithTerm(f[i - 1], order[i])
    <3>1. i \in 0 .. n /\ i # 0
      OBVIOUS
    <3> QED  BY <1>2, <3>1 DEF Rounds
  <2> QED  BY <2>2, <2>3
<1> DEFINE FromTerms(i) == \A id \in f[i] : \E j \in 1 .. n : id \in ToSet(index.postings[order[j]])
           T == {i \in 1 .. n : ~(f[1] \subseteq f[i] /\ FromTerms(i))}
<1>4. T = {}
  <2> SUFFICES ASSUME T # {} PROVE FALSE
    OBVIOUS
  <2>1. PICK m \in T : \A i \in T : m <= i
    <3>1. T \subseteq Nat
      OBVIOUS
    <3> HIDE DEF T
    <3> QED  BY <3>1, Least
  <2>2. m \in 1 .. n /\ m \in Nat /\ ~(f[1] \subseteq f[m] /\ FromTerms(m))
    BY <2>1
  <2>3. order[m] \in DOMAIN index.postings
    BY <2>2
  <2>4. f[m - 1] \subseteq f[m] /\ f[m] \subseteq f[m - 1] \cup ToSet(index.postings[order[m]])
    BY <1>3, <2>2, <2>3, WithTermFacts
  <2>5. CASE m = 1
    <3>0. m - 1 = 0
      BY <2>5
    <3>1. f[m] \subseteq ToSet(index.postings[order[m]])
      BY <1>3, <2>4, <3>0
    <3> QED  BY <2>2, <2>5, <3>1
  <2>6. CASE m # 1
    <3>1. m - 1 \in 1 .. n /\ ~(m <= m - 1)
      BY <2>2, <2>6
    <3>2. f[1] \subseteq f[m - 1] /\ FromTerms(m - 1)
      BY <2>1, <3>1
    <3>3. f[1] \subseteq f[m]
      BY <2>4, <3>2
    <3>4. FromTerms(m)
      BY <2>2, <2>4, <3>2
    <3> QED  BY <2>2, <3>3, <3>4
  <2> QED  BY <2>5, <2>6
<1>5. n \in 1 .. n /\ 1 \in 1 .. n
  OBVIOUS
<1>6. f[1] \subseteq f[n] /\ FromTerms(n)
  BY <1>4, <1>5
<1>7. f[1] = WithTerm({}, order[1])
  <2>1. 1 - 1 = 0
    OBVIOUS
  <2>2. f[1] = WithTerm(f[1 - 1], order[1])
    BY <1>3, <1>5
  <2> QED  BY <1>3, <2>1, <2>2, Zenon
<1> QED  BY <1>2, <1>6, <1>7

\* A query's terms that have a posting are the numbers of those that a line has.
LEMMA QueryTermsFacts ==
  ASSUME GoodIndex, NEW text
  PROVE  /\ IsFiniteSet(QueryTerms(text))
         /\ \A k \in QueryTerms(text) : \E t \in TermsOf(text) :
              /\ k \in DOMAIN index.postings
              /\ Posting(index.postings[k], Having(shown, t)) /\ Having(shown, t) # {}
         /\ \A t \in TermsOf(text) : Having(shown, t) # {} =>
              /\ t \in DOMAIN index.termIds /\ index.termIds[t] \in QueryTerms(text)
              /\ Posting(index.postings[index.termIds[t]], Having(shown, t))
<1>1. Numbered(index) /\ Recorded(index, shown) /\ Posted(index, shown)
  BY DEF GoodIndex, Good
<1>2. IsFiniteSet(QueryTerms(text))
  <2>1. QueryTerms(text) \subseteq 1 .. Len(index.refs) /\ Len(index.refs) \in Nat
    BY <1>1 DEF QueryTerms, Numbered
  <2>2. IsFiniteSet(1 .. Len(index.refs))
    BY <2>1, FS_Interval
  <2> QED  BY <2>1, <2>2, FS_Subset
<1>3. ASSUME NEW k \in QueryTerms(text)
      PROVE  \E t \in TermsOf(text) :
              /\ k \in DOMAIN index.postings
              /\ Posting(index.postings[k], Having(shown, t)) /\ Having(shown, t) # {}
  <2>1. PICK t \in TermsOf(text) \cap DOMAIN index.termIds :
          k = index.termIds[t] /\ k \in DOMAIN index.postings
    BY DEF QueryTerms
  <2> QED  BY <1>1, <2>1 DEF Posted
<1>4. ASSUME NEW t \in TermsOf(text), Having(shown, t) # {}
      PROVE  /\ t \in DOMAIN index.termIds /\ index.termIds[t] \in QueryTerms(text)
             /\ Posting(index.postings[index.termIds[t]], Having(shown, t))
  <2>1. t \in DOMAIN index.termIds
    BY <1>1, <1>4 DEF Recorded, Having
  <2>2. /\ index.termIds[t] \in DOMAIN index.postings
        /\ Posting(index.postings[index.termIds[t]], Having(shown, t))
    BY <1>1, <1>4, <2>1 DEF Posted
  <2> QED  BY <2>1, <2>2 DEF QueryTerms
<1> QED  BY <1>2, <1>3, <1>4

\* An order has every term of the query, the rarest first.
LEMMA OrderFacts ==
  ASSUME NEW text, IsFiniteSet(QueryTerms(text)), NEW s \in Orders(text)
  PROVE  /\ Cardinality(QueryTerms(text)) \in Nat
         /\ s \in [1 .. Cardinality(QueryTerms(text)) -> QueryTerms(text)]
         /\ \A k \in QueryTerms(text) : \E i \in 1 .. Cardinality(QueryTerms(text)) : s[i] = k
         /\ \A i \in 1 .. Cardinality(QueryTerms(text)) : 1 < i => PostingSize(s[1]) <= PostingSize(s[i])
<1> DEFINE Q == QueryTerms(text)
           D == 1 .. Cardinality(Q)
<1>1. Cardinality(Q) \in Nat
  BY FS_CardinalityType
<1>2. s \in [D -> Q] /\ \A i, j \in D : i # j => s[i] # s[j]
  BY DEF Orders, SetToSeqs
<1>3. \A i, j \in D : i < j => PostingSize(s[i]) <= PostingSize(s[j])
  BY <1>2 DEF Orders
<1>4. Cardinality(D) = Cardinality(Q)
  BY <1>1, FS_Interval
<1> HIDE DEF D, Q
<1>5. s \in Injection(D, Q)
  BY <1>2 DEF Injection, IsInjective
<1>6. s \in Surjection(D, Q)
  <2>1. IsFiniteSet(Q)
    BY DEF Q
  <2> QED  BY <1>4, <1>5, <2>1, FS_Injection
<1>7. \A k \in Q : \E i \in D : s[i] = k
  BY <1>6 DEF Surjection
<1>8. ASSUME NEW i \in D, 1 < i PROVE PostingSize(s[1]) <= PostingSize(s[i])
  <2>1. 1 \in D
    BY <1>1, <1>8 DEF D
  <2> QED  BY <1>3, <1>8, <2>1
<1> QED  BY <1>1, <1>2, <1>7, <1>8 DEF D, Q

LEMMA CandidatesExact ==
  ASSUME GoodIndex, NEW text \in Texts, NEW c \in CandidateSets(text)
  PROVE  /\ \A id \in c : id \in DOMAIN shown /\ TermsOf(shown[id].text) \cap TermsOf(text) # {}
         /\ c = {} => \A id \in DOMAIN shown : TermsOf(shown[id].text) \cap TermsOf(text) = {}
         /\ \A id \in DOMAIN shown :
              /\ shown[id].text = text /\ TermsOf(text) # {}
              /\ \E t \in TermsOf(text) : Cardinality(LinesWith(t)) <= Budget
              => id \in c
<1> DEFINE Q == QueryTerms(text)
           n == Cardinality(Q)
<1>1. /\ IsFiniteSet(Q)
      /\ \A k \in Q : \E t \in TermsOf(text) :
           /\ k \in DOMAIN index.postings
           /\ Posting(index.postings[k], Having(shown, t)) /\ Having(shown, t) # {}
      /\ \A t \in TermsOf(text) : Having(shown, t) # {} =>
           /\ t \in DOMAIN index.termIds /\ index.termIds[t] \in Q
           /\ Posting(index.postings[index.termIds[t]], Having(shown, t))
  BY QueryTermsFacts
<1>2. ASSUME NEW id \in DOMAIN shown, NEW t \in TermsOf(shown[id].text)
      PROVE  id \in Having(shown, t)
  BY DEF Having
<1>3. CASE Q = {}
  <2>1. c = {}
    BY <1>3 DEF CandidateSets
  <2>2. \A id \in DOMAIN shown : TermsOf(shown[id].text) \cap TermsOf(text) = {}
    BY <1>1, <1>2, <1>3
  <2>3. \A id \in DOMAIN shown : ~(shown[id].text = text /\ TermsOf(text) # {})
    BY <2>2
  <2> QED  BY <2>1, <2>2, <2>3
<1>4. CASE Q # {}
  <2>1. PICK s \in Orders(text) : c = Collect(s)
    BY <1>4 DEF CandidateSets
  <2>2. /\ n \in Nat /\ s \in [1 .. n -> Q]
        /\ \A k \in Q : \E i \in 1 .. n : s[i] = k
        /\ \A i \in 1 .. n : 1 < i => PostingSize(s[1]) <= PostingSize(s[i])
    BY <1>1, OrderFacts
  <2> HIDE DEF n
  <2>3. 1 \in 1 .. n /\ n \in Nat \ {0}
    BY <1>4, <2>2
  <2>4. Q \subseteq DOMAIN index.postings
    BY DEF QueryTerms
  <2>5. s \in [1 .. n -> DOMAIN index.postings]
    BY <2>2, <2>4
  <2>6. \A k \in DOMAIN index.postings :
          index.postings[k] \in Seq(LineIds) /\ index.postings[k] # << >>
    <3>1. Posted(index, shown)
      BY DEF GoodIndex, Good
    <3> SUFFICES ASSUME NEW k \in DOMAIN index.postings
                 PROVE  index.postings[k] \in Seq(LineIds) /\ index.postings[k] # << >>
      OBVIOUS
    <3>2. PICK t \in DOMAIN index.termIds : k = index.termIds[t]
      BY <3>1 DEF Posted
    <3>3. Posting(index.postings[k], Having(shown, t)) /\ Having(shown, t) # {}
      BY <3>1, <3>2 DEF Posted
    <3> QED  BY <3>3, NotEmptyPosting DEF Posting
  <2>7. /\ WithTerm({}, s[1]) \subseteq c
        /\ \A id \in c : \E i \in 1 .. n : id \in ToSet(index.postings[s[i]])
    BY <2>1, <2>3, <2>5, <2>6, Collected
  <2> HIDE DEF Q
  <2>8. s[1] \in Q /\ s[1] \in DOMAIN index.postings
    BY <2>2, <2>3, <2>5
  <2>9. /\ WithTerm({}, s[1]) # {}
        /\ PostingSize(s[1]) <= Budget => WithTerm({}, s[1]) = ToSet(index.postings[s[1]])
    BY <2>6, <2>8, WithTermFacts
  <2>10. ASSUME NEW id \in c
         PROVE  id \in DOMAIN shown /\ TermsOf(shown[id].text) \cap TermsOf(text) # {}
    <3>1. PICK i \in 1 .. n : id \in ToSet(index.postings[s[i]])
      BY <2>7
    <3>2. PICK t \in TermsOf(text) : Posting(index.postings[s[i]], Having(shown, t))
      BY <1>1, <2>2
    <3>3. id \in Having(shown, t)
      BY <3>1, <3>2 DEF Posting
    <3> QED  BY <3>3 DEF Having
  <2>11. ASSUME NEW id \in DOMAIN shown, shown[id].text = text,
                NEW t \in TermsOf(text), Cardinality(LinesWith(t)) <= Budget
         PROVE  id \in c
    <3>1. id \in Having(shown, t) /\ LinesWith(t) = Having(shown, t)
      BY <2>11 DEF Having, LinesWith
    <3>2. index.termIds[t] \in Q /\ Posting(index.postings[index.termIds[t]], Having(shown, t))
      BY <1>1, <3>1
    <3>3. PostingSize(index.termIds[t]) <= Budget
      BY <2>11, <3>1, <3>2, PostingLength DEF PostingSize
    <3>4. PICK i \in 1 .. n : s[i] = index.termIds[t]
      BY <2>2, <3>2
    <3>5. PostingSize(s[1]) <= Budget
      <4>1. PostingSize(s[1]) \in Nat /\ PostingSize(s[i]) \in Nat /\ Budget \in Nat
        BY <2>5, <2>6, <2>8, SearchAssumption DEF PostingSize
      <4>2. i = 1 \/ 1 < i
        BY <2>2
      <4>3. i = 1 => PostingSize(s[1]) <= Budget
        BY <3>3, <3>4
      <4>4. 1 < i => PostingSize(s[1]) <= PostingSize(s[i]) /\ PostingSize(s[i]) <= Budget
        BY <2>2, <3>3, <3>4
      <4> QED  BY <4>1, <4>2, <4>3, <4>4
    <3>6. PICK u \in TermsOf(text) : Posting(index.postings[s[1]], Having(shown, u))
      BY <1>1, <2>8
    <3>7. id \in ToSet(index.postings[s[1]])
      BY <2>11, <3>6 DEF Posting, Having
    <3> QED  BY <2>7, <2>9, <3>5, <3>7
  <2>12. c # {}
    BY <2>7, <2>9
  <2> QED  BY <2>10, <2>11, <2>12
<1> QED  BY <1>3, <1>4

\* What is scored is related to the query, and not without the best of it: a
\* line with the query's own text is scored whenever the rarest of its terms is
\* on no more lines than the budget.
THEOREM CandidatesAlwaysRight == Spec => []CandidatesRight
<1>1. GoodIndex => CandidatesRight
  BY CandidatesExact DEF CandidatesRight, CandidatesShareTerm, ExactWithinBudget
<1> QED  BY <1>1, GoodAlways, PTL
=============================================================================
