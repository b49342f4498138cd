----------------------------- MODULE QueueFacts ------------------------------
(***************************************************************************)
(* What the queue operations return, for queues of any length, and what a  *)
(* recursion over the naturals computes.                                   *)
(***************************************************************************)
EXTENDS ProcQueues, FiniteSetTheorems, SequenceTheorems, TLAPS

\* Positions of a set are ranked 1, 2, ...: each rank belongs to one of them.
LEMMA EveryRankTaken ==
  ASSUME NEW N \in SUBSET Nat, IsFiniteSet(N)
  PROVE  /\ Cardinality(N) \in Nat
         /\ \A i \in N : Rank(i, N) \in 1..Cardinality(N)
         /\ \A i, j \in N : Rank(i, N) = Rank(j, N) => i = j
         /\ \A n \in 1..Cardinality(N) : \E i \in N : Rank(i, N) = n
<1> DEFINE UpTo(i) == {j \in N : j <= i}
<1>1. \A i \in N : /\ IsFiniteSet(UpTo(i))
                   /\ Cardinality(UpTo(i)) \in Nat
                   /\ Cardinality(UpTo(i)) <= Cardinality(N)
                   /\ Cardinality(UpTo(i)) # 0
  BY FS_Subset, FS_CardinalityType, FS_EmptySet
<1>2. Cardinality(N) \in Nat
  BY FS_CardinalityType
<1>3. \A i \in N : Rank(i, N) \in 1..Cardinality(N)
  BY <1>1, <1>2 DEF Rank
<1>4. ASSUME NEW i \in N, NEW j \in N, i < j
      PROVE  Rank(i, N) # Rank(j, N)
  <2>1. UpTo(i) \subseteq UpTo(j) /\ UpTo(i) # UpTo(j)
    <3>1. j \in UpTo(j) /\ j \notin UpTo(i)
      BY <1>4
    <3>2. \A k \in N : k <= i => k <= j
      BY <1>4
    <3> QED  BY <3>1, <3>2
  <2>2. Cardinality(UpTo(j)) # Cardinality(UpTo(i))
    BY <1>1, <2>1, FS_Subset
  <2> QED  BY <2>2 DEF Rank
<1>5. \A i, j \in N : Rank(i, N) = Rank(j, N) => i = j
  BY <1>4
<1>6. ASSUME NEW n \in 1..Cardinality(N)
      PROVE  \E i \in N : Rank(i, N) = n
  <2> DEFINE f == [i \in N |-> Rank(i, N)]
             T == 1..Cardinality(N)
  <2>1. f \in Injection(N, T)
    BY <1>3, <1>5 DEF Injection, IsInjective
  <2>2. IsFiniteSet(T) /\ Cardinality(T) = Cardinality(N)
    BY <1>2, FS_Interval
  <2>3. f \in Surjection(N, T)
    BY <2>1, <2>2, FS_Injection
  <2> QED  BY <2>3 DEF Surjection
<1> QED  BY <1>2, <1>3, <1>5, <1>6

\* A set of positions has a first one: what unlockPcbDevNo() and popMessage()
\* find when they walk a list from its head.
LEMMA FirstPosition ==
  ASSUME NEW N \in SUBSET Nat, N # {}
  PROVE  Min(N) \in N /\ \A i \in N : Min(N) <= i
<1>1. PICK n \in N : TRUE
  OBVIOUS
<1> DEFINE M == {i \in N : i <= n}
<1>2. M \in SUBSET Nat /\ IsFiniteSet(M) /\ n \in M
  <2>1. n \in Nat /\ n <= n
    OBVIOUS
  <2>2. M \in SUBSET Nat /\ \A i \in M : i <= n
    OBVIOUS
  <2>3. IsFiniteSet(M)
    BY <2>1, <2>2, FS_BoundedSetOfNaturals
  <2> QED  BY <2>1, <2>2, <2>3
<1>3. Cardinality(M) \in Nat \ {0}
  BY <1>2, FS_CardinalityType, FS_EmptySet
<1>4. PICK m \in M : Rank(m, M) = 1
  BY <1>2, <1>3, EveryRankTaken
<1>5. ASSUME NEW i \in M, i <= m
      PROVE  i = m
  <2>1. IsFiniteSet({j \in M : j <= m}) /\ i \in {j \in M : j <= m}
                                       /\ m \in {j \in M : j <= m}
    BY <1>2, <1>5, FS_Subset
  <2>2. PICK x : {j \in M : j <= m} = {x}
    BY <1>4, <2>1, FS_Singleton DEF Rank
  <2> QED  BY <2>1, <2>2
<1>6. \A i \in N : m <= i
  BY <1>1, <1>2, <1>5
<1> QED  BY <1>6 DEF Min

-----------------------------------------------------------------------------
\* Induction on naturals: a set of naturals that has 0 and the successor of each of its
\* members has all of them.
LEMMA NatInductive ==
  ASSUME NEW N, 0 \in N, \A n \in Nat : n \in N => n + 1 \in N
  PROVE  Nat \subseteq N
<1> SUFFICES ASSUME Nat \ N # {} PROVE FALSE
  OBVIOUS
<1> DEFINE m == Min(Nat \ N)
<1>1. m \in Nat /\ m \notin N /\ \A i \in Nat \ N : m <= i
  BY FirstPosition
<1> HIDE DEF m
<1>2. m # 0 /\ m - 1 \in Nat
  BY <1>1
<1>3. m - 1 \in N
  BY <1>1, <1>2
<1> QED
  BY <1>1, <1>2, <1>3

\* f starts at start and takes the step Step[n] from f[n]: what a recursive function of
\* n does whose values are in S.
Iterates(f, S, start, Step) ==
  /\ f \in [Nat -> S] /\ f[0] = start
  /\ \A n \in Nat : f[n + 1] = Step[n][f[n]]

\* There is such a function: each run of n steps can go on, and two of them agree.
LEMMA RecursionExists ==
  ASSUME NEW S, NEW a \in S, NEW G \in [Nat -> [S -> S]]
  PROVE  \E f : Iterates(f, S, a, G)
<1> DEFINE Runs(n) == {g \in [0..n -> S] : g[0] = a /\ \A i \in 0..(n - 1) : g[i + 1] = G[i][g[i]]}
           N       == {n \in Nat : Runs(n) # {}}
<1>1. Nat \subseteq N
  <2>1. [i \in 0..0 |-> a] \in Runs(0)
    OBVIOUS
  <2>2. 0 \in N
    BY <2>1
  <2>3. ASSUME NEW n \in Nat, n \in N
        PROVE  n + 1 \in N
    <3>1. PICK g \in Runs(n) : TRUE
      BY <2>3
    <3> DEFINE k == [i \in 0..(n + 1) |-> IF i = n + 1 THEN G[n][g[n]] ELSE g[i]]
    <3>2. g \in [0..n -> S] /\ g[n] \in S /\ G[n][g[n]] \in S
      BY <3>1
    <3>3. k \in [0..(n + 1) -> S]
      BY <3>2
    <3>4. k[0] = a
      BY <3>1
    <3>5. \A i \in 0..n : k[i + 1] = G[i][k[i]]
      BY <3>1, <3>2
    <3>6. k \in Runs(n + 1)
      BY <3>3, <3>4, <3>5
    <3> HIDE DEF Runs, k
    <3> QED
      BY <3>6
  <2> HIDE DEF N
  <2> QED
    BY <2>2, <2>3, NatInductive
<1>2. \A n \in Nat : \A g \in Runs(n), k \in Runs(n + 1) : g[n] = k[n]
  <2> SUFFICES ASSUME NEW n \in Nat, NEW g \in Runs(n), NEW k \in Runs(n + 1)
               PROVE  g[n] = k[n]
    OBVIOUS
  <2> DEFINE M == {i \in Nat : i <= n => g[i] = k[i]}
  <2>1. 0 \in M
    OBVIOUS
  <2>2. ASSUME NEW i \in Nat, i \in M PROVE i + 1 \in M
    <3> SUFFICES ASSUME i + 1 <= n PROVE g[i + 1] = k[i + 1]
      BY DEF M
    <3>0. i <= n => g[i] = k[i]
      BY <2>2
    <3>1. i \in 0..(n - 1) /\ i \in 0..(n + 1 - 1) /\ g[i] = k[i]
      BY <3>0
    <3>2. g[i + 1] = G[i][g[i]] /\ k[i + 1] = G[i][k[i]]
      BY <3>1
    <3> QED
      BY <3>1, <3>2
  <2> HIDE DEF M
  <2>3. n \in M
    BY <2>1, <2>2, NatInductive
  <2> QED
    BY <2>3 DEF M
<1> DEFINE r == [n \in Nat |-> CHOOSE g \in Runs(n) : TRUE]
           f == [n \in Nat |-> r[n][n]]
<1>3. \A n \in Nat : r[n] \in Runs(n)
  BY <1>1
<1> HIDE DEF r
<1>4. \A n \in Nat : r[n] \in [0..n -> S] /\ r[n][n] \in S
  BY <1>3
<1>5. f \in [Nat -> S]
  BY <1>4
<1>6. f[0] = a
  BY <1>3
<1>7. ASSUME NEW n \in Nat PROVE f[n + 1] = G[n][f[n]]
  <2>1. r[n + 1][n + 1] = G[n][r[n + 1][n]]
    <3>1. r[n + 1] \in Runs(n + 1)
      BY <1>3
    <3> QED
      BY <3>1
  <2>2. r[n + 1][n] = r[n][n]
    <3>1. n + 1 \in Nat /\ r[n] \in Runs(n) /\ r[n + 1] \in Runs(n + 1)
      BY <1>3
    <3> HIDE DEF Runs
    <3> QED
      BY <1>2, <3>1
  <2> QED
    BY <2>1, <2>2
<1> HIDE DEF f
<1>8. Iterates(f, S, a, G)
  BY <1>5, <1>6, <1>7 DEF Iterates
<1> QED
  BY <1>8

-----------------------------------------------------------------------------
\* outProcQ(): what is left is a queue of the same PCBs but those taken out.
LEMMA WithoutKeepsOthers ==
  ASSUME NEW S, NEW s \in Seq(S), NEW K
  PROVE  /\ Without(s, K) \in Seq(S)
         /\ ToSet(Without(s, K)) = ToSet(s) \ K
<1> DEFINE N == Kept(s, K)
           C(n) == CHOOSE i \in N : Rank(i, N) = n
<1>1. N \in SUBSET Nat /\ IsFiniteSet(N) /\ N \subseteq DOMAIN s
  <2>1. DOMAIN s = 1..Len(s) /\ Len(s) \in Nat
    BY LenProperties
  <2>2. IsFiniteSet(1..Len(s))
    BY <2>1, FS_Interval
  <2>3. N \subseteq 1..Len(s)
    BY <2>1 DEF Kept
  <2> QED  BY <2>1, <2>2, <2>3, FS_Subset
<1>2. Cardinality(N) \in Nat
  BY <1>1, EveryRankTaken
<1>3. \A n \in 1..Cardinality(N) : C(n) \in N /\ Rank(C(n), N) = n
  BY <1>1, EveryRankTaken
<1>4. \A i \in N : Rank(i, N) \in 1..Cardinality(N) /\ C(Rank(i, N)) = i
  BY <1>1, EveryRankTaken
<1>5. Without(s, K) = [n \in 1..Cardinality(N) |-> s[C(n)]]
  BY DEF Without
<1>6. \A i \in N : s[i] \in S /\ s[i] \notin K
  BY <1>1, ElementOfSeq, LenProperties DEF Kept
<1> HIDE DEF N, C
<1>7. Without(s, K) \in Seq(S)
  BY <1>2, <1>3, <1>5, <1>6, IsASeq
<1>8. ToSet(Without(s, K)) = {s[i] : i \in N}
  BY <1>2, <1>3, <1>4, <1>5 DEF ToSet
<1>9. {s[i] : i \in N} = ToSet(s) \ K
  BY DEF ToSet, N, Kept
<1> QED  BY <1>7, <1>8, <1>9

\* insertProcQ() and insertMessage(): the element is there, the others stay.
LEMMA AppendAdds ==
  ASSUME NEW S, NEW s \in Seq(S), NEW e \in S
  PROVE  /\ Append(s, e) \in Seq(S)
         /\ ToSet(Append(s, e)) = ToSet(s) \cup {e}
<1>1. Append(s, e) \in Seq(S)
  BY AppendProperties
<1>2. ToSet(Append(s, e)) \subseteq ToSet(s) \cup {e}
  BY AppendProperties, LenProperties DEF ToSet
<1>3. ToSet(s) \cup {e} \subseteq ToSet(Append(s, e))
  <2>1. ToSet(s) \subseteq ToSet(Append(s, e))
    BY AppendProperties, LenProperties DEF ToSet
  <2>2. e \in ToSet(Append(s, e))
    BY <1>1, AppendProperties, LenProperties DEF ToSet
  <2> QED  BY <2>1, <2>2
<1> QED  BY <1>1, <1>2, <1>3

\* removeProcQ(): the head is taken and the others stay.
LEMMA HeadTaken ==
  ASSUME NEW S, NEW s \in Seq(S), s # <<>>
  PROVE  /\ Head(s) \in S /\ Tail(s) \in Seq(S)
         /\ Head(s) \in ToSet(s)
         /\ ToSet(s) = ToSet(Tail(s)) \cup {Head(s)}
<1>1. Head(s) \in S /\ Tail(s) \in Seq(S) /\ Len(s) \in Nat \ {0}
  BY HeadTailProperties, EmptySeq
<1>2. DOMAIN s = 1..Len(s) /\ DOMAIN Tail(s) = 1..(Len(s) - 1)
  BY HeadTailProperties, LenProperties
<1>3. Head(s) = s[1] /\ \A i \in 1..(Len(s) - 1) : Tail(s)[i] = s[i + 1]
  BY HeadTailProperties
<1>4. Head(s) \in ToSet(s)
  BY <1>1, <1>2, <1>3 DEF ToSet
<1>5. ToSet(Tail(s)) \subseteq ToSet(s)
  BY <1>1, <1>2, <1>3 DEF ToSet
<1>6. ASSUME NEW i \in DOMAIN s, i # 1
      PROVE  s[i] \in ToSet(Tail(s))
  <2>1. i - 1 \in DOMAIN Tail(s) /\ Tail(s)[i - 1] = s[i]
    BY <1>1, <1>2, <1>3, <1>6
  <2> QED  BY <2>1 DEF ToSet
<1>7. ToSet(s) \subseteq ToSet(Tail(s)) \cup {Head(s)}
  BY <1>3, <1>6 DEF ToSet
<1> QED  BY <1>1, <1>4, <1>5, <1>7

\* The pseudo-clock queue moved behind the ready queue, one PCB at a time.
LEMMA ConcatAdds ==
  ASSUME NEW S, NEW s \in Seq(S), NEW t \in Seq(S)
  PROVE  /\ s \o t \in Seq(S)
         /\ ToSet(s \o t) = ToSet(s) \cup ToSet(t)
<1>1. s \o t \in Seq(S) /\ Len(s \o t) = Len(s) + Len(t)
  BY ConcatProperties
<1>2. \A i \in 1..Len(s) + Len(t) :
        (s \o t)[i] = IF i <= Len(s) THEN s[i] ELSE t[i - Len(s)]
  BY ConcatProperties
<1>3. /\ DOMAIN s = 1..Len(s) /\ DOMAIN t = 1..Len(t)
      /\ DOMAIN (s \o t) = 1..Len(s) + Len(t)
      /\ Len(s) \in Nat /\ Len(t) \in Nat
  BY <1>1, LenProperties
<1>4. \A i \in DOMAIN s : i \in DOMAIN (s \o t) /\ (s \o t)[i] = s[i]
  BY <1>2, <1>3
<1>5. \A i \in DOMAIN t :
        Len(s) + i \in DOMAIN (s \o t) /\ (s \o t)[Len(s) + i] = t[i]
  BY <1>2, <1>3
<1>6. \A i \in DOMAIN (s \o t) :
        \/ i \in DOMAIN s /\ (s \o t)[i] = s[i]
        \/ i - Len(s) \in DOMAIN t /\ (s \o t)[i] = t[i - Len(s)]
  BY <1>2, <1>3
<1>7. ToSet(s) \cup ToSet(t) \subseteq ToSet(s \o t)
  BY <1>4, <1>5 DEF ToSet
<1>8. ToSet(s \o t) \subseteq ToSet(s) \cup ToSet(t)
  BY <1>6 DEF ToSet
<1> QED  BY <1>1, <1>7, <1>8

\* popMessage(): an inbox with one message taken out is an inbox.
LEMMA RemoveAtIsSeq ==
  ASSUME NEW S, NEW s \in Seq(S), NEW i \in DOMAIN s
  PROVE  RemoveAt(s, i) \in Seq(S)
<1>1. Len(s) \in Nat /\ DOMAIN s = 1..Len(s) /\ \A j \in 1..Len(s) : s[j] \in S
  BY LenProperties, ElementOfSeq
<1>2. SubSeq(s, 1, i - 1) \in Seq(S)
  BY <1>1, SubSeqProperties
<1>3. SubSeq(s, i + 1, Len(s)) \in Seq(S)
  BY <1>1, SubSeqProperties
<1> QED  BY <1>2, <1>3, ConcatProperties DEF RemoveAt

\* What follows the message taken out moves up by one.
LEMMA RemoveAtMoves ==
  ASSUME NEW S, NEW s \in Seq(S), NEW i \in DOMAIN s
  PROVE  /\ Len(RemoveAt(s, i)) = Len(s) - 1
         /\ \A n \in 1..Len(s) - 1 :
              RemoveAt(s, i)[n] = IF n < i THEN s[n] ELSE s[n + 1]
<1>1. Len(s) \in Nat /\ DOMAIN s = 1..Len(s) /\ i \in 1..Len(s)
  BY LenProperties
<1> DEFINE a == SubSeq(s, 1, i - 1)
           b == SubSeq(s, i + 1, Len(s))
<1>2. /\ a \in Seq(S) /\ Len(a) = i - 1
      /\ \A n \in 1..i - 1 : a[n] = s[n]
  BY <1>1, SubSeqProperties
<1>3. /\ b \in Seq(S) /\ Len(b) = Len(s) - i
      /\ \A n \in 1..Len(s) - i : b[n] = s[n + i]
  BY <1>1, SubSeqProperties
<1>4. RemoveAt(s, i) = a \o b
  BY DEF RemoveAt
<1> HIDE DEF a, b
<1>5. /\ Len(a \o b) = Len(a) + Len(b)
      /\ \A n \in 1..Len(a) + Len(b) :
           (a \o b)[n] = IF n <= Len(a) THEN a[n] ELSE b[n - Len(a)]
  BY <1>2, <1>3, ConcatProperties
<1>6. ASSUME NEW n \in 1..Len(s) - 1
      PROVE  (a \o b)[n] = IF n < i THEN s[n] ELSE s[n + 1]
  <2>1. CASE n < i
    BY <1>1, <1>2, <1>3, <1>5, <2>1
  <2>2. CASE ~(n < i)
    <3>1. n - (i - 1) \in 1..Len(s) - i /\ (n - (i - 1)) + i = n + 1
      BY <1>1, <2>2
    <3>2. (a \o b)[n] = b[n - (i - 1)]
      BY <1>1, <1>2, <1>3, <1>5, <2>2
    <3> QED  BY <1>3, <2>2, <3>1, <3>2
  <2> QED  BY <2>1, <2>2
<1> QED  BY <1>1, <1>2, <1>3, <1>4, <1>5, <1>6
-----------------------------------------------------------------------------
(* How often a value occurs in a queue *)

Once(s, v)   == \E i \in DOMAIN s : s[i] = v
Twice(s, v)  == \E i, j \in DOMAIN s : i < j /\ s[i] = v /\ s[j] = v
Thrice(s, v) == \E i, j, k \in DOMAIN s :
                  i < j /\ j < k /\ s[i] = v /\ s[j] = v /\ s[k] = v

\* An element added at the tail occurs once more, the others as often.
LEMMA AppendCounts ==
  ASSUME NEW S, NEW s \in Seq(S), NEW e \in S, NEW v
  PROVE  /\ Once(Append(s, e), v) => Once(s, v) \/ e = v
         /\ Twice(Append(s, e), v) => Twice(s, v) \/ (e = v /\ Once(s, v))
         /\ Thrice(Append(s, e), v) => Thrice(s, v) \/ (e = v /\ Twice(s, v))
<1>1. /\ Len(s) \in Nat /\ DOMAIN s = 1..Len(s)
      /\ DOMAIN Append(s, e) = 1..Len(s) + 1
      /\ Append(s, e)[Len(s) + 1] = e
      /\ \A n \in 1..Len(s) : Append(s, e)[n] = s[n]
  BY LenProperties, AppendProperties
<1>2. \A n \in DOMAIN Append(s, e) : n \in DOMAIN s \/ n = Len(s) + 1
  BY <1>1
<1> QED  BY <1>1, <1>2 DEF Once, Twice, Thrice

\* Of an element taken out there was one more; of the others as many.
LEMMA RemoveCounts ==
  ASSUME NEW S, NEW s \in Seq(S), NEW i \in DOMAIN s, NEW v
  PROVE  /\ Once(RemoveAt(s, i), v) => Once(s, v)
         /\ Twice(RemoveAt(s, i), v) => Twice(s, v)
         /\ Thrice(RemoveAt(s, i), v) => Thrice(s, v)
         /\ s[i] = v /\ Once(RemoveAt(s, i), v) => Twice(s, v)
         /\ s[i] = v /\ Twice(RemoveAt(s, i), v) => Thrice(s, v)
<1> DEFINE t == RemoveAt(s, i)
           From(n) == IF n < i THEN n ELSE n + 1
<1>1. Len(s) \in Nat /\ DOMAIN s = 1..Len(s) /\ i \in 1..Len(s)
  BY LenProperties
<1>2. t \in Seq(S) /\ Len(t) = Len(s) - 1 /\ DOMAIN t = 1..Len(s) - 1
  BY <1>1, RemoveAtIsSeq, RemoveAtMoves, LenProperties
<1>3. \A n \in DOMAIN t : From(n) \in DOMAIN s /\ From(n) # i /\ t[n] = s[From(n)]
  <2>1. \A n \in 1..Len(s) - 1 : t[n] = IF n < i THEN s[n] ELSE s[n + 1]
    BY RemoveAtMoves
  <2>2. \A n \in 1..Len(s) - 1 : From(n) \in 1..Len(s) /\ From(n) # i
    BY <1>1
  <2>3. \A n \in 1..Len(s) - 1 : t[n] = s[From(n)]
    BY <2>1
  <2> HIDE DEF t, From
  <2> QED  BY <1>1, <1>2, <2>2, <2>3
<1>4. \A m, n \in DOMAIN t : m < n => From(m) < From(n)
  BY <1>1, <1>2
<1> HIDE DEF t, From
<1>5. Once(t, v) => Once(s, v)
  BY <1>3 DEF Once
<1>6. Twice(t, v) => Twice(s, v)
  BY <1>3, <1>4 DEF Twice
<1>7. Thrice(t, v) => Thrice(s, v)
  BY <1>3, <1>4 DEF Thrice
<1>8. ASSUME s[i] = v, Once(t, v) PROVE Twice(s, v)
  <2>1. PICK n \in DOMAIN t : t[n] = v
    BY <1>8 DEF Once
  <2>2. From(n) \in DOMAIN s /\ From(n) # i /\ s[From(n)] = v
    BY <1>3, <2>1
  <2>3. From(n) < i \/ i < From(n)
    BY <1>1, <2>2
  <2> QED  BY <1>8, <2>2, <2>3 DEF Twice
<1>9. ASSUME s[i] = v, Twice(t, v) PROVE Thrice(s, v)
  <2>1. PICK m, n \in DOMAIN t : m < n /\ t[m] = v /\ t[n] = v
    BY <1>9 DEF Twice
  <2>2. /\ From(m) \in DOMAIN s /\ From(m) # i /\ s[From(m)] = v
        /\ From(n) \in DOMAIN s /\ From(n) # i /\ s[From(n)] = v
        /\ From(m) < From(n)
    BY <1>3, <1>4, <2>1
  <2>3. \/ i < From(m)
        \/ From(m) < i /\ i < From(n)
        \/ From(n) < i
    BY <1>1, <2>2
  <2> QED  BY <1>9, <2>2, <2>3 DEF Thrice
<1> QED  BY <1>5, <1>6, <1>7, <1>8, <1>9 DEF t

\* The queue behind its head is the queue with its first element taken out.
LEMMA TailIsRemoval ==
  ASSUME NEW S, NEW s \in Seq(S), s # <<>>
  PROVE  1 \in DOMAIN s /\ Head(s) = s[1] /\ Tail(s) = RemoveAt(s, 1)
<1>1. Len(s) \in Nat /\ DOMAIN s = 1..Len(s) /\ 1 \in DOMAIN s
  BY LenProperties, EmptySeq
<1>2. /\ Tail(s) \in Seq(S) /\ Len(Tail(s)) = Len(s) - 1
      /\ \A n \in 1..Len(s) - 1 : Tail(s)[n] = s[n + 1]
  BY <1>1, HeadTailProperties
<1>3. /\ RemoveAt(s, 1) \in Seq(S) /\ Len(RemoveAt(s, 1)) = Len(s) - 1
      /\ \A n \in 1..Len(s) - 1 : RemoveAt(s, 1)[n] = s[n + 1]
  <2>1. RemoveAt(s, 1) \in Seq(S)
    BY <1>1, RemoveAtIsSeq
  <2>2. /\ Len(RemoveAt(s, 1)) = Len(s) - 1
        /\ \A n \in 1..Len(s) - 1 :
             RemoveAt(s, 1)[n] = IF n < 1 THEN s[n] ELSE s[n + 1]
    BY <1>1, RemoveAtMoves
  <2>3. \A n \in 1..Len(s) - 1 : ~(n < 1)
    BY <1>1
  <2> QED  BY <2>1, <2>2, <2>3
<1>4. Tail(s) = RemoveAt(s, 1)
  BY <1>1, <1>2, <1>3, SeqEqual
<1> QED  BY <1>1, <1>4, HeadTailProperties
-----------------------------------------------------------------------------
(* Queues that hold no PCB twice *)

\* insertProcQ() of a PCB that is not in the queue.
LEMMA AppendDistinct ==
  ASSUME NEW S, NEW s \in Seq(S), NEW e \in S, IsInjective(s), e \notin ToSet(s)
  PROVE  IsInjective(Append(s, e))
<1> DEFINE t == Append(s, e)
<1>1. /\ Len(s) \in Nat /\ DOMAIN s = 1..Len(s)
      /\ DOMAIN t = 1..Len(s) + 1
      /\ t[Len(s) + 1] = e
      /\ \A n \in 1..Len(s) : t[n] = s[n]
  BY LenProperties, AppendProperties
<1>2. \A n \in DOMAIN s : s[n] # e
  BY DEF ToSet
<1> HIDE DEF t
<1>3. \A n \in DOMAIN t : n \in DOMAIN s \/ n = Len(s) + 1
  BY <1>1
<1>4. IsInjective(t)
  BY <1>1, <1>2, <1>3 DEF IsInjective
<1> QED  BY <1>4 DEF t

\* removeProcQ(): the head is not in what it leaves.
LEMMA TailDistinct ==
  ASSUME NEW S, NEW s \in Seq(S), s # <<>>, IsInjective(s)
  PROVE  IsInjective(Tail(s)) /\ Head(s) \notin ToSet(Tail(s))
<1>1. /\ Len(s) \in Nat \ {0} /\ DOMAIN s = 1..Len(s) /\ Head(s) = s[1]
      /\ DOMAIN Tail(s) = 1..(Len(s) - 1)
      /\ \A i \in 1..(Len(s) - 1) : Tail(s)[i] = s[i + 1]
  BY HeadTailProperties, EmptySeq, LenProperties
<1>2. \A i \in DOMAIN Tail(s) :
        i + 1 \in DOMAIN s /\ i + 1 # 1 /\ Tail(s)[i] = s[i + 1]
  BY <1>1
<1>3. \A i, j \in DOMAIN Tail(s) : i + 1 = j + 1 => i = j
  BY <1>1
<1>4. 1 \in DOMAIN s
  BY <1>1
<1>5. IsInjective(Tail(s))
  BY <1>2, <1>3 DEF IsInjective
<1>6. \A i \in DOMAIN Tail(s) : Tail(s)[i] # s[1]
  BY <1>2, <1>4 DEF IsInjective
<1> QED  BY <1>1, <1>5, <1>6 DEF ToSet

\* outProcQ(): what is left is in the queue's order, and so without repeats.
LEMMA WithoutDistinct ==
  ASSUME NEW S, NEW s \in Seq(S), NEW K, IsInjective(s)
  PROVE  IsInjective(Without(s, K))
<1> DEFINE N == Kept(s, K)
           C(n) == CHOOSE i \in N : Rank(i, N) = n
<1>1. N \in SUBSET Nat /\ IsFiniteSet(N) /\ N \subseteq DOMAIN s
  <2>1. DOMAIN s = 1..Len(s) /\ Len(s) \in Nat
    BY LenProperties
  <2>2. IsFiniteSet(1..Len(s))
    BY <2>1, FS_Interval
  <2>3. N \subseteq 1..Len(s)
    BY <2>1 DEF Kept
  <2> QED  BY <2>1, <2>2, <2>3, FS_Subset
<1>2. \A n \in 1..Cardinality(N) : C(n) \in N /\ Rank(C(n), N) = n
  BY <1>1, EveryRankTaken
<1>3. Without(s, K) = [n \in 1..Cardinality(N) |-> s[C(n)]]
  BY DEF Without
<1> HIDE DEF N, C
<1>4. ASSUME NEW m \in 1..Cardinality(N), NEW n \in 1..Cardinality(N), s[C(m)] = s[C(n)]
      PROVE  m = n
  <2>1. C(m) = C(n)
    BY <1>1, <1>2, <1>4 DEF IsInjective
  <2> QED  BY <1>2, <2>1
<1> QED  BY <1>3, <1>4 DEF IsInjective

\* One queue moved behind another that shares no PCB with it.
LEMMA ConcatDistinct ==
  ASSUME NEW S, NEW s \in Seq(S), NEW t \in Seq(S), IsInjective(s), IsInjective(t),
         \A e \in S : ~(e \in ToSet(s) /\ e \in ToSet(t))
  PROVE  IsInjective(s \o t)
<1>1. /\ s \o t \in Seq(S) /\ Len(s \o t) = Len(s) + Len(t)
      /\ \A i \in 1..Len(s) + Len(t) :
           (s \o t)[i] = IF i <= Len(s) THEN s[i] ELSE t[i - Len(s)]
  BY ConcatProperties
<1>2. /\ DOMAIN s = 1..Len(s) /\ DOMAIN t = 1..Len(t)
      /\ DOMAIN (s \o t) = 1..Len(s) + Len(t)
      /\ Len(s) \in Nat /\ Len(t) \in Nat
  BY <1>1, LenProperties
<1>3. \A i \in DOMAIN (s \o t) :
        \/ i \in DOMAIN s /\ (s \o t)[i] = s[i]
        \/ /\ i \notin DOMAIN s
           /\ i - Len(s) \in DOMAIN t /\ (s \o t)[i] = t[i - Len(s)]
  BY <1>1, <1>2
<1>4. \A i, j \in DOMAIN (s \o t) : i - Len(s) = j - Len(s) => i = j
  BY <1>2
<1>5. \A i \in DOMAIN s, j \in DOMAIN t : s[i] # t[j]
  <2>1. \A i \in DOMAIN s : s[i] \in S /\ s[i] \in ToSet(s)
    BY <1>2, ElementOfSeq DEF ToSet
  <2>2. \A j \in DOMAIN t : t[j] \in ToSet(t)
    BY DEF ToSet
  <2> QED  BY <2>1, <2>2
<1> QED  BY <1>3, <1>4, <1>5 DEF IsInjective

\* Such a queue is as long as the set of its PCBs is large.
LEMMA LengthCounts ==
  ASSUME NEW S, NEW s \in Seq(S), IsInjective(s)
  PROVE  /\ IsFiniteSet(ToSet(s))
         /\ Cardinality(ToSet(s)) = Len(s)
<1>1. Len(s) \in Nat /\ DOMAIN s = 1..Len(s) /\ s \in [1..Len(s) -> ToSet(s)]
  BY LenProperties DEF ToSet
<1>2. s \in Bijection(1..Len(s), ToSet(s))
  BY <1>1 DEF Bijection, Injection, Surjection, ToSet
<1>3. IsFiniteSet(1..Len(s)) /\ Cardinality(1..Len(s)) = Len(s)
  BY <1>1, FS_Interval
<1>4. ExistsBijection(1..Len(s), ToSet(s))
  BY <1>2 DEF ExistsBijection
<1> QED  BY <1>3, <1>4, FS_Bijection

-----------------------------------------------------------------------------
\* f gives the positions in s of the elements of t, which are those of s outside K, in
\* their order.
Keeps(f, s, K, t) ==
  /\ f \in [1..Len(t) -> Nat]
  /\ \A n \in 1..Len(t) : f[n] \in Kept(s, K) /\ t[n] = s[f[n]]
  /\ \A m, n \in 1..Len(t) : m < n => f[m] < f[n]
  /\ \A i \in Kept(s, K) : \E n \in 1..Len(t) : f[n] = i

\* outProcQ() is known by what it keeps and in which order.
LEMMA WithoutIs ==
  ASSUME NEW S, NEW s \in Seq(S), NEW K, NEW t \in Seq(S), NEW f, Keeps(f, s, K, t)
  PROVE  t = Without(s, K)
<1> DEFINE N == Kept(s, K)
           c == Len(t)
           UpTo(n) == {j \in N : j <= f[n]}
<1>1. N \in SUBSET Nat /\ IsFiniteSet(N)
  <2>1. DOMAIN s = 1..Len(s) /\ Len(s) \in Nat
    BY LenProperties
  <2>2. IsFiniteSet(1..Len(s))
    BY <2>1, FS_Interval
  <2> QED
    BY <2>1, <2>2, FS_Subset DEF Kept
<1>2. c \in Nat /\ DOMAIN t = 1..c
  BY LenProperties
<1>3. /\ f \in [1..c -> Nat]
      /\ \A n \in 1..c : f[n] \in N /\ t[n] = s[f[n]]
      /\ \A m, n \in 1..c : m < n => f[m] < f[n]
      /\ \A i \in N : \E n \in 1..c : f[n] = i
  BY DEF Keeps
<1> HIDE DEF N, c
<1>4. \A m, n \in 1..c : f[m] <= f[n] <=> m <= n
  <2> TAKE m, n \in 1..c
  <2>1. m \in Int /\ n \in Int /\ f[m] \in Int /\ f[n] \in Int
    BY <1>2, <1>3
  <2> QED
    BY <1>3, <2>1
<1>5. ASSUME NEW n \in 1..c
      PROVE  Rank(f[n], N) = n
  <2> DEFINE g == [i \in 1..n |-> f[i]]
  <2>1. n \in Nat /\ \A i \in 1..n : i \in 1..c /\ i <= n
    BY <1>2
  <2>2. g \in [1..n -> UpTo(n)]
    BY <1>3, <1>4, <2>1
  <2>3. \A i, j \in 1..n : g[i] = g[j] => i = j
    <3> TAKE i, j \in 1..n
    <3>1. f[i] = f[j] => i <= j /\ j <= i
      <4>1. f[i] \in Nat /\ f[j] \in Nat
        BY <1>3, <2>1
      <4> QED
        BY <1>4, <2>1, <4>1
    <3> QED
      BY <2>1, <3>1
  <2>4. \A j \in UpTo(n) : \E i \in 1..n : g[i] = j
    <3> TAKE j \in UpTo(n)
    <3>1. PICK i \in 1..c : f[i] = j
      BY <1>3
    <3>2. i <= n
      BY <1>4, <3>1
    <3>3. i \in 1..n
      BY <1>2, <3>2
    <3> QED
      BY <3>1, <3>3
  <2> HIDE DEF g, UpTo
  <2>5. g \in Bijection(1..n, UpTo(n))
    BY <2>2, <2>3, <2>4 DEF Bijection, Injection, Surjection, IsInjective
  <2>6. IsFiniteSet(1..n) /\ Cardinality(1..n) = n
    BY <2>1, FS_Interval
  <2>8. ExistsBijection(1..n, UpTo(n))
    BY <2>5 DEF ExistsBijection
  <2>7. Cardinality(UpTo(n)) = n
    BY <2>6, <2>8, FS_Bijection
  <2> QED
    BY <2>7 DEF Rank, UpTo
<1>6. \A i, j \in N : Rank(i, N) = Rank(j, N) => i = j
  BY <1>1, EveryRankTaken
<1>7. Cardinality(N) = c
  <2>1. \A i, j \in 1..c : f[i] = f[j] => i = j
    BY <1>5
  <2>2. f \in Bijection(1..c, N)
    BY <1>3, <2>1 DEF Bijection, Injection, Surjection, IsInjective
  <2>3. IsFiniteSet(1..c) /\ Cardinality(1..c) = c
    BY <1>2, FS_Interval
  <2>4. ExistsBijection(1..c, N)
    BY <2>2 DEF ExistsBijection
  <2> QED
    BY <2>3, <2>4, FS_Bijection
<1>8. \A n \in 1..c : (CHOOSE i \in N : Rank(i, N) = n) = f[n]
  BY <1>3, <1>5, <1>6
<1>9. Without(s, K) = [n \in 1..c |-> s[CHOOSE i \in N : Rank(i, N) = n]]
  BY <1>7 DEF Without, N
<1>10. Without(s, K) = [n \in 1..c |-> t[n]]
  <2>1. \A n \in 1..c : s[CHOOSE i \in N : Rank(i, N) = n] = t[n]
    BY <1>3, <1>8
  <2> QED
    BY <1>9, <2>1
<1> QED
  BY <1>2, <1>10

\* The positions that outProcQ() keeps, in their order.
LEMMA WithoutPositions ==
  ASSUME NEW S, NEW s \in Seq(S), NEW K
  PROVE  /\ Without(s, K) \in Seq(S)
         /\ \E f : Keeps(f, s, K, Without(s, K))
<1> DEFINE N == Kept(s, K)
           c == Cardinality(N)
           f == [n \in 1..c |-> CHOOSE i \in N : Rank(i, N) = n]
           t == Without(s, K)
<1>1. N \in SUBSET Nat /\ IsFiniteSet(N) /\ N \subseteq DOMAIN s
  <2>1. DOMAIN s = 1..Len(s) /\ Len(s) \in Nat
    BY LenProperties
  <2>2. IsFiniteSet(1..Len(s))
    BY <2>1, FS_Interval
  <2> QED
    BY <2>1, <2>2, FS_Subset DEF Kept
<1>2. t \in Seq(S)
  BY WithoutKeepsOthers
<1>3. t = [n \in 1..c |-> s[f[n]]]
  BY DEF Without
<1> HIDE DEF N, t
<1>4. /\ c \in Nat
      /\ \A i \in N : Rank(i, N) \in 1..c
      /\ \A i, j \in N : Rank(i, N) = Rank(j, N) => i = j
      /\ \A n \in 1..c : \E i \in N : Rank(i, N) = n
  BY <1>1, EveryRankTaken
<1>5. Len(t) = c
  <2>1. DOMAIN t = 1..c /\ DOMAIN t = 1..Len(t) /\ Len(t) \in Nat
    BY <1>2, <1>3, LenProperties
  <2> HIDE DEF c
  <2>2. (Len(t) > c => c + 1 \in 1..Len(t)) /\ (c > Len(t) => Len(t) + 1 \in 1..c)
    BY <1>4, <2>1
  <2> QED
    BY <1>4, <2>1, <2>2
<1>6. \A n \in 1..c : f[n] \in N /\ Rank(f[n], N) = n
  BY <1>4
<1>7. \A n \in 1..c : t[n] = s[f[n]]
  BY <1>3
<1>8. f \in [1..c -> Nat]
  BY <1>1, <1>6
<1> HIDE DEF f, c
<1>9. \A m, n \in 1..c : m < n => f[m] < f[n]
  <2> SUFFICES ASSUME NEW m \in 1..c, NEW n \in 1..c, m < n, f[n] <= f[m]
               PROVE  FALSE
    BY <1>4, <1>8
  <2>1. {j \in N : j <= f[n]} \subseteq {j \in N : j <= f[m]}
    <3>1. f[n] \in Int /\ f[m] \in Int
      BY <1>8
    <3>2. \A j \in N : j \in Int
      BY <1>1
    <3> QED
      BY <3>1, <3>2
  <2>2. IsFiniteSet({j \in N : j <= f[m]})
    BY <1>1, FS_Subset
  <2>3. Rank(f[n], N) <= Rank(f[m], N)
    BY <2>1, <2>2, FS_Subset DEF Rank
  <2> QED
    BY <1>4, <1>6, <2>3
<1>10. \A i \in N : \E n \in 1..c : f[n] = i
  BY <1>4, <1>6
<1>11. Keeps(f, s, K, t)
  BY <1>5, <1>6, <1>7, <1>8, <1>9, <1>10 DEF Keeps, N
<1> QED
  BY <1>2, <1>11 DEF t

\* Taking out an element of a queue that has none twice is outProcQ() of it.
LEMMA RemoveAtIsWithout ==
  ASSUME NEW S, NEW s \in Seq(S), NEW p \in DOMAIN s, IsInjective(s)
  PROVE  RemoveAt(s, p) = Without(s, {s[p]})
<1> DEFINE t == RemoveAt(s, p)
           From(n) == IF n < p THEN n ELSE n + 1
           f == [n \in 1..Len(t) |-> From(n)]
<1>1. /\ Len(s) \in Nat /\ DOMAIN s = 1..Len(s) /\ p \in 1..Len(s)
      /\ t \in Seq(S) /\ Len(t) = Len(s) - 1
      /\ \A n \in 1..Len(s) - 1 : t[n] = IF n < p THEN s[n] ELSE s[n + 1]
  BY LenProperties, RemoveAtIsSeq, RemoveAtMoves
<1> HIDE DEF t
<1>2. Kept(s, {s[p]}) = {i \in 1..Len(s) : i # p}
  BY <1>1 DEF Kept, IsInjective
<1>3. f \in [1..Len(t) -> Nat]
  BY <1>1
<1>4. \A n \in 1..Len(t) : f[n] \in Kept(s, {s[p]}) /\ t[n] = s[f[n]]
  <2> TAKE n \in 1..Len(t)
  <2>1. n \in 1..Len(s) - 1 /\ n \in Nat /\ p \in Nat
    BY <1>1
  <2>2. From(n) \in 1..Len(s) /\ From(n) # p
    BY <1>1, <2>1
  <2>3. t[n] = s[From(n)] /\ f[n] = From(n)
    BY <1>1, <2>1
  <2> HIDE DEF From, f
  <2> QED
    BY <1>2, <2>2, <2>3
<1>5. \A m, n \in 1..Len(t) : m < n => f[m] < f[n]
  BY <1>1
<1>6. \A i \in Kept(s, {s[p]}) : \E n \in 1..Len(t) : f[n] = i
  <2> TAKE i \in Kept(s, {s[p]})
  <2>1. i \in 1..Len(s) /\ i # p
    BY <1>2
  <2>2. CASE i < p
    <3>1. i \in 1..Len(t) /\ f[i] = i
      BY <1>1, <2>1, <2>2
    <3> QED
      BY <3>1
  <2>3. CASE i > p
    <3>1. i - 1 \in 1..Len(t) /\ f[i - 1] = i
      BY <1>1, <2>1, <2>3
    <3> QED
      BY <3>1
  <2> QED
    BY <1>1, <2>1, <2>2, <2>3
<1> HIDE DEF f
<1>7. Keeps(f, s, {s[p]}, t)
  BY <1>3, <1>4, <1>5, <1>6 DEF Keeps
<1>8. t = Without(s, {s[p]})
  BY <1>1, <1>7, WithoutIs
<1> QED
  BY <1>8 DEF t

\* Taking out what is not there changes nothing.
LEMMA WithoutNone ==
  ASSUME NEW S, NEW s \in Seq(S), NEW K, \A x \in K : x \notin ToSet(s)
  PROVE  Without(s, K) = s
<1>1. Len(s) \in Nat /\ DOMAIN s = 1..Len(s)
  BY LenProperties
<1> DEFINE f == [n \in 1..Len(s) |-> n]
<1>2. Kept(s, K) = 1..Len(s)
  BY <1>1 DEF Kept, ToSet
<1>3. f \in [1..Len(s) -> Nat] /\ \A n \in 1..Len(s) : f[n] = n
  BY <1>1
<1> HIDE DEF f
<1>4. Keeps(f, s, K, s)
  BY <1>2, <1>3 DEF Keeps
<1> QED
  BY <1>4, WithoutIs

\* outProcQ() of one set after another.
LEMMA WithoutTwice ==
  ASSUME NEW S, NEW s \in Seq(S), NEW K, NEW L
  PROVE  Without(Without(s, K), L) = Without(s, K \cup L)
<1> DEFINE t == Without(s, K)
           u == Without(t, L)
<1>1. t \in Seq(S)
  BY WithoutPositions
<1>0. PICK f : Keeps(f, s, K, t)
  BY WithoutPositions
<1> HIDE DEF t
<1>2. /\ f \in [1..Len(t) -> Nat]
      /\ \A n \in 1..Len(t) : f[n] \in Kept(s, K) /\ t[n] = s[f[n]]
      /\ \A m, n \in 1..Len(t) : m < n => f[m] < f[n]
      /\ \A i \in Kept(s, K) : \E n \in 1..Len(t) : f[n] = i
  BY <1>0 DEF Keeps
<1>3. u \in Seq(S)
  BY <1>1, WithoutPositions
<1>12. PICK g : Keeps(g, t, L, u)
  BY <1>1, WithoutPositions
<1> HIDE DEF u
<1>4. /\ g \in [1..Len(u) -> Nat]
      /\ \A n \in 1..Len(u) : g[n] \in Kept(t, L) /\ u[n] = t[g[n]]
      /\ \A m, n \in 1..Len(u) : m < n => g[m] < g[n]
      /\ \A i \in Kept(t, L) : \E n \in 1..Len(u) : g[n] = i
  BY <1>12 DEF Keeps
<1> DEFINE k == [n \in 1..Len(u) |-> f[g[n]]]
<1>5. DOMAIN t = 1..Len(t) /\ Len(t) \in Nat /\ Len(u) \in Nat
  BY <1>1, <1>3, LenProperties
<1>6. \A n \in 1..Len(u) : g[n] \in 1..Len(t) /\ t[g[n]] \notin L
  BY <1>4, <1>5 DEF Kept
<1>7. k \in [1..Len(u) -> Nat]
  BY <1>2, <1>6
<1>8. \A n \in 1..Len(u) : k[n] \in Kept(s, K \cup L) /\ u[n] = s[k[n]]
  <2> TAKE n \in 1..Len(u)
  <2>1. g[n] \in 1..Len(t) /\ u[n] = t[g[n]] /\ t[g[n]] \notin L
    BY <1>4, <1>6
  <2>2. f[g[n]] \in Kept(s, K) /\ t[g[n]] = s[f[g[n]]]
    BY <1>2, <2>1
  <2> QED
    BY <2>1, <2>2 DEF Kept
<1>9. \A m, n \in 1..Len(u) : m < n => k[m] < k[n]
  BY <1>2, <1>4, <1>6
<1>10. \A i \in Kept(s, K \cup L) : \E n \in 1..Len(u) : k[n] = i
  <2> TAKE i \in Kept(s, K \cup L)
  <2>1. i \in Kept(s, K) /\ s[i] \notin L
    BY DEF Kept
  <2>2. PICK n \in 1..Len(t) : f[n] = i
    BY <1>2, <2>1
  <2>3. n \in Kept(t, L)
    BY <1>2, <1>5, <2>1, <2>2 DEF Kept
  <2>4. PICK m \in 1..Len(u) : g[m] = n
    BY <1>4, <2>3
  <2> QED
    BY <2>2, <2>4
<1> HIDE DEF k
<1>13. Keeps(k, s, K \cup L, u)
  BY <1>7, <1>8, <1>9, <1>10 DEF Keeps
<1>11. u = Without(s, K \cup L)
  BY <1>3, <1>13, WithoutIs
<1> QED
  BY <1>11 DEF u, t


-----------------------------------------------------------------------------
\* d[n] is what is reached from p in n steps of R at most.
Levels(d, S, p, R) ==
  /\ d[0] = {p}
  /\ \A n \in Nat : d[n + 1] = d[n] \cup {c \in S : \E x \in d[n] : <<x, c>> \in R}

Closed(D, S, R) == \A x \in D, c \in S : <<x, c>> \in R => c \in D

\* As many steps as there are elements reach everything: the set is closed, and the
\* least one that is.
LEMMA LevelsClose ==
  ASSUME NEW S, IsFiniteSet(S), NEW p \in S, NEW R, NEW d, Levels(d, S, p, R)
  PROVE  /\ p \in d[Cardinality(S)] /\ d[Cardinality(S)] \subseteq S
         /\ Closed(d[Cardinality(S)], S, R)
         /\ \A K : p \in K /\ Closed(K, S, R) => d[Cardinality(S)] \subseteq K
<1>1. /\ d[0] = {p}
      /\ \A n \in Nat : d[n + 1] = d[n] \cup {c \in S : \E x \in d[n] : <<x, c>> \in R}
  BY DEF Levels
<1>2. Cardinality(S) \in Nat
  BY FS_CardinalityType
<1> DEFINE N == {n \in Nat : /\ p \in d[n] /\ d[n] \subseteq S
                             /\ Closed(d[n], S, R) \/ n < Cardinality(d[n])}
<1>3. 0 \in N
  <2>1. Cardinality({p}) = 1
    BY FS_Singleton
  <2>2. p \in d[0] /\ d[0] \subseteq S /\ 0 < Cardinality(d[0])
    BY <1>1, <2>1
  <2> QED
    BY <2>2
<1>4. ASSUME NEW n \in Nat, n \in N
      PROVE  n + 1 \in N
  <2> DEFINE e == d[n + 1]
  <2>1. e = d[n] \cup {c \in S : \E x \in d[n] : <<x, c>> \in R}
    BY <1>1
  <2>2. p \in d[n] /\ d[n] \subseteq S /\ (Closed(d[n], S, R) \/ n < Cardinality(d[n]))
    BY <1>4
  <2>3. p \in e /\ d[n] \subseteq e /\ e \subseteq S /\ n + 1 \in Nat
    BY <2>1, <2>2
  <2>4. CASE Closed(d[n], S, R)
    <3>1. e = d[n]
      BY <2>1, <2>4 DEF Closed
    <3> QED
      BY <2>3, <2>4, <3>1
  <2>5. CASE ~Closed(d[n], S, R)
    <3>1. e # d[n]
      BY <2>1, <2>2, <2>5 DEF Closed
    <3> HIDE DEF e
    <3>2. IsFiniteSet(e) /\ IsFiniteSet(d[n])
      BY <2>2, <2>3, FS_Subset
    <3>3. Cardinality(d[n]) < Cardinality(e)
      <4>1. Cardinality(d[n]) <= Cardinality(e) /\ Cardinality(d[n]) # Cardinality(e)
        BY <2>3, <3>1, <3>2, FS_Subset
      <4>2. Cardinality(d[n]) \in Nat /\ Cardinality(e) \in Nat
        BY <3>2, FS_CardinalityType
      <4> QED
        BY <4>1, <4>2
    <3>4. n + 1 < Cardinality(e)
      <4>1. Cardinality(d[n]) \in Nat /\ Cardinality(e) \in Nat
        BY <3>2, FS_CardinalityType
      <4> QED
        BY <2>2, <2>5, <3>3, <4>1
    <3> QED
      BY <2>3, <3>4 DEF e
  <2> QED
    BY <2>4, <2>5
<1>5. Cardinality(S) \in N
  <2> HIDE DEF N
  <2> QED
    BY <1>2, <1>3, <1>4, NatInductive
<1>6. Closed(d[Cardinality(S)], S, R)
  <2>1. d[Cardinality(S)] \subseteq S
    BY <1>5
  <2>2. Cardinality(d[Cardinality(S)]) <= Cardinality(S) /\ Cardinality(d[Cardinality(S)]) \in Nat
    BY <2>1, FS_Subset, FS_CardinalityType
  <2> QED
    BY <1>2, <1>5, <2>2
<1>7. ASSUME NEW K, p \in K, Closed(K, S, R)
      PROVE  d[Cardinality(S)] \subseteq K
  <2> DEFINE M == {n \in Nat : d[n] \subseteq K}
  <2>1. 0 \in M
    BY <1>1, <1>7
  <2>2. ASSUME NEW n \in Nat, n \in M
        PROVE  n + 1 \in M
    <3>1. d[n] \subseteq K /\ n + 1 \in Nat
      BY <2>2
    <3>2. {c \in S : \E x \in d[n] : <<x, c>> \in R} \subseteq K
      BY <1>7, <3>1 DEF Closed
    <3>3. d[n + 1] \subseteq K
      BY <1>1, <3>1, <3>2
    <3> QED
      BY <3>1, <3>3
  <2>3. Cardinality(S) \in M
    <3> HIDE DEF M
    <3> QED
      BY <1>2, <2>1, <2>2, NatInductive
  <2> QED
    BY <2>3
<1> QED
  BY <1>5, <1>6, <1>7


\* A sequence with an element put in front.
Prepended(r, e, s) == r = <<e>> \o s

\* It is one longer, and each element one further.
LEMMA PrependIs ==
  ASSUME NEW S, NEW s \in Seq(S), NEW e \in S, NEW r, Prepended(r, e, s)
  PROVE  /\ r \in Seq(S) /\ Len(s) \in Nat /\ Len(r) = Len(s) + 1 /\ DOMAIN r = 1..(Len(s) + 1)
         /\ r[1] = e /\ r # <<>>
         /\ \A i \in 1..Len(s) : i + 1 \in DOMAIN r /\ r[i + 1] = s[i]
         /\ \A i \in DOMAIN r : i # 1 => i - 1 \in DOMAIN s /\ r[i] = s[i - 1]
         /\ ToSet(r) = ToSet(s) \cup {e}
         /\ IsInjective(s) /\ e \notin ToSet(s) => IsInjective(r)
<1> DEFINE a == <<e>>
<1>1. Len(s) \in Nat /\ DOMAIN s = 1..Len(s)
  BY LenProperties
<1>2. a \in Seq(S) /\ Len(a) = 1 /\ a[1] = e /\ ToSet(a) = {e}
  BY DEF ToSet
<1> HIDE DEF a
<1>3. r = a \o s
  BY DEF Prepended, a
<1>4. r \in Seq(S)
  BY <1>2, <1>3, ConcatAdds
<1>5. ToSet(r) = ToSet(s) \cup {e}
  BY <1>2, <1>3, ConcatAdds
<1>6. Len(r) = Len(a) + Len(s)
  BY <1>2, <1>3, ConcatProperties
<1>7. Len(r) = Len(s) + 1 /\ DOMAIN r = 1..(Len(s) + 1)
  BY <1>1, <1>2, <1>4, <1>6, LenProperties
<1>8. \A i \in 1..(Len(s) + 1) : r[i] = IF i <= 1 THEN a[i] ELSE s[i - 1]
  BY <1>1, <1>2, <1>3, <1>6, <1>7, ConcatProperties
<1>9. r[1] = e /\ r # <<>>
  <2>1. 1 \in 1..(Len(s) + 1)
    BY <1>1
  <2> QED
    BY <1>2, <1>7, <1>8, <2>1
<1>10. \A i \in DOMAIN r : i # 1 => i - 1 \in DOMAIN s /\ r[i] = s[i - 1]
  BY <1>1, <1>7, <1>8
<1>11. \A i \in 1..Len(s) : i + 1 \in DOMAIN r /\ r[i + 1] = s[i]
  <2> TAKE i \in 1..Len(s)
  <2>1. i + 1 \in DOMAIN r /\ i + 1 # 1 /\ (i + 1) - 1 = i
    BY <1>1, <1>7
  <2> QED
    BY <1>10, <2>1
<1>12. ASSUME IsInjective(s), e \notin ToSet(s), NEW i \in DOMAIN r, NEW j \in DOMAIN r, r[i] = r[j]
       PROVE  i = j
  <2>1. \A n \in DOMAIN s : s[n] # e
    BY <1>12 DEF ToSet
  <2>2. i = 1 <=> j = 1
    BY <1>9, <1>10, <1>12, <2>1
  <2>3. CASE i # 1
    <3>1. i - 1 = j - 1 /\ i \in Nat /\ j \in Nat
      BY <1>1, <1>7, <1>10, <1>12, <2>2, <2>3 DEF IsInjective
    <3> QED
      BY <3>1
  <2> QED
    BY <2>2, <2>3
<1> QED
  BY <1>1, <1>4, <1>5, <1>7, <1>9, <1>10, <1>11, <1>12 DEF IsInjective
=============================================================================
