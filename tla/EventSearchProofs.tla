-------------------------- MODULE EventSearchProofs --------------------------
(* Proofs about EventSearch, for any queries, limits and numbers of pages. *)
EXTENDS EventSearch, EventLogProofs, WellFoundedInduction

-----------------------------------------------------------------------------
(* Finite sets of positions.                                               *)

LEMMA LeastPosition ==
    ASSUME NEW S \in SUBSET Nat, S # {}
    PROVE  \E m \in S : \A k \in S : m <= k
<1> DEFINE R == OpToRel(<, Nat)
<1>1. IsWellFoundedOn(R, Nat)
  BY NatLessThanWellFounded
<1>2. \A x, y \in Nat : <<y, x>> \in R <=> y < x
  BY DEF OpToRel
<1> HIDE DEF R
<1>3. PICK m \in S : \A k \in S : ~ (<<k, m>> \in R)
  BY <1>1, WFMin
<1>4. ASSUME NEW k \in S PROVE m <= k
  <2>1. k \in Nat /\ m \in Nat /\ ~ (k < m)
    BY <1>2, <1>3
  <2> QED
    BY <2>1
<1> QED
  BY <1>4

LEMMA GreatestPosition ==
    ASSUME NEW n \in Nat, NEW S \in SUBSET (0..n), S # {}
    PROVE  \E m \in S : \A k \in S : m >= k
<1> DEFINE T == {n - k : k \in S}
<1>1. T \in SUBSET Nat /\ T # {}
  <2>1. \A k \in S : n - k \in Nat
    OBVIOUS
  <2> QED
    BY <2>1
<1> HIDE DEF T
<1>2. PICK t \in T : \A u \in T : t <= u
  BY <1>1, LeastPosition
<1>3. PICK m \in S : t = n - m
  BY <1>2 DEF T
<1>4. ASSUME NEW k \in S PROVE m >= k
  <2>1. n - k \in T
    BY DEF T
  <2>2. n - m <= n - k
    BY <1>2, <1>3, <2>1
  <2>3. k \in Int /\ m \in Int
    OBVIOUS
  <2> QED
    BY <2>2, <2>3
<1> QED
  BY <1>4

LEMMA PositionsFinite ==
    ASSUME NEW n \in Nat, NEW S \in SUBSET (1..n)
    PROVE  IsFiniteSet(S) /\ Cardinality(S) \in Nat
<1>1. IsFiniteSet(1..n)
  BY FS_Interval
<1> QED
  BY <1>1, FS_Subset, FS_CardinalityType

\* Positions can be put in order, the greatest first.
Newest(s, S) == /\ s \in [1..Cardinality(S) -> S]
                /\ \A i, j \in DOMAIN s : i < j => s[i] > s[j]

LEMMA Sortable ==
    ASSUME NEW n \in Nat, NEW S \in SUBSET (1..n)
    PROVE  \E s : Newest(s, S)
<1> DEFINE Bad == {k \in Nat : \E T \in SUBSET (1..n) :
                                  Cardinality(T) = k /\ ~ \E s : Newest(s, T)}
<1>1. SUFFICES ASSUME Bad # {} PROVE FALSE
  BY PositionsFinite
<1>2. PICK k \in Bad : \A j \in Bad : k <= j
  <2>1. Bad \in SUBSET Nat
    OBVIOUS
  <2> HIDE DEF Bad
  <2> QED
    BY <1>1, <2>1, LeastPosition
<1>3. PICK T \in SUBSET (1..n) : Cardinality(T) = k /\ ~ \E s : Newest(s, T)
  OBVIOUS
<1>4. T # {}
  <2>1. ASSUME T = {} PROVE FALSE
    <3>1. Cardinality(T) = 0
      BY <2>1, FS_EmptySet
    <3> DEFINE s == [i \in 1..0 |-> i]
    <3>2. 1..0 = {}
      OBVIOUS
    <3>3. s \in [1..Cardinality(T) -> T] /\ DOMAIN s = {}
      BY <2>1, <3>1, <3>2
    <3> HIDE DEF s
    <3>4. Newest(s, T)
      BY <3>3 DEF Newest
    <3> QED
      BY <1>3, <3>4
  <2> QED
    BY <2>1
<1>5. PICK m \in T : \A x \in T : m <= x
  BY <1>4, LeastPosition
<1> DEFINE U == T \ {m}
<1>6. IsFiniteSet(T) /\ Cardinality(T) = k /\ k \in Nat
  BY <1>3, PositionsFinite
<1>7. Cardinality(U) = k - 1 /\ Cardinality(U) \in Nat /\ U \in SUBSET (1..n)
  <2>1. Cardinality(U) = k - 1
    BY <1>5, <1>6, FS_RemoveElement
  <2>2. U \in SUBSET (1..n)
    OBVIOUS
  <2> HIDE DEF U
  <2>3. Cardinality(U) \in Nat
    BY <2>2, PositionsFinite
  <2> QED
    BY <2>1, <2>2, <2>3
<1>8. PICK s : Newest(s, U)
  <2>1. k - 1 \in Nat /\ ~ (k <= k - 1)
    BY <1>6, <1>7
  <2>2. k - 1 \notin Bad
    BY <1>2, <2>1
  <2> HIDE DEF U
  <2> QED
    BY <1>7, <2>1, <2>2
<1> DEFINE t == [i \in 1..k |-> IF i = k THEN m ELSE s[i]]
<1>9. /\ s \in [1..(k - 1) -> U] /\ DOMAIN s = 1..(k - 1)
      /\ \A i, j \in 1..(k - 1) : i < j => s[i] > s[j]
  BY <1>7, <1>8 DEF Newest
<1>10. k \in Nat /\ \A i \in 1..k : i # k => i \in 1..(k - 1)
  BY <1>6
<1>11. \A i \in 1..(k - 1) : s[i] \in T /\ s[i] > m
  <2>1. \A x \in U : x \in T /\ x > m
    BY <1>5
  <2> HIDE DEF U
  <2> QED
    BY <1>9, <2>1
<1>12. t \in [1..k -> T] /\ DOMAIN t = 1..k
  BY <1>5, <1>10, <1>11
<1>13. ASSUME NEW i \in 1..k, NEW j \in 1..k, i < j PROVE t[i] > t[j]
  <2>1. i \in 1..(k - 1) /\ t[i] = s[i]
    BY <1>10, <1>13
  <2>2. CASE j = k
    BY <1>11, <2>1, <2>2
  <2>3. CASE j # k
    BY <1>9, <1>10, <1>13, <2>1, <2>3
  <2> QED
    BY <2>2, <2>3
<1> HIDE DEF t
<1>14. Newest(t, T)
  BY <1>6, <1>12, <1>13 DEF Newest
<1> QED
  BY <1>3, <1>14

\* In order means each of them, once.
LEMMA AllSorted ==
    ASSUME NEW n \in Nat, NEW S \in SUBSET (1..n), NEW s, Newest(s, S)
    PROVE  {s[i] : i \in 1..Cardinality(S)} = S
<1>1. IsFiniteSet(S) /\ Cardinality(S) \in Nat
  BY PositionsFinite
<1> DEFINE k == Cardinality(S)
           I == 1..k
<1>2. IsFiniteSet(I) /\ Cardinality(I) = k
  BY <1>1, FS_Interval
<1>3. s \in [I -> S] /\ DOMAIN s = I /\ \A i, j \in I : i < j => s[i] > s[j]
  BY DEF Newest
<1>4. ASSUME NEW i \in I, NEW j \in I, s[i] = s[j] PROVE i = j
  <2>1. s[i] \in 1..n
    BY <1>3
  <2>2. i \in Int /\ j \in Int
    OBVIOUS
  <2>3. ~(i < j) /\ ~(j < i)
    BY <1>3, <1>4, <2>1
  <2> QED
    BY <2>2, <2>3
<1> HIDE DEF I
<1>5. s \in Injection(I, S)
  BY <1>3, <1>4 DEF Injection, IsInjective
<1>6. s \in Surjection(I, S)
  BY <1>1, <1>2, <1>5, FS_Injection
<1> QED
  BY <1>3, <1>6 DEF Surjection, I

\* The newest limit of some positions: if one is not among them, they are as
\* many as limit allows, and all newer.
NewestOf(F, limit) == {i \in F : Cardinality({j \in F : j > i}) < limit}

LEMMA NewestFull ==
    ASSUME NEW n \in Nat, NEW F \in SUBSET (1..n), NEW limit \in Nat,
           NEW e \in F \ NewestOf(F, limit)
    PROVE  /\ Cardinality(NewestOf(F, limit)) = limit
           /\ \A i \in NewestOf(F, limit) : e < i
<1> DEFINE above(i) == {j \in F : j > i}
           N == NewestOf(F, limit)
<1>1. \A i \in F : above(i) \in SUBSET (1..n) /\ Cardinality(above(i)) \in Nat
  BY PositionsFinite
<1>2. N = {i \in F : Cardinality(above(i)) < limit} /\ N \subseteq F
  BY DEF NewestOf
<1> HIDE DEF N
<1>3. ASSUME NEW i \in F, NEW j \in F, i <= j
      PROVE  Cardinality(above(j)) <= Cardinality(above(i))
  <2>1. above(j) \subseteq above(i)
    <3>1. i \in Nat /\ j \in Nat /\ \A x \in F : x \in Nat
      OBVIOUS
    <3>2. \A x \in F : x > j => x > i
      BY <1>3, <3>1
    <3> QED
      BY <3>2
  <2>2. IsFiniteSet(above(i))
    BY <1>1, PositionsFinite
  <2> HIDE DEF above
  <2> QED
    BY <2>1, <2>2, FS_Subset
<1> HIDE DEF above
<1>4. \A i \in F, j \in F : i \in N /\ i <= j => j \in N
  BY <1>1, <1>2, <1>3
<1>5. \A i \in N, x \in F \ N : x < i
  <2>1. ASSUME NEW i \in N, NEW x \in F \ N PROVE x < i
    <3>1. i \in F /\ x \in F /\ ~(i <= x)
      BY <1>2, <1>4, <2>1
    <3> QED
      BY <3>1
  <2> QED
    BY <2>1
<1> e \in F \ N
  BY DEF N
<1>6. PICK g \in F \ N : \A x \in F \ N : g >= x
  <2> DEFINE D == F \ N
  <2>1. D \in SUBSET (0..n) /\ D # {}
    <3>1. \A x \in 1..n : x \in 0..n
      OBVIOUS
    <3> QED
      BY <3>1
  <2> HIDE DEF D
  <2>2. \E m \in D : \A x \in D : m >= x
    BY <2>1, GreatestPosition
  <2> QED
    BY <2>2 DEF D
<1>7. above(g) = N
  <2>1. ASSUME NEW j \in F PROVE j > g <=> j \in N
    <3>1. j \in Nat /\ g \in Nat
      OBVIOUS
    <3>2. j \in N => g < j
      BY <1>5
    <3>3. j \notin N => g >= j
      BY <1>6
    <3> QED
      BY <3>1, <3>2, <3>3
  <2> QED
    BY <1>2, <2>1 DEF above
<1>8. Cardinality(N) \in Nat /\ Cardinality(N) >= limit
  <2>1. Cardinality(above(g)) \in Nat /\ ~(Cardinality(above(g)) < limit)
    BY <1>1, <1>2
  <2>2. Cardinality(N) \in Nat /\ ~(Cardinality(N) < limit)
    BY <1>7, <2>1
  <2> QED
    BY <2>2
<1>9. Cardinality(N) <= limit
  <2>1. CASE N = {}
    <3>1. Cardinality(N) = 0
      BY <2>1, FS_EmptySet
    <3> QED
      BY <3>1
  <2>2. CASE N # {}
    <3>1. PICK m \in N : \A x \in N : m <= x
      <4>1. N \in SUBSET Nat
        <5>1. \A x \in F : x \in Nat
          OBVIOUS
        <5> QED
          BY <1>2, <5>1
      <4> QED
        BY <2>2, <4>1, LeastPosition
    <3>2. m \in F /\ Cardinality(above(m)) < limit
      BY <1>2
    <3>3. N = above(m) \cup {m}
      <4>1. ASSUME NEW j \in N PROVE j = m \/ j > m
        <5>1. m <= j /\ m \in Nat /\ j \in Nat
          BY <1>2, <3>1
        <5> QED
          BY <5>1
      <4>2. ASSUME NEW j \in F, j > m PROVE j \in N
        <5>1. j \in Nat /\ m \in Nat
          BY <1>2
        <5>2. m <= j
          BY <4>2, <5>1
        <5> QED
          BY <1>4, <3>2, <5>2
      <4> QED
        BY <1>2, <4>1, <4>2 DEF above
    <3>4. IsFiniteSet(above(m))
      BY <1>1, <3>2, PositionsFinite
    <3>5. Cardinality(above(m)) \in Nat /\ Cardinality(above(m)) < limit
      BY <1>1, <3>2
    <3>6. Cardinality(N) = IF m \in above(m) THEN Cardinality(above(m))
                           ELSE Cardinality(above(m)) + 1
      <4>1. Cardinality(above(m) \cup {m}) =
               IF m \in above(m) THEN Cardinality(above(m)) ELSE Cardinality(above(m)) + 1
        BY <3>4, FS_AddElement
      <4>2. Cardinality(N) = Cardinality(above(m) \cup {m})
        BY <3>3
      <4> QED
        BY <4>1, <4>2
    <3>7. Cardinality(N) <= Cardinality(above(m)) + 1
      BY <3>5, <3>6
    <3> QED
      BY <1>8, <3>5, <3>7
  <2> QED
    BY <2>1, <2>2
<1>10. Cardinality(N) = limit
  BY <1>8, <1>9
<1> QED
  BY <1>5, <1>10 DEF N

-----------------------------------------------------------------------------
(* One search.                                                             *)

\* The offsets, from offset_from on, of the events that match.
Matches(log, clients, offset_from) ==
    {o \in offset_from..(Len(log) - 1) : _matches(log[o + 1], clients)}

\* A page is in descending order, of events that match, and what it leaves out
\* is older than all of it, and left out for the page is full.
GoodPage(page, M) ==
    /\ page \in Seq(Nat)
    /\ \A i, j \in DOMAIN page : i < j => page[j] < page[i]
    /\ ToSet(page) \subseteq M
    /\ \A e \in M \ ToSet(page) : Len(page) = Limit /\ \A i \in DOMAIN page : e < page[i]

LEMMA SearchPage ==
    ASSUME NEW q \in Projects, logs[q] \in Seq(Event),
           \A i \in 1..Len(logs[q]) : logs[q][i].offset = i - 1,
           NEW clients, NEW from \in Nat
    PROVE  GoodPage(Offsets(search_events(q, clients, from)), Matches(logs[q], clients, from))
<1> DEFINE log == logs[q]
           n == Len(log)
           F == {i \in from + 1..n : _matches(log[i], clients)}
           newer(i, j) == log[i].offset > log[j].offset
           N == {i \in F : Cardinality({j \in F : newer(j, i)}) < Limit}
           ordered(s) == /\ s \in [1..Cardinality(N) -> N]
                         /\ \A i, j \in DOMAIN s : i < j => newer(s[i], s[j])
           s == CHOOSE t \in [1..Cardinality(N) -> N] :
                   \A i, j \in DOMAIN t : i < j => newer(t[i], t[j])
           page == Offsets(search_events(q, clients, from))
           M == Matches(log, clients, from)
<1>1. n \in Nat /\ \A i \in 1..n : log[i].offset = i - 1
  BY LenProperties
<1>2. search_events(q, clients, from) = [i \in DOMAIN s |-> log[s[i]]]
  BY DEF search_events
<1>3. page = [i \in DOMAIN s |-> log[s[i]].offset]
  BY <1>2 DEF Offsets
<1>4. M = {o \in from..(n - 1) : _matches(log[o + 1], clients)}
  BY DEF Matches
<1> HIDE DEF log, n, page, M
<1>5. F \in SUBSET (1..n)
  BY <1>1
<1>6. \A o \in Nat : o \in M <=> o + 1 \in F
  BY <1>1, <1>4
<1>7. \A o \in M : o \in Nat
  BY <1>1, <1>4
<1> HIDE DEF F
<1>8. \A i, j \in F : newer(i, j) <=> i > j
  <2>1. \A i, j \in 1..n : newer(i, j) <=> i > j
    BY <1>1
  <2> QED
    BY <1>5, <2>1
<1> HIDE DEF newer
<1>9. N = {i \in F : Cardinality({j \in F : j > i}) < Limit}
  <2>1. ASSUME NEW i \in F PROVE {j \in F : newer(j, i)} = {j \in F : j > i}
    BY <1>8
  <2> QED
    BY <2>1
<1>10. N \in SUBSET F /\ N \in SUBSET (1..n)
  BY <1>5
<1> HIDE DEF N
<1>11. Cardinality(N) \in Nat
  BY <1>1, <1>10, PositionsFinite
<1>12. \A t : ordered(t) <=> Newest(t, N)
  BY <1>8, <1>10 DEF Newest
<1>13. Newest(s, N)
  <2>1. PICK t : Newest(t, N)
    BY <1>1, <1>10, Sortable
  <2>2. ordered(t)
    BY <1>12, <2>1
  <2>3. ordered(s)
    BY <2>2
  <2> HIDE DEF s, ordered
  <2> QED
    BY <1>12, <2>3
<1> HIDE DEF s
<1>14. {s[i] : i \in 1..Cardinality(N)} = N
  BY <1>1, <1>10, <1>13, AllSorted
<1> DEFINE k == Cardinality(N)
<1>15. /\ s \in [1..k -> N] /\ DOMAIN s = 1..k
       /\ \A i, j \in 1..k : i < j => s[i] > s[j]
  BY <1>13 DEF Newest
<1> HIDE DEF k
<1>16. /\ DOMAIN page = 1..k /\ k \in Nat
       /\ \A i \in 1..k : /\ s[i] \in N /\ s[i] \in F /\ s[i] \in 1..n
                          /\ page[i] = s[i] - 1 /\ page[i] \in Nat
  <2>1. DOMAIN page = 1..k /\ \A i \in 1..k : page[i] = log[s[i]].offset
    BY <1>3, <1>15
  <2>2. ASSUME NEW i \in 1..k
        PROVE  /\ s[i] \in N /\ s[i] \in F /\ s[i] \in 1..n
               /\ page[i] = s[i] - 1 /\ page[i] \in Nat
    <3>1. s[i] \in N /\ s[i] \in F /\ s[i] \in 1..n
      BY <1>10, <1>15
    <3>2. log[s[i]].offset = s[i] - 1
      BY <1>1, <3>1
    <3>3. page[i] = s[i] - 1
      BY <2>1, <3>2
    <3>4. s[i] - 1 \in Nat
      BY <3>1, <1>1
    <3> QED
      BY <3>1, <3>3, <3>4
  <2> QED
    BY <1>11, <2>1, <2>2 DEF k
<1>17. page \in Seq(Nat) /\ Len(page) = k
  <2>1. page = [i \in 1..k |-> page[i]]
    BY <1>3, <1>16, <1>15
  <2>2. page \in [1..k -> Nat]
    BY <1>16, <2>1
  <2>3. page \in Seq(Nat)
    BY <1>16, <2>2, SeqDef
  <2> QED
    BY <1>16, <2>3, LenProperties
<1>18. ASSUME NEW i \in 1..k, NEW j \in 1..k, i < j PROVE page[j] < page[i]
  <2>1. s[i] > s[j] /\ page[i] = s[i] - 1 /\ page[j] = s[j] - 1 /\ s[i] \in 1..n /\ s[j] \in 1..n
    BY <1>15, <1>16, <1>18
  <2> QED
    BY <1>1, <2>1
<1>19. ASSUME NEW i \in 1..k PROVE page[i] \in M
  <2>1. page[i] \in Nat /\ page[i] = s[i] - 1 /\ s[i] \in F /\ s[i] \in 1..n
    BY <1>16
  <2>2. page[i] + 1 = s[i]
    BY <1>1, <2>1
  <2> QED
    BY <1>6, <2>1, <2>2
<1>20. ASSUME NEW e \in M, e \notin ToSet(page)
       PROVE  Len(page) = Limit /\ \A i \in DOMAIN page : e < page[i]
  <2>1. PICK x \in F : x = e + 1 /\ e \in Nat
    BY <1>6, <1>7
  <2>2. x \notin N
    <3>1. ASSUME x \in N PROVE FALSE
      <4>1. PICK i \in 1..k : s[i] = x
        BY <1>14, <3>1 DEF k
      <4>2. page[i] = x - 1
        BY <1>16, <4>1
      <4>3. page[i] = e
        BY <2>1, <4>2
      <4> QED
        BY <1>16, <1>20, <4>3 DEF ToSet
    <3> QED
      BY <3>1
  <2>3. Limit \in Nat
    BY PagingNat
  <2>4. Cardinality(N) = Limit /\ \A i \in N : x < i
    <3>1. N = NewestOf(F, Limit)
      BY <1>9 DEF NewestOf
    <3>2. x \in F \ NewestOf(F, Limit)
      BY <2>2, <3>1
    <3> QED
      BY <1>1, <1>5, <2>3, <3>1, <3>2, NewestFull
  <2>5. ASSUME NEW i \in 1..k PROVE e < page[i]
    <3>1. s[i] \in N /\ page[i] = s[i] - 1 /\ s[i] \in 1..n
      BY <1>16
    <3>2. x < s[i]
      BY <2>4, <3>1
    <3> QED
      BY <1>1, <2>1, <3>1, <3>2
  <2> QED
    BY <1>16, <1>17, <2>4, <2>5 DEF k
<1>21. GoodPage(page, M)
  <2>1. ToSet(page) \subseteq M
    BY <1>16, <1>19 DEF ToSet
  <2> QED
    BY <1>16, <1>17, <1>18, <1>20, <2>1 DEF GoodPage
<1> QED
  BY <1>21 DEF page, M, log

-----------------------------------------------------------------------------
(* The reader.                                                             *)

\* What SkippedByFullPages says of pages read of a log of which n events had
\* been appended.
Covered(ps, on, log, clients, n) ==
    LET due == {i \in 0..(n - 1) : _matches(log[i + 1], clients)} IN
    /\ on \subseteq due
    /\ \A k, l \in DOMAIN ps : \A i \in DOMAIN ps[k], j \in DOMAIN ps[l] :
          k < l \/ (k = l /\ i > j) => ps[k][i] < ps[l][j]
    /\ \A e \in due \ on : \E k \in DOMAIN ps :
          Len(ps[k]) = Limit /\ \A i \in DOMAIN ps[k] : e < ps[k][i]

On(ps) == UNION {ToSet(ps[k]) : k \in DOMAIN ps}

SearchInv ==
    /\ query \in Queries /\ upto \in Nat
    /\ damage = {} => /\ pages \in Seq(Seq(Nat))
                      /\ upto <= Len(logs[query.project])
                      /\ Covered(pages, OnPages, logs[query.project], query.clients, upto)

\* The next page starts after every event the reader has seen, and not after
\* the end of the log as it last was.
LEMMA NextPage ==
    ASSUME upto \in Nat, OnPages \in SUBSET (0..(upto - 1))
    PROVE  NextOffset \in 0..upto /\ \A o \in OnPages : o < NextOffset
<1>1. CASE OnPages = {}
  BY <1>1 DEF NextOffset
<1>2. CASE OnPages # {}
  <2>1. OnPages \in SUBSET (0..upto)
    OBVIOUS
  <2>2. \E m \in OnPages : \A o \in OnPages : m >= o
    BY <1>2, <2>1, GreatestPosition
  <2>3. Max(OnPages) \in OnPages /\ \A o \in OnPages : Max(OnPages) >= o
    BY <2>2 DEF Max
  <2>4. NextOffset = Max(OnPages) + 1
    BY <1>2 DEF NextOffset
  <2>5. Max(OnPages) \in 0..(upto - 1) /\ \A o \in OnPages : o \in Nat
    <3>1. \A o \in OnPages : o \in 0..(upto - 1)
      OBVIOUS
    <3>2. \A o \in 0..(upto - 1) : o \in Nat
      OBVIOUS
    <3> QED
      BY <2>3, <3>1, <3>2
  <2>6. NextOffset \in 0..upto
    BY <2>4, <2>5
  <2>7. ASSUME NEW o \in OnPages PROVE o < NextOffset
    <3>1. Max(OnPages) >= o /\ o \in Nat
      BY <2>3, <2>5
    <3> QED
      BY <2>4, <2>5, <3>1
  <2> QED
    BY <2>6, <2>7
<1> QED
  BY <1>1, <1>2

\* The pages with one more.
LEMMA PagesAppended ==
    ASSUME NEW ps \in Seq(Seq(Nat)), NEW page \in Seq(Nat)
    PROVE  LET qs == Append(ps, page) IN
           /\ qs \in Seq(Seq(Nat)) /\ Len(ps) \in Nat
           /\ DOMAIN ps = 1..Len(ps) /\ DOMAIN qs = DOMAIN ps \cup {Len(ps) + 1}
           /\ Len(ps) + 1 \notin DOMAIN ps
           /\ qs[Len(ps) + 1] = page /\ \A k \in DOMAIN ps : qs[k] = ps[k]
           /\ On(qs) = On(ps) \cup ToSet(page)
<1> DEFINE qs == Append(ps, page)
           m == Len(ps) + 1
<1>1. /\ qs \in Seq(Seq(Nat)) /\ Len(ps) \in Nat /\ Len(qs) = Len(ps) + 1
      /\ qs[m] = page /\ \A k \in 1..Len(ps) : qs[k] = ps[k]
  BY AppendProperties, LenProperties
<1>2. DOMAIN ps = 1..Len(ps) /\ DOMAIN qs = 1..Len(ps) + 1
  BY <1>1, LenProperties
<1>3. 1..Len(ps) + 1 = (1..Len(ps)) \cup {m} /\ m \notin 1..Len(ps)
  BY <1>1
<1>4. DOMAIN qs = DOMAIN ps \cup {m} /\ m \notin DOMAIN ps /\ \A k \in DOMAIN ps : qs[k] = ps[k]
  BY <1>1, <1>2, <1>3
<1>5. qs[m] = page
  BY <1>1
<1> HIDE DEF qs, m
<1>6. On(qs) = On(ps) \cup ToSet(page)
  BY <1>4, <1>5 DEF On
<1> QED
  BY <1>1, <1>2, <1>4, <1>5, <1>6 DEF qs, m

\* A page read of a longer log, from after all that was seen, covers what is
\* new.
LEMMA PageCovers ==
    ASSUME NEW ps \in Seq(Seq(Nat)), NEW log, Len(log) \in Nat, NEW clients,
           NEW n \in 0..Len(log), Covered(ps, On(ps), log, clients, n),
           NEW from \in 0..n, \A o \in On(ps) : o < from,
           NEW page, GoodPage(page, Matches(log, clients, from))
    PROVE  LET qs == Append(ps, page) IN
           qs \in Seq(Seq(Nat)) /\ Covered(qs, On(qs), log, clients, Len(log))
<1> DEFINE qs == Append(ps, page)
           m == Len(ps) + 1
           due(x) == {i \in 0..(x - 1) : _matches(log[i + 1], clients)}
           M == Matches(log, clients, from)
           L == Len(log)
<1>1. /\ page \in Seq(Nat)
      /\ \A i, j \in DOMAIN page : i < j => page[j] < page[i]
      /\ ToSet(page) \subseteq M
      /\ \A e \in M \ ToSet(page) : Len(page) = Limit /\ \A i \in DOMAIN page : e < page[i]
  BY DEF GoodPage
<1>2. /\ qs \in Seq(Seq(Nat)) /\ Len(ps) \in Nat /\ DOMAIN ps = 1..Len(ps)
      /\ DOMAIN qs = DOMAIN ps \cup {m} /\ m \notin DOMAIN ps
      /\ qs[m] = page /\ \A k \in DOMAIN ps : qs[k] = ps[k]
      /\ On(qs) = On(ps) \cup ToSet(page)
  BY <1>1, PagesAppended
<1>3. /\ On(ps) \subseteq due(n)
      /\ \A k, l \in DOMAIN ps : \A i \in DOMAIN ps[k], j \in DOMAIN ps[l] :
            k < l \/ (k = l /\ i > j) => ps[k][i] < ps[l][j]
      /\ \A e \in due(n) \ On(ps) : \E k \in DOMAIN ps :
            Len(ps[k]) = Limit /\ \A i \in DOMAIN ps[k] : e < ps[k][i]
  BY DEF Covered
<1>4. M = {o \in from..(L - 1) : _matches(log[o + 1], clients)}
  BY DEF Matches
<1>5. L \in Nat /\ n \in 0..L /\ from \in 0..n
  OBVIOUS
<1>6. \A k \in DOMAIN ps : k \in Nat /\ k < m
  BY <1>2
<1>7. m \in Nat
  BY <1>2
<1> HIDE DEF qs, m, M, L
<1>8. due(n) \subseteq due(L) /\ M \subseteq due(L)
  BY <1>4, <1>5
<1>9. \A e \in due(L) : e \in due(n) \/ e \in M
  BY <1>4, <1>5
<1>10. \A o \in M : from <= o /\ o \in Nat
  BY <1>4, <1>5
<1>11. \A o \in due(n) : o \in Nat
  BY <1>5
<1> HIDE DEF due
<1>12. On(qs) \subseteq due(L)
  BY <1>1, <1>2, <1>3, <1>8
<1>13. ASSUME NEW k \in DOMAIN qs, NEW l \in DOMAIN qs,
              NEW i \in DOMAIN qs[k], NEW j \in DOMAIN qs[l], k < l \/ (k = l /\ i > j)
       PROVE  qs[k][i] < qs[l][j]
  <2>1. CASE k \in DOMAIN ps /\ l \in DOMAIN ps
    BY <1>2, <1>3, <1>13, <2>1
  <2>2. CASE k \in DOMAIN ps /\ l = m
    <3>1. qs[k] = ps[k] /\ qs[l] = page
      BY <1>2, <2>2
    <3>2. ps[k][i] \in ToSet(ps[k])
      BY <1>13, <3>1 DEF ToSet
    <3>3. ps[k][i] \in On(ps)
      BY <2>2, <3>2 DEF On
    <3>4. page[j] \in ToSet(page)
      BY <1>13, <3>1 DEF ToSet
    <3>5. /\ ps[k][i] < from /\ ps[k][i] \in Nat
          /\ from <= page[j] /\ page[j] \in Nat
      BY <1>1, <1>3, <1>10, <1>11, <3>3, <3>4
    <3> QED
      BY <1>5, <3>1, <3>5
  <2>3. CASE k = m /\ l \in DOMAIN ps
    <3>1. l < m /\ l \in Nat
      BY <1>6, <2>3
    <3> QED
      BY <1>7, <1>13, <2>3, <3>1
  <2>4. CASE k = m /\ l = m
    <3>1. qs[k] = page /\ qs[l] = page
      BY <1>2, <2>4
    <3>2. j < i
      <4>1. ~(m < m)
        BY <1>7
      <4>2. i > j
        BY <1>13, <2>4, <4>1
      <4> QED
        BY <4>2
    <3> QED
      BY <1>1, <1>13, <3>1, <3>2
  <2> QED
    BY <1>2, <2>1, <2>2, <2>3, <2>4
<1>14. ASSUME NEW e \in due(L), e \notin On(qs)
       PROVE  \E k \in DOMAIN qs : Len(qs[k]) = Limit /\ \A i \in DOMAIN qs[k] : e < qs[k][i]
  <2>1. CASE e \in due(n)
    <3>1. PICK k \in DOMAIN ps : Len(ps[k]) = Limit /\ \A i \in DOMAIN ps[k] : e < ps[k][i]
      BY <1>2, <1>3, <1>14, <2>1
    <3> QED
      BY <1>2, <3>1
  <2>2. CASE e \in M
    <3>1. Len(page) = Limit /\ \A i \in DOMAIN page : e < page[i]
      BY <1>1, <1>2, <1>14, <2>2
    <3> QED
      BY <1>2, <3>1
  <2> QED
    BY <1>9, <1>14, <2>1, <2>2
<1>15. Covered(qs, On(qs), log, clients, L)
  BY <1>12, <1>13, <1>14 DEF Covered, due
<1> QED
  BY <1>2, <1>15 DEF qs, L

\* What a step of the log does to what is stored while storage is sound.
LEMMA LogGrows ==
    ASSUME TypeInv, [Next]_vars, damage' = {}, NEW p \in Projects
    PROVE  /\ damage = {}
           /\ Len(logs[p]) \in Nat /\ Len(logs'[p]) \in Nat /\ Len(logs[p]) <= Len(logs'[p])
           /\ \A i \in 1..Len(logs[p]) : logs'[p][i] = logs[p][i]
<1>1. logs \in [Projects -> Seq(Event)] /\ logs[p] \in Seq(Event) /\ Len(logs[p]) \in Nat
  BY DEF TypeInv, TypeOK
<1>2. CASE \E c \in Clients : Appended(c)
  <2>1. PICK c \in Clients : Appended(c)
    BY <1>2
  <2>2. PICK e \in Event : /\ target[c] \in Projects
                           /\ logs' = [logs EXCEPT ![target[c]] = Append(logs[target[c]], e)]
    BY <2>1, AppendFields
  <2>3. damage' = damage
    BY <2>1 DEF Appended
  <2>4. CASE p = target[c]
    <3>1. logs'[p] = Append(logs[p], e)
      BY <1>1, <2>2, <2>4
    <3>2. /\ Len(Append(logs[p], e)) = Len(logs[p]) + 1
          /\ \A i \in 1..Len(logs[p]) : Append(logs[p], e)[i] = logs[p][i]
      BY <1>1, AppendProperties
    <3> QED
      BY <1>1, <2>3, <3>1, <3>2
  <2>5. CASE p # target[c]
    <3>1. logs'[p] = logs[p]
      BY <1>1, <2>2, <2>5
    <3> QED
      BY <1>1, <2>3, <3>1
  <2> QED
    BY <2>4, <2>5
<1>3. ~ \E q \in Projects : \E i \in 1..Len(logs[q]) : Damage(q, i)
  BY DEF Damage
<1>4. CASE ~ \E c \in Clients : Appended(c)
  <2>1. UNCHANGED <<logs, damage>>
    BY <1>3, <1>4, QuietStep
  <2> QED
    BY <1>1, <2>1
<1> QED
  BY <1>2, <1>4

\* Growing, a log keeps what the pages cover.
LEMMA GrowthCovers ==
    ASSUME NEW ps, NEW on, NEW log, NEW new, NEW clients, NEW n \in Nat,
           \A i \in 1..n : new[i] = log[i], Covered(ps, on, log, clients, n)
    PROVE  Covered(ps, on, new, clients, n)
<1>1. {i \in 0..(n - 1) : _matches(new[i + 1], clients)}
        = {i \in 0..(n - 1) : _matches(log[i + 1], clients)}
  <2>1. \A i \in 0..(n - 1) : new[i + 1] = log[i + 1]
    <3>1. \A i \in 0..(n - 1) : i + 1 \in 1..n
      OBVIOUS
    <3> QED
      BY <3>1
  <2> QED
    BY <2>1
<1> QED
  BY <1>1 DEF Covered

LEMMA SearchStep ==
    ASSUME TypeInv, OffsetsDense, SearchInv, [SearchNext]_<<vars, reader>>
    PROVE  SearchInv'
<1>1. query \in Queries /\ query.project \in Projects
  BY QueriesTyped DEF SearchInv
<1>2. ASSUME [Next]_vars, UNCHANGED reader PROVE SearchInv'
  <2> DEFINE p == query.project
  <2>1. UNCHANGED <<query, pages, upto, OnPages>>
    BY <1>2 DEF reader, OnPages
  <2>2. ASSUME damage' = {}
        PROVE  /\ pages \in Seq(Seq(Nat)) /\ upto' <= Len(logs'[p])
               /\ Covered(pages, OnPages, logs'[p], query.clients, upto)
    <3>1. /\ damage = {} /\ Len(logs[p]) \in Nat /\ Len(logs'[p]) \in Nat
          /\ Len(logs[p]) <= Len(logs'[p])
          /\ \A i \in 1..Len(logs[p]) : logs'[p][i] = logs[p][i]
      BY <1>1, <1>2, <2>2, LogGrows
    <3>2. /\ pages \in Seq(Seq(Nat)) /\ upto \in Nat /\ upto <= Len(logs[p])
          /\ Covered(pages, OnPages, logs[p], query.clients, upto)
      BY <3>1 DEF SearchInv
    <3> HIDE DEF p
    <3>3. \A i \in 1..upto : logs'[p][i] = logs[p][i]
      BY <3>1, <3>2
    <3>4. Covered(pages, OnPages, logs'[p], query.clients, upto)
      BY <3>2, <3>3, GrowthCovers
    <3> QED
      BY <2>1, <3>1, <3>2, <3>4
  <2> QED
    BY <2>1, <2>2 DEF SearchInv
<1>3. CASE Page
  <2> DEFINE p == query.project
             page == Offsets(search_events(p, query.clients, NextOffset))
  <2>1. /\ pages' = Append(pages, page) /\ upto' = Len(logs[p])
        /\ query' = query /\ logs' = logs /\ damage' = damage
    BY <1>3 DEF Page, vars
  <2>2. logs[p] \in Seq(Event) /\ Len(logs[p]) \in Nat
    BY <1>1, LenProperties DEF TypeInv, TypeOK
  <2>3. \A i \in 1..Len(logs[p]) : logs[p][i].offset = i - 1
    BY <1>1 DEF OffsetsDense
  <2>4. upto' \in Nat
    BY <2>1, <2>2
  <2>5. ASSUME damage = {}
        PROVE  /\ pages' \in Seq(Seq(Nat)) /\ upto' <= Len(logs'[p])
               /\ Covered(pages', OnPages', logs'[p], query.clients, upto')
    <3>1. /\ pages \in Seq(Seq(Nat)) /\ upto \in Nat /\ upto <= Len(logs[p])
          /\ Covered(pages, OnPages, logs[p], query.clients, upto)
      BY <2>5 DEF SearchInv
    <3>2. OnPages = On(pages) /\ OnPages' = On(pages')
      BY DEF OnPages, On
    <3>3. OnPages \in SUBSET (0..(upto - 1))
      BY <3>1 DEF Covered
    <3>4. NextOffset \in 0..upto /\ \A o \in OnPages : o < NextOffset
      BY <3>1, <3>3, NextPage
    <3>5. NextOffset \in Nat /\ upto \in 0..Len(logs[p])
      BY <2>2, <3>1, <3>4
    <3>6. GoodPage(page, Matches(logs[p], query.clients, NextOffset))
      BY <1>1, <2>2, <2>3, <3>5, SearchPage
    <3> HIDE DEF p, page
    <3>7. /\ Append(pages, page) \in Seq(Seq(Nat))
          /\ Covered(Append(pages, page), On(Append(pages, page)), logs[p], query.clients,
                     Len(logs[p]))
      BY <2>2, <3>1, <3>2, <3>4, <3>5, <3>6, PageCovers
    <3> QED
      BY <2>1, <2>2, <3>2, <3>7
  <2> QED
    BY <1>1, <2>1, <2>4, <2>5 DEF SearchInv
<1>4. CASE UNCHANGED <<vars, reader>>
  BY <1>2, <1>4
<1> QED
  BY <1>2, <1>3, <1>4 DEF SearchNext

\* The reader only reads: with it, the log behaves as it does without, and what
\* is proved of the log holds of the log that is searched.
THEOREM SearchOnlyReads == SearchSpec => Spec
<1>1. SearchInit => Init
  BY DEF SearchInit
<1>2. [SearchNext]_<<vars, reader>> => [Next]_vars
  BY DEF SearchNext, Page, reader
<1> QED
  BY <1>1, <1>2, PTL DEF SearchSpec, Spec

\* Pages continue where the last one ended, whatever is appended meanwhile; what
\* a reader never gets to see is older than a page that was full.
THEOREM SkippedOnlyByFullPages == SearchSpec => []SkippedByFullPages
<1>1. SearchInit => SearchInv
  <2> SUFFICES ASSUME SearchInit PROVE SearchInv
    OBVIOUS
  <2>1. query \in Queries /\ query.project \in Projects /\ pages = <<>> /\ upto = 0
    BY QueriesTyped DEF SearchInit
  <2>2. Len(logs[query.project]) = 0
    BY <2>1 DEF SearchInit, Init
  <2>3. pages \in Seq(Seq(Nat)) /\ DOMAIN pages = {}
    <3>1. pages \in Seq(Seq(Nat)) /\ Len(pages) = 0
      BY <2>1, EmptySeq
    <3> QED
      BY <3>1, LenProperties
  <2>4. OnPages = {}
    BY <2>3 DEF OnPages
  <2>5. 0..(upto - 1) = {}
    BY <2>1
  <2>6. Covered(pages, OnPages, logs[query.project], query.clients, upto)
    BY <2>3, <2>4, <2>5 DEF Covered
  <2> QED
    BY <2>1, <2>2, <2>3, <2>6 DEF SearchInv
<1>2. SearchInit => TypeInv /\ OffsetsDense
  <2>1. Init => TypeInv
    BY MaxEventsNat DEF Init, TypeInv, TypeOK, BusyHasEvent
  <2>2. Init => OffsetsDense
    BY EmptySeq DEF Init, OffsetsDense
  <2> QED
    BY <2>1, <2>2 DEF SearchInit
<1>3. [SearchNext]_<<vars, reader>> => [Next]_vars
  BY DEF SearchNext, Page, reader
<1>4. TypeInv /\ OffsetsDense /\ SearchInv /\ [SearchNext]_<<vars, reader>>
        => TypeInv' /\ OffsetsDense' /\ SearchInv'
  BY <1>3, TypeStep, DenseStep, SearchStep
<1>5. SearchInv => SkippedByFullPages
  BY DEF SearchInv, Covered, SkippedByFullPages
<1> QED
  BY <1>1, <1>2, <1>4, <1>5, PTL DEF SearchSpec
=============================================================================
