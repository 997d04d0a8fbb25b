----------------------------- MODULE StreamProofs -----------------------------
(* Proofs about what consults hear and readers see: the answers of A2A     *)
(* streams and the pages of a text, for any streams and any windows.       *)
EXTENDS ConsultsProofs, FiniteSetTheorems

-----------------------------------------------------------------------------
(* The events of a stream.  Current(s) is the one the next line belongs to. *)

Current(s) == BlockOf(s, Len(s) + 1)
EventLines(s, b) == {i \in DOMAIN s : BlockOf(s, i) = b /\ s[i].field = "event"}
DataLines(s, b)  == {i \in DOMAIN s : BlockOf(s, i) = b /\ s[i].field = "data"}

LEMMA LineKinds ==
    ASSUME NEW l \in LineTypes
    PROVE  /\ l = Blank <=> l.field = "blank"
           /\ l.field \in {"blank", "event", "data"}
           /\ l.field = "event" => l.type \in EventTypes
           /\ l.field = "data" => l.text \in Nat
  BY DEF LineTypes, Blank

\* Events are numbered from 1 and do not go back.
LEMMA BlocksInOrder ==
    ASSUME NEW s, NEW i \in Nat, NEW j \in Nat, i <= j
    PROVE  /\ BlockOf(s, i) \in Nat \ {0} /\ BlockOf(s, i) <= BlockOf(s, j)
<1> DEFINE blanks(n) == {k \in 1..(n - 1) : s[k] = Blank}
<1>1. blanks(i) \subseteq blanks(j)
  OBVIOUS
<1>2. ASSUME NEW n \in Nat PROVE IsFiniteSet(blanks(n))
  <2>1. IsFiniteSet(1..(n - 1))
    BY FS_Interval
  <2> QED
    BY <2>1, FS_Subset
<1> HIDE DEF blanks
<1>3. /\ Cardinality(blanks(i)) \in Nat /\ Cardinality(blanks(j)) \in Nat
      /\ Cardinality(blanks(i)) <= Cardinality(blanks(j))
  BY <1>1, <1>2, FS_CardinalityType, FS_Subset
<1>4. BlockOf(s, i) = 1 + Cardinality(blanks(i)) /\ BlockOf(s, j) = 1 + Cardinality(blanks(j))
  BY DEF BlockOf, blanks
<1> QED
  BY <1>3, <1>4

\* A line leaves the events of the lines before it as they were; a blank one
\* ends the current event.
LEMMA BlocksAfter ==
    ASSUME NEW s \in Seq(LineTypes), NEW l \in LineTypes
    PROVE  LET m == Append(s, l) IN
           /\ m \in Seq(LineTypes) /\ Len(s) \in Nat /\ Len(m) = Len(s) + 1
           /\ DOMAIN s = 1..Len(s) /\ DOMAIN m = 1..Len(s) + 1
           /\ m[Len(s) + 1] = l /\ \A i \in 1..Len(s) : m[i] = s[i]
           /\ \A i \in 1..Len(s) + 1 : BlockOf(m, i) = BlockOf(s, i)
           /\ l # Blank => Current(m) = Current(s)
           /\ l = Blank => Current(m) = Current(s) + 1
<1> DEFINE m == Append(s, l)
<1>1. /\ m \in Seq(LineTypes) /\ Len(s) \in Nat /\ Len(m) = Len(s) + 1
      /\ m[Len(s) + 1] = l /\ \A i \in 1..Len(s) : m[i] = s[i]
  BY AppendProperties, LenProperties
<1>2. DOMAIN s = 1..Len(s) /\ DOMAIN m = 1..Len(s) + 1
  BY <1>1, LenProperties
<1> DEFINE blanks(q, n) == {j \in 1..n : q[j] = Blank}
           n == Len(s)
           k == Len(s) + 1
<1>3. ASSUME NEW i \in 1..Len(s) + 1 PROVE BlockOf(m, i) = BlockOf(s, i)
  <2>1. blanks(m, i - 1) = blanks(s, i - 1)
    BY <1>1
  <2> QED
    BY <2>1 DEF BlockOf
<1>4. Current(s) = 1 + Cardinality(blanks(s, n)) /\ Current(m) = 1 + Cardinality(blanks(m, k))
  <2>1. Len(s) + 1 - 1 = n /\ Len(m) + 1 - 1 = k
    BY <1>1
  <2>2. /\ Current(s) = 1 + Cardinality(blanks(s, Len(s) + 1 - 1))
        /\ Current(m) = 1 + Cardinality(blanks(m, Len(m) + 1 - 1))
    BY DEF Current, BlockOf
  <2> QED
    BY <2>1, <2>2
<1>5. /\ 1..k = (1..n) \cup {k} /\ k \notin 1..n
      /\ IsFiniteSet(1..n)
  <2>1. 1..k = (1..n) \cup {k} /\ k \notin 1..n /\ n \in Int /\ 1 \in Int
    BY <1>1
  <2> HIDE DEF n, k
  <2>2. IsFiniteSet(1..n)
    BY <2>1, FS_Interval
  <2> QED
    BY <2>1, <2>2
<1>6. (\A i \in 1..n : m[i] = s[i]) /\ m[k] = l
  BY <1>1
<1> HIDE DEF k, n, m
<1>7. IsFiniteSet(blanks(s, n)) /\ k \notin blanks(s, n)
  <2>1. blanks(s, n) \subseteq 1..n
    OBVIOUS
  <2> HIDE DEF blanks
  <2> QED
    BY <1>5, <2>1, FS_Subset
<1>8. l = Blank => blanks(m, k) = blanks(s, n) \cup {k}
  BY <1>5, <1>6
<1>9. l # Blank => blanks(m, k) = blanks(s, n)
  BY <1>5, <1>6
<1> HIDE DEF blanks
<1>10. l = Blank => Cardinality(blanks(m, k)) = Cardinality(blanks(s, n)) + 1
  BY <1>7, <1>8, FS_AddElement
<1>11. Cardinality(blanks(s, n)) \in Nat
  BY <1>7, FS_CardinalityType
<1>12. l = Blank => Current(m) = Current(s) + 1
  BY <1>4, <1>10, <1>11
<1>13. l # Blank => Current(m) = Current(s)
  BY <1>4, <1>9
<1> QED
  BY <1>1, <1>2, <1>3, <1>12, <1>13 DEF m

\* What is asked of the current event is asked of one number more than all
\* lines received have.
LEMMA BlockNumbers ==
    ASSUME NEW s \in Seq(LineTypes)
    PROVE  /\ Len(s) \in Nat /\ DOMAIN s = 1..Len(s)
           /\ \A i \in DOMAIN s : s[i] \in LineTypes
           /\ Current(s) \in Nat \ {0}
           /\ \A i \in DOMAIN s : BlockOf(s, i) \in 1..Current(s)
           /\ \A i, j \in DOMAIN s : BlockOf(s, i) < BlockOf(s, j) => i < j
<1>1. Len(s) \in Nat /\ DOMAIN s = 1..Len(s) /\ \A i \in 1..Len(s) : s[i] \in LineTypes
  BY LenProperties, ElementOfSeq
<1>2. Current(s) \in Nat \ {0}
  BY <1>1, BlocksInOrder DEF Current
<1>3. ASSUME NEW i \in 1..Len(s) PROVE BlockOf(s, i) \in 1..Current(s)
  <2>1. BlockOf(s, i) \in Nat \ {0} /\ BlockOf(s, i) <= Current(s)
    BY <1>1, BlocksInOrder DEF Current
  <2> QED
    BY <1>2, <2>1
<1>4. ASSUME NEW i \in 1..Len(s), NEW j \in 1..Len(s), BlockOf(s, i) < BlockOf(s, j)
      PROVE  i < j
  <2>1. ASSUME j <= i PROVE FALSE
    <3>1. BlockOf(s, j) <= BlockOf(s, i)
      BY <1>1, <2>1, BlocksInOrder
    <3> QED
      BY <1>3, <1>4, <3>1
  <2> QED
    BY <1>1, <2>1
<1> QED
  BY <1>1, <1>2, <1>3, <1>4

\* The last event: field of an event is one.
LEMMA LastEventLine ==
    ASSUME NEW s \in Seq(LineTypes), NEW b, EventLines(s, b) # {}
    PROVE  Max(EventLines(s, b)) \in EventLines(s, b)
<1>1. EventLines(s, b) \subseteq 1..Len(s) /\ Len(s) \in Nat
  BY BlockNumbers DEF EventLines
<1>2. \E m \in EventLines(s, b) : \A k \in EventLines(s, b) : m >= k
  BY <1>1, GreatestExists
<1> QED
  BY <1>2 DEF Max

\* A line comes after the others, which stay as they are, and is of the current
\* event.
LEMMA OneLineMore ==
    ASSUME NEW s \in Seq(LineTypes), NEW l \in LineTypes
    PROVE  LET m == Append(s, l) IN
           /\ DOMAIN m = DOMAIN s \cup {Len(s) + 1} /\ Len(s) + 1 \notin DOMAIN s
           /\ m[Len(s) + 1] = l /\ BlockOf(m, Len(s) + 1) = Current(s)
           /\ \A i \in DOMAIN s : m[i] = s[i] /\ BlockOf(m, i) = BlockOf(s, i)
<1> DEFINE m == Append(s, l)
<1>1. /\ Len(s) \in Nat /\ DOMAIN s = 1..Len(s) /\ DOMAIN m = 1..Len(s) + 1
      /\ m[Len(s) + 1] = l /\ \A i \in 1..Len(s) : m[i] = s[i]
      /\ \A i \in 1..Len(s) + 1 : BlockOf(m, i) = BlockOf(s, i)
  BY BlocksAfter
<1>2. 1..Len(s) + 1 = (1..Len(s)) \cup {Len(s) + 1} /\ Len(s) + 1 \notin 1..Len(s)
  BY <1>1
<1>3. BlockOf(m, Len(s) + 1) = Current(s)
  BY <1>1, <1>2 DEF Current
<1> QED
  BY <1>1, <1>2, <1>3

-----------------------------------------------------------------------------
(* A line more: what it does to the events of a stream.                    *)

\* A blank line says nothing.
LEMMA BlankSaysNothing ==
    ASSUME NEW s \in Seq(LineTypes)
    PROVE  LET m == Append(s, Blank) IN
           /\ Blocks(m) = Blocks(s)
           /\ \A b : TypeOfBlock(m, b) = TypeOfBlock(s, b)
           /\ \A B : Said(m, B) = Said(s, B)
<1> DEFINE m == Append(s, Blank)
           k == Len(s) + 1
<1>1. Blank \in LineTypes /\ Blank.field = "blank"
  BY DEF LineTypes, Blank
<1>2. /\ DOMAIN m = DOMAIN s \cup {k} /\ k \notin DOMAIN s /\ m[k] = Blank
      /\ \A i \in DOMAIN s : m[i] = s[i] /\ BlockOf(m, i) = BlockOf(s, i)
  BY <1>1, OneLineMore
<1> HIDE DEF k, m
<1>3. {j \in DOMAIN m : m[j] # Blank} = {j \in DOMAIN s : s[j] # Blank}
  BY <1>2
<1>4. Blocks(m) = Blocks(s)
  BY <1>2, <1>3 DEF Blocks
<1>5. ASSUME NEW b PROVE TypeOfBlock(m, b) = TypeOfBlock(s, b)
  <2>1. EventLines(m, b) = EventLines(s, b)
    BY <1>1, <1>2 DEF EventLines
  <2>2. EventLines(s, b) # {} => m[Max(EventLines(m, b))] = s[Max(EventLines(s, b))]
    <3>1. ASSUME EventLines(s, b) # {} PROVE Max(EventLines(s, b)) \in DOMAIN s
      BY <3>1, LastEventLine DEF EventLines
    <3> QED
      BY <1>2, <2>1, <3>1
  <2> QED
    BY <2>1, <2>2 DEF TypeOfBlock, EventLines
<1>6. ASSUME NEW B PROVE Said(m, B) = Said(s, B)
  <2>1. {j \in DOMAIN m : m[j].field = "data" /\ BlockOf(m, j) \in B}
          = {j \in DOMAIN s : s[j].field = "data" /\ BlockOf(s, j) \in B}
    BY <1>1, <1>2
  <2> QED
    BY <1>2, <2>1 DEF Said
<1> QED
  BY <1>4, <1>5, <1>6 DEF m

\* Any other line concerns the current event alone, which then is one.
LEMMA FieldOfCurrent ==
    ASSUME NEW s \in Seq(LineTypes), NEW l \in LineTypes, l # Blank
    PROVE  LET m == Append(s, l) IN
           /\ Blocks(m) = Blocks(s) \cup {Current(s)}
           /\ \A b : b # Current(s) => TypeOfBlock(m, b) = TypeOfBlock(s, b)
           /\ \A B : Current(s) \notin B => Said(m, B) = Said(s, B)
           /\ EventLines(m, Current(s)) = EventLines(s, Current(s))
                   \cup (IF l.field = "event" THEN {Len(s) + 1} ELSE {})
           /\ DataLines(m, Current(s)) = DataLines(s, Current(s))
                   \cup (IF l.field = "data" THEN {Len(s) + 1} ELSE {})
<1> DEFINE m == Append(s, l)
           k == Len(s) + 1
           n == Current(s)
<1>1. /\ DOMAIN m = DOMAIN s \cup {k} /\ k \notin DOMAIN s /\ m[k] = l /\ BlockOf(m, k) = n
      /\ \A i \in DOMAIN s : m[i] = s[i] /\ BlockOf(m, i) = BlockOf(s, i)
  BY OneLineMore
<1> HIDE DEF k, n, m
<1>2. {j \in DOMAIN m : m[j] # Blank} = {j \in DOMAIN s : s[j] # Blank} \cup {k}
  BY <1>1
<1>3. Blocks(m) = Blocks(s) \cup {n}
  BY <1>1, <1>2 DEF Blocks
<1>4. ASSUME NEW b, b # n PROVE TypeOfBlock(m, b) = TypeOfBlock(s, b)
  <2>1. EventLines(m, b) = EventLines(s, b)
    BY <1>1, <1>4 DEF EventLines
  <2>2. EventLines(s, b) # {} => m[Max(EventLines(m, b))] = s[Max(EventLines(s, b))]
    <3>1. ASSUME EventLines(s, b) # {} PROVE Max(EventLines(s, b)) \in DOMAIN s
      BY <3>1, LastEventLine DEF EventLines
    <3> QED
      BY <1>1, <2>1, <3>1
  <2> QED
    BY <2>1, <2>2 DEF TypeOfBlock, EventLines
<1>5. ASSUME NEW B, n \notin B PROVE Said(m, B) = Said(s, B)
  <2>1. {j \in DOMAIN m : m[j].field = "data" /\ BlockOf(m, j) \in B}
          = {j \in DOMAIN s : s[j].field = "data" /\ BlockOf(s, j) \in B}
    BY <1>1, <1>5
  <2> QED
    BY <1>1, <2>1 DEF Said
<1>6. EventLines(m, n) = EventLines(s, n) \cup (IF l.field = "event" THEN {k} ELSE {})
  <2>1. CASE l.field = "event"
    BY <1>1, <2>1 DEF EventLines
  <2>2. CASE l.field # "event"
    BY <1>1, <2>2 DEF EventLines
  <2> QED
    BY <2>1, <2>2
<1>7. DataLines(m, n) = DataLines(s, n) \cup (IF l.field = "data" THEN {k} ELSE {})
  <2>1. CASE l.field = "data"
    BY <1>1, <2>1 DEF DataLines
  <2>2. CASE l.field # "data"
    BY <1>1, <2>2 DEF DataLines
  <2> QED
    BY <2>1, <2>2
<1> QED
  BY <1>3, <1>4, <1>5, <1>6, <1>7 DEF k, n, m

LEMMA NothingSaid == <<>> \in Seq(Nat) /\ InOrder(<<>>, {})
<1>1. <<>> \in Seq(Nat) /\ Len(<<>>) = 0 /\ DOMAIN <<>> = 1..Len(<<>>)
  BY EmptySeq, LenProperties
<1>2. DOMAIN <<>> = {}
  BY <1>1
<1> QED
  BY <1>1, <1>2 DEF InOrder, ToSet

\* Texts of an earlier and of a later part of a stream join.
LEMMA Joined ==
    ASSUME NEW t \in Seq(Nat), NEW u \in Seq(Nat), NEW S, NEW T,
           InOrder(t, S), InOrder(u, T), \A x \in S, y \in T : x < y
    PROVE  t \o u \in Seq(Nat) /\ InOrder(t \o u, S \cup T)
<1> DEFINE v == t \o u
<1>1. /\ v \in Seq(Nat) /\ Len(t) \in Nat /\ Len(u) \in Nat /\ Len(v) = Len(t) + Len(u)
      /\ \A i \in 1..Len(v) : v[i] = IF i <= Len(t) THEN t[i] ELSE u[i - Len(t)]
  BY ConcatProperties, LenProperties
<1> HIDE DEF v
<1>2. DOMAIN t = 1..Len(t) /\ DOMAIN u = 1..Len(u) /\ DOMAIN v = 1..Len(v)
  BY <1>1, LenProperties
<1>3. S = {t[i] : i \in 1..Len(t)} /\ T = {u[i] : i \in 1..Len(u)}
  BY <1>2 DEF InOrder, ToSet
<1>4. ToSet(v) = S \cup T
  <2>1. ASSUME NEW i \in 1..Len(v) PROVE v[i] \in S \cup T
    <3>1. CASE i <= Len(t)
      BY <1>1, <1>3, <3>1
    <3>2. CASE ~(i <= Len(t))
      <4>1. i - Len(t) \in 1..Len(u) /\ v[i] = u[i - Len(t)]
        BY <1>1, <3>2
      <4> QED
        BY <1>3, <4>1
    <3> QED
      BY <3>1, <3>2
  <2>2. ASSUME NEW x \in S PROVE \E i \in 1..Len(v) : v[i] = x
    <3>1. PICK i \in 1..Len(t) : x = t[i]
      BY <1>3
    <3>2. i \in 1..Len(v) /\ v[i] = t[i]
      BY <1>1
    <3> QED
      BY <3>1, <3>2
  <2>3. ASSUME NEW x \in T PROVE \E i \in 1..Len(v) : v[i] = x
    <3>1. PICK i \in 1..Len(u) : x = u[i]
      BY <1>3
    <3>2. PICK j \in 1..Len(v) : j = Len(t) + i
      <4>1. Len(t) \in Nat /\ Len(u) \in Nat /\ Len(v) = Len(t) + Len(u)
        BY <1>1
      <4>2. Len(t) + i \in 1..Len(v)
        BY <4>1
      <4> QED
        BY <4>2
    <3>3. ~(j <= Len(t)) /\ j - Len(t) = i
      BY <1>1, <3>2
    <3>4. v[j] = u[i]
      BY <1>1, <3>3
    <3> QED
      BY <3>1, <3>4
  <2> QED
    BY <1>2, <2>1, <2>2, <2>3 DEF ToSet
<1>5. ASSUME NEW i \in 1..Len(v), NEW j \in 1..Len(v), i < j PROVE v[i] < v[j]
  <2>1. CASE j <= Len(t)
    <3>1. i \in 1..Len(t) /\ j \in 1..Len(t) /\ v[i] = t[i] /\ v[j] = t[j]
      <4>1. i <= Len(t) /\ i \in 1..Len(t) /\ j \in 1..Len(t)
        BY <1>1, <1>5, <2>1
      <4> QED
        BY <1>1, <2>1, <4>1
    <3> QED
      BY <1>2, <1>5, <3>1 DEF InOrder
  <2>2. CASE i <= Len(t) /\ ~(j <= Len(t))
    <3>1. /\ i \in 1..Len(t) /\ v[i] = t[i]
          /\ j - Len(t) \in 1..Len(u) /\ v[j] = u[j - Len(t)]
      <4>1. v[i] = t[i]
        BY <1>1, <2>2
      <4>2. v[j] = u[j - Len(t)]
        BY <1>1, <2>2
      <4>3. i \in 1..Len(t) /\ j - Len(t) \in 1..Len(u)
        <5>1. Len(t) \in Nat /\ Len(u) \in Nat /\ Len(v) = Len(t) + Len(u)
          BY <1>1
        <5> QED
          BY <2>2, <5>1
      <4> QED
        BY <4>1, <4>2, <4>3
    <3>2. v[i] \in S /\ v[j] \in T
      BY <1>3, <3>1
    <3> QED
      BY <3>2
  <2>3. CASE ~(i <= Len(t))
    <3>1. Len(t) \in Nat /\ Len(u) \in Nat /\ Len(v) = Len(t) + Len(u)
      BY <1>1
    <3>2. ~(j <= Len(t)) /\ i - Len(t) < j - Len(t)
      BY <1>5, <2>3, <3>1
    <3>3. i - Len(t) \in 1..Len(u) /\ j - Len(t) \in 1..Len(u)
      BY <2>3, <3>1, <3>2
    <3>4. v[i] = u[i - Len(t)]
      BY <1>1, <2>3
    <3>5. v[j] = u[j - Len(t)]
      BY <1>1, <3>2
    <3>6. u[i - Len(t)] < u[j - Len(t)]
      BY <1>2, <3>2, <3>3 DEF InOrder
    <3> QED
      BY <3>4, <3>5, <3>6
  <2> QED
    BY <1>1, <2>1, <2>2, <2>3
<1> QED
  BY <1>1, <1>2, <1>4, <1>5 DEF v, InOrder

-----------------------------------------------------------------------------
(* The parser.  Its locals say what the lines of the current event say, and *)
(* what the working events before it said; none of those was terminal.      *)

Before(s, t) == {b \in Blocks(s) : b < Current(s) /\ TypeOfBlock(s, b) = t}

Parsed(s, p) ==
    /\ \A i \in DOMAIN s : s[i].field = "data" => s[i].text \in {0, i}
    /\ \/ p.type = NoType /\ EventLines(s, Current(s)) = {}
       \/ \E i : EventLines(s, Current(s)) = {i} /\ s[i].type = p.type
    /\ \/ p.data = <<>> /\ DataLines(s, Current(s)) = {}
       \/ \E i : DataLines(s, Current(s)) = {i} /\ p.data = <<s[i].text>>
    /\ \A t \in Terminal : Before(s, t) = {}
    /\ InOrder(p.working, Said(s, Before(s, "working")))
ParserLocals == [type : EventTypes \cup {NoType}, data : Seq(Nat), working : Seq(Nat)]

\* The event that would be dispatched is the current one.
LEMMA CurrentEvent ==
    ASSUME NEW s \in Seq(LineTypes), NEW p \in ParserLocals, Parsed(s, p)
    PROVE  /\ Current(s) \in Blocks(s) <=> Buffered(p)
           /\ TypeOfBlock(s, Current(s)) = Dispatched(p).type
           /\ Dispatched(p).text \in Seq(Nat)
           /\ InOrder(Dispatched(p).text, Said(s, {Current(s)}))
           /\ Dispatched(p).text = <<>> <=> Said(s, {Current(s)}) = {}
<1> DEFINE n == Current(s)
<1>1. DOMAIN s = 1..Len(s) /\ \A i \in DOMAIN s : s[i] \in LineTypes
  BY BlockNumbers
<1>2. n \in Blocks(s) <=> EventLines(s, n) # {} \/ DataLines(s, n) # {}
  <2>1. \A i \in DOMAIN s : s[i] # Blank <=> s[i].field \in {"event", "data"}
    BY <1>1, LineKinds
  <2> QED
    BY <2>1 DEF Blocks, EventLines, DataLines
<1> HIDE DEF n
<1>3. /\ \/ p.type = NoType /\ EventLines(s, n) = {}
         \/ \E i : EventLines(s, n) = {i} /\ s[i].type = p.type
      /\ \/ p.data = <<>> /\ DataLines(s, n) = {}
         \/ \E i : DataLines(s, n) = {i} /\ p.data = <<s[i].text>>
  BY DEF Parsed, n
<1>4. \A i \in EventLines(s, n) : s[i].type # NoType
  BY <1>1, LineKinds, NoTypeApart DEF EventLines
<1>5. n \in Blocks(s) <=> Buffered(p)
  <2>1. p.type # NoType <=> EventLines(s, n) # {}
    BY <1>3, <1>4
  <2>2. p.data # <<>> <=> DataLines(s, n) # {}
    <3>1. \A x : <<x>> # <<>>
      OBVIOUS
    <3> QED
      BY <1>3, <3>1
  <2> QED
    BY <1>2, <2>1, <2>2 DEF Buffered
<1>6. TypeOfBlock(s, n) = Dispatched(p).type
  <2>1. CASE p.type = NoType /\ EventLines(s, n) = {}
    BY <2>1 DEF TypeOfBlock, Dispatched, EventLines
  <2>2. ASSUME NEW i, EventLines(s, n) = {i}, s[i].type = p.type
        PROVE  TypeOfBlock(s, n) = Dispatched(p).type
    <3>1. Max(EventLines(s, n)) = i
      BY <2>2, LastEventLine
    <3>2. p.type # NoType
      BY <1>4, <2>2
    <3> QED
      BY <2>2, <3>1, <3>2 DEF TypeOfBlock, Dispatched, EventLines
  <2> QED
    BY <1>3, <2>1, <2>2
<1>7. Said(s, {n}) = {s[i].text : i \in DataLines(s, n)} \ {0}
  BY DEF Said, DataLines
<1>8. Dispatched(p).text = IF p.data = <<0>> THEN <<>> ELSE p.data
  BY DEF Dispatched, Text
<1>9. CASE p.data = <<>> /\ DataLines(s, n) = {}
  <2>1. Dispatched(p).text = <<>> /\ Said(s, {n}) = {}
    BY <1>7, <1>8, <1>9
  <2> QED
    BY <1>5, <1>6, <2>1, NothingSaid DEF n
<1>10. ASSUME NEW i, DataLines(s, n) = {i}, p.data = <<s[i].text>>
       PROVE  /\ Dispatched(p).text \in Seq(Nat)
              /\ InOrder(Dispatched(p).text, Said(s, {n}))
              /\ Dispatched(p).text = <<>> <=> Said(s, {n}) = {}
  <2>1. s[i].text \in Nat
    BY <1>1, <1>10, LineKinds DEF DataLines
  <2>2. CASE s[i].text = 0
    <3>1. Dispatched(p).text = <<>> /\ Said(s, {n}) = {}
      BY <1>7, <1>8, <1>10, <2>2
    <3> QED
      BY <3>1, NothingSaid
  <2>3. CASE s[i].text # 0
    <3> DEFINE x == s[i].text
               t == <<x>>
    <3>1. Said(s, {n}) = {x}
      BY <1>7, <1>10, <2>3
    <3>2. t # <<0>>
      BY <2>3
    <3>3. Dispatched(p).text = t
      BY <1>8, <1>10, <3>2
    <3>4. t \in Seq(Nat) /\ DOMAIN t = {1} /\ t[1] = x /\ t # <<>>
      BY <2>1
    <3> HIDE DEF x, t
    <3>5. InOrder(t, {x})
      BY <3>4 DEF InOrder, ToSet
    <3> QED
      BY <3>1, <3>3, <3>4, <3>5
  <2> QED
    BY <2>1, <2>2, <2>3
<1> QED
  BY <1>3, <1>5, <1>6, <1>9, <1>10 DEF n

\* What the working events before the current one said comes before what the
\* current one says.
LEMMA SaidEarlier ==
    ASSUME NEW s \in Seq(LineTypes), NEW t,
           \A i \in DOMAIN s : s[i].field = "data" => s[i].text \in {0, i}
    PROVE  \A x \in Said(s, Before(s, t)), y \in Said(s, {Current(s)}) : x < y
<1>1. /\ DOMAIN s = 1..Len(s)
      /\ \A i, j \in DOMAIN s : BlockOf(s, i) < BlockOf(s, j) => i < j
  BY BlockNumbers
<1>2. \A b \in Before(s, t) : b < Current(s)
  BY DEF Before
<1>3. SUFFICES ASSUME NEW x \in Said(s, Before(s, t)), NEW y \in Said(s, {Current(s)})
               PROVE  x < y
  OBVIOUS
<1>4. PICK i \in DOMAIN s : /\ s[i].field = "data" /\ BlockOf(s, i) \in Before(s, t)
                            /\ x = s[i].text /\ x # 0
  BY DEF Said
<1>5. PICK j \in DOMAIN s : /\ s[j].field = "data" /\ BlockOf(s, j) = Current(s)
                            /\ y = s[j].text /\ y # 0
  BY DEF Said
<1>6. BlockOf(s, i) < BlockOf(s, j)
  BY <1>2, <1>4, <1>5
<1>7. x = i /\ y = j
  BY <1>4, <1>5
<1> QED
  BY <1>1, <1>6, <1>7

LEMMA SaidTogether ==
    ASSUME NEW s, NEW A, NEW B
    PROVE  Said(s, A \cup B) = Said(s, A) \cup Said(s, B)
<1> DEFINE at(C) == {j \in DOMAIN s : s[j].field = "data" /\ BlockOf(s, j) \in C}
           text(I) == {s[i].text : i \in I} \ {0}
<1>1. at(A \cup B) = at(A) \cup at(B)
  OBVIOUS
<1>2. text(at(A) \cup at(B)) = text(at(A)) \cup text(at(B))
  OBVIOUS
<1>3. /\ Said(s, A \cup B) = text(at(A \cup B))
      /\ Said(s, A) = text(at(A)) /\ Said(s, B) = text(at(B))
  BY DEF Said
<1> HIDE DEF at, text
<1> QED
  BY <1>1, <1>2, <1>3

\* An event that does not end the consult is passed.
LEMMA BlankParsed ==
    ASSUME NEW s \in Seq(LineTypes), NEW p \in ParserLocals, Parsed(s, p),
           Buffered(p), ~Ends(p)
    PROVE  AfterBlank(p) \in ParserLocals /\ Parsed(Append(s, Blank), AfterBlank(p))
<1> DEFINE m == Append(s, Blank)
           n == Current(s)
           q == AfterBlank(p)
           e == Dispatched(p)
<1>1. Blank \in LineTypes /\ Blank.field = "blank"
  BY DEF LineTypes, Blank
<1>2. /\ DOMAIN m = DOMAIN s \cup {Len(s) + 1} /\ Len(s) + 1 \notin DOMAIN s
      /\ m[Len(s) + 1] = Blank /\ BlockOf(m, Len(s) + 1) = n
      /\ \A i \in DOMAIN s : m[i] = s[i] /\ BlockOf(m, i) = BlockOf(s, i)
  BY <1>1, OneLineMore
<1>3. n \in Nat \ {0} /\ \A i \in DOMAIN s : BlockOf(s, i) \in 1..n
  BY BlockNumbers
<1>4. Current(m) = n + 1
  BY <1>1, BlocksAfter
<1>5. /\ Blocks(m) = Blocks(s)
      /\ \A b : TypeOfBlock(m, b) = TypeOfBlock(s, b)
      /\ \A B : Said(m, B) = Said(s, B)
  BY BlankSaysNothing
<1>6. /\ n \in Blocks(s) /\ TypeOfBlock(s, n) = e.type
      /\ e.text \in Seq(Nat) /\ InOrder(e.text, Said(s, {n}))
  BY CurrentEvent
<1>7. e.type \notin Terminal
  BY DEF Ends
<1>8. \A x \in Said(s, Before(s, "working")), y \in Said(s, {n}) : x < y
  BY SaidEarlier DEF Parsed
<1>9. /\ \A i \in DOMAIN s : s[i].field = "data" => s[i].text \in {0, i}
      /\ \A t \in Terminal : Before(s, t) = {}
      /\ InOrder(p.working, Said(s, Before(s, "working")))
      /\ p.working \in Seq(Nat)
  BY DEF Parsed, ParserLocals
<1>10. /\ q.type = NoType /\ q.data = <<>>
       /\ q.working = IF e.type = "working" THEN p.working \o e.text ELSE p.working
       /\ q = [type |-> q.type, data |-> q.data, working |-> q.working]
  BY DEF AfterBlank
<1> HIDE DEF m, n, q, e
<1>11. EventLines(m, n + 1) = {} /\ DataLines(m, n + 1) = {}
  <2>1. ASSUME NEW i \in DOMAIN m PROVE BlockOf(m, i) # n + 1
    BY <1>2, <1>3
  <2> QED
    BY <2>1 DEF EventLines, DataLines
<1>12. \A i \in DOMAIN m : m[i].field = "data" => m[i].text \in {0, i}
  BY <1>1, <1>2, <1>9
<1>13. ASSUME NEW t PROVE Before(m, t) = Before(s, t) \cup (IF e.type = t THEN {n} ELSE {})
  <2>1. \A b \in Blocks(s) : b \in 1..n
    BY <1>3 DEF Blocks
  <2>2. \A b \in Blocks(s) : b < n + 1 /\ (b < n <=> b # n)
    BY <1>3, <2>1
  <2>3. Before(m, t) = {b \in Blocks(s) : TypeOfBlock(s, b) = t}
    BY <1>4, <1>5, <2>2 DEF Before
  <2>4. Before(s, t) = {b \in Blocks(s) : b # n /\ TypeOfBlock(s, b) = t}
    BY <2>2 DEF Before, n
  <2> QED
    BY <1>6, <2>3, <2>4
<1>14. \A t \in Terminal : Before(m, t) = {}
  BY <1>7, <1>9, <1>13
<1>15. q.working \in Seq(Nat) /\ InOrder(q.working, Said(m, Before(m, "working")))
  <2>1. CASE e.type = "working"
    <3>1. Before(m, "working") = Before(s, "working") \cup {n}
      BY <1>13, <2>1
    <3>2. Said(m, Before(m, "working")) = Said(s, Before(s, "working")) \cup Said(s, {n})
      BY <1>5, <3>1, SaidTogether
    <3>3. q.working = p.working \o e.text
      BY <1>10, <2>1
    <3> DEFINE S == Said(s, Before(s, "working"))
               T == Said(s, {n})
    <3>4. InOrder(p.working, S) /\ InOrder(e.text, T) /\ \A x \in S, y \in T : x < y
      BY <1>6, <1>8, <1>9
    <3>5. p.working \in Seq(Nat) /\ e.text \in Seq(Nat)
      BY <1>6, <1>9
    <3> HIDE DEF S, T
    <3>6. p.working \o e.text \in Seq(Nat) /\ InOrder(p.working \o e.text, S \cup T)
      BY <3>4, <3>5, Joined
    <3> QED
      BY <3>2, <3>3, <3>6 DEF S, T
  <2>2. CASE e.type # "working"
    <3>1. Before(m, "working") = Before(s, "working")
      BY <1>13, <2>2
    <3> QED
      BY <1>5, <1>9, <1>10, <2>2, <3>1
  <2> QED
    BY <2>1, <2>2
<1>16. q \in ParserLocals
  <2>1. q.type \in EventTypes \cup {NoType} /\ q.data \in Seq(Nat)
    BY <1>10
  <2> QED
    BY <1>10, <1>15, <2>1 DEF ParserLocals
<1>17. Parsed(m, q)
  BY <1>4, <1>10, <1>11, <1>12, <1>14, <1>15 DEF Parsed
<1> QED
  BY <1>16, <1>17 DEF m, q

\* A field of the current event is buffered.
LEMMA FieldParsed ==
    ASSUME NEW s \in Seq(LineTypes), NEW p \in ParserLocals, Parsed(s, p),
           NEW l,
           \/ p.type = NoType /\ \E t \in EventTypes : l = EventLine(t)
           \/ p.data = <<>> /\ \E x \in {0, Len(s) + 1} : l = DataLine(x)
    PROVE  /\ l \in LineTypes /\ Buffer(p, l) \in ParserLocals
           /\ Parsed(Append(s, l), Buffer(p, l))
<1> DEFINE m == Append(s, l)
           n == Current(s)
           k == Len(s) + 1
           q == Buffer(p, l)
<1>1. k \in Nat
  BY BlockNumbers
<1>2. \/ /\ p.type = NoType /\ l \in LineTypes /\ l.field = "event"
         /\ l.type \in EventTypes /\ q = [p EXCEPT !.type = l.type]
      \/ /\ p.data = <<>> /\ l \in LineTypes /\ l.field = "data"
         /\ l.text \in {0, k} /\ q = [p EXCEPT !.data = Append(@, l.text)]
  <2>1. ASSUME NEW t \in EventTypes, l = EventLine(t)
        PROVE  l \in LineTypes /\ l.field = "event" /\ l.type = t
    BY <2>1 DEF EventLine, LineTypes
  <2>2. ASSUME NEW x \in {0, k}, l = DataLine(x)
        PROVE  l \in LineTypes /\ l.field = "data" /\ l.text = x
    BY <1>1, <2>2 DEF DataLine, LineTypes
  <2>3. CASE p.type = NoType /\ \E t \in EventTypes : l = EventLine(t)
    BY <2>1, <2>3 DEF Buffer
  <2>4. CASE p.data = <<>> /\ \E x \in {0, k} : l = DataLine(x)
    BY <2>2, <2>4 DEF Buffer
  <2> QED
    BY <2>3, <2>4
<1>3. l \in LineTypes /\ l # Blank
  BY <1>2 DEF Blank
<1>4. /\ DOMAIN m = DOMAIN s \cup {k} /\ k \notin DOMAIN s /\ m[k] = l
      /\ \A i \in DOMAIN s : m[i] = s[i]
  BY <1>3, OneLineMore
<1>5. Current(m) = n
  BY <1>3, BlocksAfter
<1>6. /\ Blocks(m) = Blocks(s) \cup {n}
      /\ \A b : b # n => TypeOfBlock(m, b) = TypeOfBlock(s, b)
      /\ \A B : n \notin B => Said(m, B) = Said(s, B)
      /\ EventLines(m, n) = EventLines(s, n) \cup (IF l.field = "event" THEN {k} ELSE {})
      /\ DataLines(m, n) = DataLines(s, n) \cup (IF l.field = "data" THEN {k} ELSE {})
  BY <1>3, FieldOfCurrent
<1>7. n \in Nat
  BY BlockNumbers
<1>8. /\ \A i \in DOMAIN s : s[i].field = "data" => s[i].text \in {0, i}
      /\ \/ p.type = NoType /\ EventLines(s, n) = {}
         \/ \E i : EventLines(s, n) = {i} /\ s[i].type = p.type
      /\ \/ p.data = <<>> /\ DataLines(s, n) = {}
         \/ \E i : DataLines(s, n) = {i} /\ p.data = <<s[i].text>>
      /\ \A t \in Terminal : Before(s, t) = {}
      /\ InOrder(p.working, Said(s, Before(s, "working")))
  BY DEF Parsed
<1>9. /\ p.type \in EventTypes \cup {NoType} /\ p.data \in Seq(Nat) /\ p.working \in Seq(Nat)
      /\ p = [type |-> p.type, data |-> p.data, working |-> p.working]
  BY DEF ParserLocals
<1>10. EventLines(s, n) \subseteq DOMAIN s /\ DataLines(s, n) \subseteq DOMAIN s
  BY DEF EventLines, DataLines
<1>11. \A i \in EventLines(s, n) : s[i].type # NoType
  <2>1. \A i \in DOMAIN s : s[i] \in LineTypes
    BY BlockNumbers
  <2> QED
    BY <2>1, LineKinds, NoTypeApart DEF EventLines
<1>12. ASSUME NEW t PROVE Before(m, t) = Before(s, t) /\ n \notin Before(s, t)
  <2>1. ~(n < n)
    BY <1>7
  <2>2. Before(m, t) = {b \in Blocks(s) \cup {n} : b < n /\ TypeOfBlock(m, b) = t}
    BY <1>5, <1>6 DEF Before
  <2>3. \A b : b < n => b # n
    BY <2>1
  <2>4. Before(s, t) = {b \in Blocks(s) : b < n /\ TypeOfBlock(s, b) = t}
    BY DEF Before
  <2> HIDE DEF m, n
  <2> QED
    BY <1>6, <2>1, <2>2, <2>3, <2>4
<1> HIDE DEF m, n, k, q
<1>13. Said(m, Before(m, "working")) = Said(s, Before(s, "working"))
  BY <1>6, <1>12
<1>14. \A t \in Terminal : Before(m, t) = {}
  BY <1>8, <1>12
<1>15. CASE /\ p.type = NoType /\ l.field = "event"
            /\ l.type \in EventTypes /\ q = [p EXCEPT !.type = l.type]
  <2>1. /\ q.type = l.type /\ q.data = p.data /\ q.working = p.working
        /\ q \in ParserLocals
    BY <1>9, <1>15 DEF ParserLocals
  <2>2. EventLines(s, n) = {}
    BY <1>8, <1>11, <1>15
  <2>3. EventLines(m, n) = {k} /\ m[k].type = q.type
    BY <1>4, <1>6, <1>15, <2>1, <2>2
  <2>4. DataLines(m, n) = DataLines(s, n)
    BY <1>6, <1>15
  <2>5. \/ q.data = <<>> /\ DataLines(m, n) = {}
        \/ \E i : DataLines(m, n) = {i} /\ q.data = <<m[i].text>>
    BY <1>4, <1>8, <1>10, <2>1, <2>4
  <2>6. \A i \in DOMAIN m : m[i].field = "data" => m[i].text \in {0, i}
    BY <1>4, <1>8, <1>15
  <2>7. InOrder(q.working, Said(m, Before(m, "working")))
    BY <1>8, <1>13, <2>1
  <2>8. Parsed(m, q)
    BY <1>5, <1>14, <2>3, <2>5, <2>6, <2>7 DEF Parsed
  <2> QED
    BY <1>3, <2>1, <2>8 DEF m, q
<1>16. CASE /\ p.data = <<>> /\ l.field = "data"
            /\ l.text \in {0, k} /\ q = [p EXCEPT !.data = Append(@, l.text)]
  <2>1. Append(<<>>, l.text) = <<l.text>> /\ l.text \in Nat
    BY <1>1, <1>16 DEF k
  <2>2. /\ q.type = p.type /\ q.data = <<l.text>> /\ q.working = p.working
        /\ q \in ParserLocals
    <3> DEFINE d == <<l.text>>
    <3>1. q = [p EXCEPT !.data = d] /\ d \in Seq(Nat)
      BY <1>16, <2>1
    <3> HIDE DEF d
    <3>2. /\ q.type = p.type /\ q.data = d /\ q.working = p.working
          /\ q = [type |-> q.type, data |-> q.data, working |-> q.working]
      BY <1>9, <3>1
    <3>3. q \in ParserLocals
      BY <1>9, <3>1, <3>2 DEF ParserLocals
    <3> QED
      BY <3>2, <3>3 DEF d
  <2>3. DataLines(s, n) = {}
    <3>1. \A x : <<x>> # <<>>
      OBVIOUS
    <3> QED
      BY <1>8, <1>16, <3>1
  <2>4. DataLines(m, n) = {k} /\ q.data = <<m[k].text>>
    BY <1>4, <1>6, <1>16, <2>2, <2>3
  <2>5. EventLines(m, n) = EventLines(s, n)
    BY <1>6, <1>16
  <2>6. \/ q.type = NoType /\ EventLines(m, n) = {}
        \/ \E i : EventLines(m, n) = {i} /\ m[i].type = q.type
    BY <1>4, <1>8, <1>10, <2>2, <2>5
  <2>7. \A i \in DOMAIN m : m[i].field = "data" => m[i].text \in {0, i}
    BY <1>4, <1>8, <1>16
  <2>8. InOrder(q.working, Said(m, Before(m, "working")))
    BY <1>8, <1>13, <2>2
  <2>9. Parsed(m, q)
    BY <1>5, <1>14, <2>4, <2>6, <2>7, <2>8 DEF Parsed
  <2> QED
    BY <1>3, <2>2, <2>9 DEF m, q
<1> QED
  BY <1>2, <1>15, <1>16

\* Nothing is parsed of a stream that was just opened.
LEMMA StartParsed ==
    <<>> \in Seq(LineTypes) /\ Start \in ParserLocals /\ Parsed(<<>>, Start)
<1> DEFINE s == <<>>
<1>1. s \in Seq(LineTypes) /\ DOMAIN s = {}
  <2>1. s \in Seq(LineTypes) /\ Len(s) = 0
    OBVIOUS
  <2> QED
    BY <2>1, BlockNumbers
<1>2. /\ Start \in ParserLocals
      /\ Start.type = NoType /\ Start.data = <<>> /\ Start.working = <<>>
  BY DEF Start, ParserLocals
<1>3. ASSUME NEW B PROVE Said(s, B) = {}
  BY <1>1 DEF Said
<1>4. ASSUME NEW b PROVE EventLines(s, b) = {} /\ DataLines(s, b) = {}
  BY <1>1 DEF EventLines, DataLines
<1>5. ASSUME NEW t PROVE Before(s, t) = {}
  BY <1>1 DEF Before, Blocks
<1>6. InOrder(Start.working, Said(s, Before(s, "working")))
  BY <1>2, <1>3, NothingSaid
<1> HIDE DEF s
<1>7. Parsed(s, Start)
  BY <1>1, <1>2, <1>4, <1>5, <1>6 DEF Parsed
<1> QED
  BY <1>1, <1>2, <1>7 DEF s

\* A blank line does not change what a stream means.
LEMMA BlankMeansNothing ==
    ASSUME NEW s \in Seq(LineTypes), NEW r, Means(s, r)
    PROVE  Means(Append(s, Blank), r)
<1> DEFINE m == Append(s, Blank)
           terminal(q) == {b \in Blocks(q) : TypeOfBlock(q, b) \in Terminal}
           before(q, f) == {b \in Blocks(q) : b < f /\ TypeOfBlock(q, b) = "working"}
<1>1. /\ Blocks(m) = Blocks(s)
      /\ \A b : TypeOfBlock(m, b) = TypeOfBlock(s, b)
      /\ \A B : Said(m, B) = Said(s, B)
  BY BlankSaysNothing
<1> HIDE DEF m
<1> DEFINE first == Min(terminal(s))
<1>2. terminal(m) = terminal(s) /\ before(m, first) = before(s, first)
  BY <1>1
<1>3. /\ TypeOfBlock(m, first) = TypeOfBlock(s, first)
      /\ Said(m, {first}) = Said(s, {first})
      /\ Said(m, before(m, first)) = Said(s, before(s, first))
  BY <1>1, <1>2
<1>4. ASSUME NEW q
      PROVE  Means(q, r) <=>
               IF terminal(q) = {}
               THEN r.status = StreamClosed.status /\ r.text = StreamClosed.text
               ELSE /\ r.status = TypeOfBlock(q, Min(terminal(q)))
                    /\ InOrder(r.text, IF Said(q, {Min(terminal(q))}) # {}
                                       THEN Said(q, {Min(terminal(q))})
                                       ELSE Said(q, before(q, Min(terminal(q)))))
  BY DEF Means
<1>5. /\ Means(m, r) <=>
           IF terminal(s) = {}
           THEN r.status = StreamClosed.status /\ r.text = StreamClosed.text
           ELSE /\ r.status = TypeOfBlock(m, first)
                /\ InOrder(r.text, IF Said(m, {first}) # {} THEN Said(m, {first})
                                   ELSE Said(m, before(m, first)))
      /\ Means(s, r) <=>
           IF terminal(s) = {}
           THEN r.status = StreamClosed.status /\ r.text = StreamClosed.text
           ELSE /\ r.status = TypeOfBlock(s, first)
                /\ InOrder(r.text, IF Said(s, {first}) # {} THEN Said(s, {first})
                                   ELSE Said(s, before(s, first)))
  <2> HIDE DEF terminal, before
  <2> QED
    BY <1>2, <1>4
<1> HIDE DEF terminal, before, first
<1>6. Means(m, r)
  BY <1>3, <1>5
<1> QED
  BY <1>6 DEF m

\* The answer found in the parser's locals is what the stream means.
LEMMA AnswerMeant ==
    ASSUME NEW s \in Seq(LineTypes), NEW p \in ParserLocals, Parsed(s, p), NEW r,
           r.status = IF Ends(p) THEN Response(p).status ELSE StreamClosed.status,
           r.text = IF Ends(p) THEN Response(p).text ELSE StreamClosed.text
    PROVE  Means(s, r)
<1> DEFINE n == Current(s)
           e == Dispatched(p)
           terminal == {b \in Blocks(s) : TypeOfBlock(s, b) \in Terminal}
<1>1. n \in Nat /\ \A b \in Blocks(s) : b \in 1..n
  BY BlockNumbers DEF Blocks
<1>2. /\ n \in Blocks(s) <=> Buffered(p)
      /\ TypeOfBlock(s, n) = e.type
      /\ e.text \in Seq(Nat) /\ InOrder(e.text, Said(s, {n}))
      /\ e.text = <<>> <=> Said(s, {n}) = {}
  BY CurrentEvent
<1>3. /\ \A t \in Terminal : Before(s, t) = {}
      /\ InOrder(p.working, Said(s, Before(s, "working")))
  BY DEF Parsed
<1>4. \A b \in terminal : b = n
  <2>1. ASSUME NEW b \in terminal, b # n PROVE FALSE
    <3>1. b < n
      BY <1>1, <2>1
    <3>2. b \in Before(s, TypeOfBlock(s, b)) /\ TypeOfBlock(s, b) \in Terminal
      BY <2>1, <3>1 DEF Before
    <3> QED
      BY <1>3, <3>2
  <2> QED
    BY <2>1
<1>5. n \in terminal <=> Ends(p)
  BY <1>2 DEF Ends
<1>6. CASE ~Ends(p)
  <2>1. terminal = {}
    BY <1>4, <1>5, <1>6
  <2> QED
    BY <1>6, <2>1 DEF Means
<1>7. CASE Ends(p)
  <2>1. terminal = {n}
    BY <1>4, <1>5, <1>7
  <2>2. Min(terminal) = n
    <3>1. n <= n
      BY <1>1
    <3> HIDE DEF n, terminal
    <3> QED
      BY <2>1, <3>1 DEF Min
  <2>3. /\ r.status = e.type
        /\ r.text = IF e.text = <<>> THEN p.working ELSE e.text
    BY <1>7 DEF Response
  <2>4. Before(s, "working") = {b \in Blocks(s) : b < n /\ TypeOfBlock(s, b) = "working"}
    BY DEF Before
  <2>5. /\ r.status = TypeOfBlock(s, n)
        /\ InOrder(r.text, IF Said(s, {n}) # {} THEN Said(s, {n})
                           ELSE Said(s, Before(s, "working")))
    <3> HIDE DEF n, e
    <3>1. CASE e.text = <<>>
      BY <1>2, <1>3, <2>3, <3>1
    <3>2. CASE e.text # <<>>
      BY <1>2, <2>3, <3>2
    <3> QED
      BY <3>1, <3>2
  <2> HIDE DEF n
  <2> QED
    BY <2>1, <2>2, <2>4, <2>5 DEF Means
<1> QED
  BY <1>6, <1>7

-----------------------------------------------------------------------------
(* What the consults make of their streams.                                *)

Links == {"none", "submitting", "submitted", "streaming"}

Streams ==
    /\ lines \in [Calls -> Seq(LineTypes)]
    /\ parser \in [Calls -> ParserLocals]
    /\ fresh \in [Calls -> BOOLEAN] /\ link \in [Calls -> Links]
    /\ \A c \in Calls : Asking(c) => Parsed(lines[c], parser[c])
    /\ ParsedAsSent

\* A step of call c, which leaves the other calls alone.
LEMMA OneStream ==
    ASSUME Streams, NEW c \in Calls, UNCHANGED registry, Elsewhere(c),
           lines' \in [Calls -> Seq(LineTypes)],
           parser' \in [Calls -> ParserLocals],
           fresh' \in [Calls -> BOOLEAN], link' \in [Calls -> Links],
           \A d \in Calls \ {c} : lines'[d] = lines[d] /\ parser'[d] = parser[d],
           Asking(c)' => Parsed(lines'[c], parser'[c]),
           pc'[c] = "answered" /\ Via(c) = "a2a" =>
               Means(lines'[c], response'[c]) /\ response'[c].artefacts = <<>>
    PROVE  Streams'
<1>1. ASSUME NEW d \in Calls, Asking(d)' PROVE Parsed(lines'[d], parser'[d])
  <2>1. CASE d = c
    BY <1>1, <2>1
  <2>2. CASE d # c
    BY <1>1, <2>2 DEF Streams, Asking, Via, Elsewhere
  <2> QED
    BY <2>1, <2>2
<1>2. ASSUME NEW d \in Calls, pc'[d] = "answered", Via(d)' = "a2a"
      PROVE  Means(lines'[d], response'[d]) /\ response'[d].artefacts = <<>>
  <2>1. CASE d = c
    BY <1>2, <2>1 DEF Via
  <2>2. CASE d # c
    <3>1. lines'[d] = lines[d] /\ pc[d] = "answered" /\ response'[d] = response[d]
      BY <1>2, <2>2 DEF Elsewhere
    <3>2. Via(d) = "a2a"
      BY <1>2 DEF Via
    <3>3. Means(lines[d], response[d]) /\ response[d].artefacts = <<>>
      BY <3>1, <3>2 DEF Streams, ParsedAsSent
    <3> QED
      BY <3>1, <3>3
  <2> QED
    BY <2>1, <2>2
<1> QED
  BY <1>1, <1>2 DEF Streams, ParsedAsSent

\* A line received is parsed.
LEMMA LineParsed ==
    ASSUME Streams, CallTypes, NEW c \in Calls, Line(c)
    PROVE  Streams'
<1>1. PICK l \in Sendable(c) : Receive(c, l)
  BY DEF Line
<1>2. Asking(c) /\ UNCHANGED dispatch
  BY DEF Line
<1> DEFINE s == lines[c]
           p == parser[c]
<1>3. s \in Seq(LineTypes) /\ p \in ParserLocals /\ Parsed(s, p)
  BY <1>2 DEF Streams
<1>4. \/ l = Blank /\ Buffered(p)
      \/ p.type = NoType /\ \E t \in EventTypes : l = EventLine(t)
      \/ p.data = <<>> /\ \E x \in {0, Len(s) + 1} : l = DataLine(x)
  <2>1. l \in (IF Buffered(p) THEN {Blank} ELSE {})
              \cup {EventLine(t) : t \in IF p.type = NoType THEN EventTypes ELSE {}}
              \cup {DataLine(x) : x \in IF p.data = <<>> THEN {0, Len(s) + 1} ELSE {}}
    BY <1>1 DEF Sendable
  <2> HIDE DEF s, p
  <2> QED
    BY <2>1
<1>5. /\ ~(l = Blank /\ Ends(p))
      /\ lines' = [lines EXCEPT ![c] = Append(s, l)]
      /\ parser' = [parser EXCEPT ![c] = Buffer(p, l)]
      /\ fresh' = [fresh EXCEPT ![c] = TRUE] /\ link' = link
  BY <1>1 DEF Receive
<1> HIDE DEF s, p
<1>6. l \in LineTypes /\ Buffer(p, l) \in ParserLocals /\ Parsed(Append(s, l), Buffer(p, l))
  <2>1. CASE l = Blank /\ Buffered(p)
    <3>1. Buffer(p, l) = AfterBlank(p) /\ l \in LineTypes
      BY <2>1 DEF Buffer, Blank, LineTypes
    <3>2. AfterBlank(p) \in ParserLocals /\ Parsed(Append(s, Blank), AfterBlank(p))
      BY <1>3, <1>5, <2>1, BlankParsed
    <3> QED
      BY <2>1, <3>1, <3>2
  <2>2. CASE \/ p.type = NoType /\ \E t \in EventTypes : l = EventLine(t)
             \/ p.data = <<>> /\ \E x \in {0, Len(s) + 1} : l = DataLine(x)
    BY <1>3, <2>2, FieldParsed
  <2> QED
    BY <1>4, <2>1, <2>2
<1>7. Append(s, l) \in Seq(LineTypes)
  BY <1>3, <1>6, AppendProperties
<1>8. /\ lines' \in [Calls -> Seq(LineTypes)] /\ parser' \in [Calls -> ParserLocals]
      /\ fresh' \in [Calls -> BOOLEAN] /\ link' \in [Calls -> Links]
      /\ lines'[c] = Append(s, l) /\ parser'[c] = Buffer(p, l)
      /\ \A d \in Calls \ {c} : lines'[d] = lines[d] /\ parser'[d] = parser[d]
  BY <1>5, <1>6, <1>7 DEF Streams
<1>9. /\ UNCHANGED registry /\ Elsewhere(c) /\ pc'[c] # "answered"
  BY <1>2 DEF dispatch, Elsewhere, Asking
<1> QED
  BY <1>6, <1>8, <1>9, OneStream

\* The answer to a consult that is over is what its stream means.
LEMMA StreamAnswered ==
    ASSUME Streams, CallTypes, NEW c \in Calls, LastLine(c) \/ Closed(c)
    PROVE  Streams'
<1> DEFINE s == lines[c]
           p == parser[c]
           r == IF Ends(p) THEN Bare(Response(p)) ELSE Bare(StreamClosed)
<1>1. Asking(c) /\ UNCHANGED <<registry, parser, fresh, link>>
  BY DEF LastLine, Closed, stream, ReceiveLast
<1>2. s \in Seq(LineTypes) /\ p \in ParserLocals /\ Parsed(s, p)
  BY <1>1 DEF Streams
<1>3. Answered(c, r)
  BY DEF LastLine, Closed, ReceiveLast, AtEnd
<1>4. lines' = lines \/ lines' = [lines EXCEPT ![c] = Append(s, Blank)]
  BY DEF LastLine, Closed, ReceiveLast, stream
<1>5. /\ r.status = IF Ends(p) THEN Response(p).status ELSE StreamClosed.status
      /\ r.text = IF Ends(p) THEN Response(p).text ELSE StreamClosed.text
      /\ r.artefacts = <<>>
  BY DEF Bare
<1>6. /\ pc'[c] = "answered" /\ response'[c] = r /\ Elsewhere(c)
  BY <1>3, <1>4 DEF Answered, Goto, CallTypes, Elsewhere, LastLine, Closed
<1> HIDE DEF s, p, r
<1>7. Means(s, r)
  BY <1>2, <1>5, AnswerMeant
<1>8. Means(Append(s, Blank), r)
  BY <1>2, <1>7, BlankMeansNothing
<1>9. Append(s, Blank) \in Seq(LineTypes)
  BY <1>2, AppendProperties DEF LineTypes
<1>10. /\ lines' \in [Calls -> Seq(LineTypes)]
       /\ lines'[c] \in {s, Append(s, Blank)}
       /\ \A d \in Calls \ {c} : lines'[d] = lines[d]
  BY <1>4, <1>9 DEF Streams, s
<1>11. Means(lines'[c], r)
  BY <1>7, <1>8, <1>10
<1>12. ~Asking(c)'
  BY <1>6 DEF Asking
<1>13. /\ parser' \in [Calls -> ParserLocals]
       /\ fresh' \in [Calls -> BOOLEAN] /\ link' \in [Calls -> Links]
  BY <1>1 DEF Streams
<1>14. \A d \in Calls \ {c} : lines'[d] = lines[d] /\ parser'[d] = parser[d]
  BY <1>1, <1>10
<1> QED
  BY <1>1, <1>5, <1>6, <1>10, <1>11, <1>12, <1>13, <1>14, OneStream

LEMMA StreamOpened ==
    ASSUME Streams, CallTypes, NEW c \in Calls, Ask(c)
    PROVE  Streams'
<1>1. UNCHANGED <<registry, outcome, response>> /\ pc' = [pc EXCEPT ![c] = "asking"]
  BY DEF Ask, Goto
<1>2. pc'[c] = "asking" /\ Elsewhere(c)
  BY <1>1 DEF CallTypes, Elsewhere
<1>3. CASE Submit(c)
  <2>1. /\ lines' = [lines EXCEPT ![c] = <<>>]
        /\ parser' = [parser EXCEPT ![c] = Start]
        /\ fresh' = [fresh EXCEPT ![c] = TRUE]
        /\ link' = [link EXCEPT ![c] = "submitting"]
    BY <1>3 DEF Submit
  <2>2. /\ lines' \in [Calls -> Seq(LineTypes)] /\ parser' \in [Calls -> ParserLocals]
        /\ fresh' \in [Calls -> BOOLEAN] /\ link' \in [Calls -> Links]
        /\ lines'[c] = <<>> /\ parser'[c] = Start
        /\ \A d \in Calls \ {c} : lines'[d] = lines[d] /\ parser'[d] = parser[d]
    BY <2>1, StartParsed DEF Streams, Links
  <2> QED
    BY <1>1, <1>2, <2>2, StartParsed, OneStream
<1>4. CASE ~Submit(c)
  <2>1. UNCHANGED stream /\ Via(c) # "a2a"
    BY <1>4 DEF Ask
  <2>2. ~Asking(c)'
    BY <1>1, <2>1 DEF Asking, Via
  <2>3. /\ lines' \in [Calls -> Seq(LineTypes)] /\ parser' \in [Calls -> ParserLocals]
        /\ fresh' \in [Calls -> BOOLEAN] /\ link' \in [Calls -> Links]
        /\ \A d \in Calls \ {c} : lines'[d] = lines[d] /\ parser'[d] = parser[d]
    BY <2>1 DEF Streams, stream
  <2> QED
    BY <1>1, <1>2, <2>2, <2>3, OneStream
<1> QED
  BY <1>3, <1>4

LEMMA StreamElsewhere ==
    ASSUME Streams, CallTypes, Awaited, NEW c \in Calls,
           \/ Refused(c) \/ Blocked(c) \/ Answer(c) \/ Fails(c) \/ TimesOut(c)
           \/ Proceed(c) \/ PersistRaises(c) \/ Killed(c)
    PROVE  Streams'
<1>1. UNCHANGED registry /\ \E label : label # "asking" /\ pc' = [pc EXCEPT ![c] = label]
                                       /\ (label = "answered" => Via(c) # "a2a")
  BY DEF Refused, Blocked, Answer, Answered, Fails, TimesOut, Proceed, Persist, ReadOffset,
         AppendWins, AppendLoses, Post, PersistRaises, Killed, Goto, EndsAs
<1>2. ~Asking(c)' /\ (pc'[c] = "answered" => Via(c) # "a2a")
  BY <1>1 DEF CallTypes, Asking
<1>3. Elsewhere(c)
  <2>1. Moves(c) \/ Idle
    BY Opening, Consulting, Settling
  <2> QED
    BY <2>1, MoveFrame DEF Idle, Elsewhere
<1>4. UNCHANGED <<parser, fresh, link>> /\ lines' \in {lines, [lines EXCEPT ![c] = <<>>]}
  BY DEF Refused, Blocked, Answer, Fails, TimesOut, Proceed, Persist, ReadOffset,
         AppendWins, AppendLoses, Post, PersistRaises, Killed, stream
<1>5. /\ lines' \in [Calls -> Seq(LineTypes)] /\ parser' \in [Calls -> ParserLocals]
      /\ fresh' \in [Calls -> BOOLEAN] /\ link' \in [Calls -> Links]
      /\ \A d \in Calls \ {c} : lines'[d] = lines[d] /\ parser'[d] = parser[d]
  BY <1>4, StartParsed DEF Streams
<1> QED
  BY <1>1, <1>2, <1>3, <1>5, OneStream

LEMMA StreamStep ==
    ASSUME Streams, CallTypes, Awaited, [Next]_vars
    PROVE  Streams'
<1>1. ASSUME NEW c \in Calls, Connect(c) \/ KeepAlive(c) \/ Quiet(c)
      PROVE  Streams'
  <2>1. /\ UNCHANGED <<lines, parser, dispatch>>
        /\ \E b \in BOOLEAN : fresh' = [fresh EXCEPT ![c] = b]
        /\ link' = link \/ \E l \in Links : link' = [link EXCEPT ![c] = l]
    BY <1>1 DEF Connect, KeepAlive, Quiet, Submitted, Open, Comment, Silence, Links
  <2>2. fresh' \in [Calls -> BOOLEAN] /\ link' \in [Calls -> Links]
    BY <2>1 DEF Streams
  <2> QED
    BY <2>1, <2>2 DEF Streams, ParsedAsSent, Asking, Via, dispatch
<1>2. ASSUME UNCHANGED <<stream, registry, pc, response>> PROVE Streams'
  BY <1>2 DEF Streams, ParsedAsSent, Asking, Via, stream
<1>3. CASE Other \/ Workers_ \/ Reader \/ UNCHANGED vars
  BY <1>2, <1>3 DEF Other, Workers_, Reader, vars, dispatch
<1>4. ASSUME NEW c \in Calls, CallAct(c) PROVE Streams'
  BY <1>1, <1>4, LineParsed, StreamAnswered, StreamOpened, StreamElsewhere DEF CallAct
<1> QED
  BY <1>3, <1>4 DEF Next, CallAct

LEMMA InitStreams == Init => Streams
<1> SUFFICES ASSUME Init PROVE Streams
  OBVIOUS
<1>1. /\ lines = [c \in Calls |-> <<>>] /\ parser = [c \in Calls |-> Start]
      /\ fresh = [c \in Calls |-> FALSE] /\ link = [c \in Calls |-> "none"]
      /\ pc = [c \in Calls |-> "new"]
  BY DEF Init, StreamInit
<1>2. /\ lines \in [Calls -> Seq(LineTypes)] /\ parser \in [Calls -> ParserLocals]
      /\ fresh \in [Calls -> BOOLEAN] /\ link \in [Calls -> Links]
  BY <1>1, StartParsed DEF Links
<1>3. \A c \in Calls : pc[c] = "new"
  BY <1>1
<1> QED
  BY <1>2, <1>3 DEF Streams, ParsedAsSent, Asking

LEMMA StreamInv == Spec => []Streams
<1>1. Streams /\ (CallTypes /\ Awaited) /\ [Next]_vars => Streams'
  BY StreamStep
<1> QED
  BY <1>1, InitStreams, CallInv, PTL DEF Spec

\* An A2A consult's answer is what its stream as a whole says, however the
\* server cuts its events into lines, and whenever it closes.
THEOREM AnswersAsSent == Spec => []ParsedAsSent
<1>1. Streams => ParsedAsSent
  BY DEF Streams
<1> QED
  BY <1>1, StreamInv, PTL

-----------------------------------------------------------------------------
(* Types.                                                                  *)

CallTypesOK ==
    /\ sub \in [Workers -> {"new", "active", "unsubscribed"}]
    /\ registry \in [Subagents -> {"none", "a2a", "bus", "async"}]
    /\ pc \in [Calls -> {"new", "asking", "answered", "logging", "append", "logged", "done"}]
    /\ outcome \in [Calls -> {"none", "unknown", "invalid", "blocked", "raised", "failed",
                              "timeout", "killed", "answered"}]
    /\ \A c \in Calls : response[c].artefacts \in Deliverables \cup {<<>>}
    /\ token \in [Calls -> Nat]

LEMMA InitTypes == Init => CallTypesOK
<1> SUFFICES ASSUME Init PROVE CallTypesOK
  OBVIOUS
<1>1. PICK s \in Setups : registry = load_subagents_from_registry(s.own, s.cards)
  BY DEF Init
<1>2. s.own \in [Subagents -> {"none", "a2a", "bus", "async"}]
  BY NamesOK
<1>3. registry \in [Subagents -> {"none", "a2a", "bus", "async"}]
  BY <1>1, <1>2 DEF load_subagents_from_registry
<1> QED
  BY <1>3 DEF Init, BusInit, CallTypesOK, NoResponse

\* What a step does to the variables of the calls.
LEMMA TypeStep ==
    ASSUME CallTypesOK, CallTypes, Awaited, [Next]_vars
    PROVE  CallTypesOK'
<1>1. registry' \in [Subagents -> {"none", "a2a", "bus", "async"}]
  <2>1. ASSUME NEW c \in Calls, CallAct(c) PROVE UNCHANGED registry
    BY <2>1 DEF CallAct, Refused, Blocked, Ask, Answer, Connect, Line, KeepAlive, Quiet,
                LastLine, Closed, Fails, TimesOut, Proceed, Persist, ReadOffset, AppendWins,
                AppendLoses, Post, PersistRaises, Killed, dispatch
  <2>2. UNCHANGED registry
    BY <2>1 DEF Next, CallAct, Other, Workers_, Reader, dispatch, vars
  <2> QED
    BY <2>2 DEF CallTypesOK
<1>2. sub' \in [Workers -> {"new", "active", "unsubscribed"}]
  <2>1. ASSUME NEW c \in Calls, CallAct(c) PROVE UNCHANGED sub
    BY <2>1 DEF CallAct, Refused, Blocked, Ask, Answer, Connect, Line, KeepAlive, Quiet,
                LastLine, Closed, Fails, TimesOut, Proceed, Persist, ReadOffset, AppendWins,
                AppendLoses, Post, PersistRaises, Killed, bus, Request, Returns, Expires
  <2>2. CASE Workers_
    BY <2>2 DEF Workers_, Subscribe, Stop, CallTypesOK
  <2>3. CASE Other \/ Reader \/ UNCHANGED vars
    BY <2>3 DEF Other, Reader, vars, bus, CallTypesOK
  <2> QED
    BY <2>1, <2>2, <2>3 DEF Next, CallAct, CallTypesOK
<1>3. pc' \in [Calls -> {"new", "asking", "answered", "logging", "append", "logged", "done"}]
  <2>1. ASSUME NEW c \in Calls, CallAct(c)
        PROVE  \/ pc' = pc
               \/ \E l \in {"asking", "answered", "logging", "append", "logged", "done"} :
                     pc' = [pc EXCEPT ![c] = l]
    BY <2>1 DEF CallAct, Refused, Blocked, Ask, Answer, Answered, Connect, Line, KeepAlive, Quiet,
                LastLine, Closed, Fails, TimesOut, Proceed, Persist, ReadOffset, AppendWins,
                AppendLoses, Post, PersistRaises, Killed, dispatch, Goto, EndsAs
  <2>2. CASE Other \/ Workers_ \/ Reader \/ UNCHANGED vars
    BY <2>2 DEF Other, Workers_, Reader, dispatch, vars, CallTypesOK
  <2> QED
    BY <2>1, <2>2 DEF Next, CallAct, CallTypesOK
<1>4. outcome' \in [Calls -> {"none", "unknown", "invalid", "blocked", "raised", "failed",
                              "timeout", "killed", "answered"}]
  <2>1. ASSUME NEW c \in Calls, CallAct(c)
        PROVE  \/ outcome' = outcome
               \/ \E how \in {"unknown", "invalid", "blocked", "raised", "failed",
                              "timeout", "killed", "answered"} :
                     outcome' = [outcome EXCEPT ![c] = how]
    BY <2>1 DEF CallAct, Refused, Blocked, Ask, Answer, Connect, Line, KeepAlive, Quiet,
                LastLine, Closed, Fails, TimesOut, Proceed, Persist, ReadOffset, AppendWins,
                AppendLoses, Post, PersistRaises, Killed, dispatch, EndsAs
  <2>2. CASE Other \/ Workers_ \/ Reader \/ UNCHANGED vars
    BY <2>2 DEF Other, Workers_, Reader, dispatch, vars, CallTypesOK
  <2> QED
    BY <2>1, <2>2 DEF Next, CallAct, CallTypesOK
<1>5. ASSUME NEW d \in Calls PROVE response'[d].artefacts \in Deliverables \cup {<<>>}
  <2>1. ASSUME NEW c \in Calls, CallAct(c)
        PROVE  \/ response' = response
               \/ \E r : /\ response' = [response EXCEPT ![c] = r]
                         /\ r.artefacts \in Deliverables \cup {<<>>}
    <3>1. CASE Answer(c)
      <4>1. PICK status \in {"completed", "failed"}, artefacts \in Deliverables :
               response' = [response EXCEPT ![c] = [status |-> status, text |-> <<>>,
                                                    artefacts |-> artefacts]]
        BY <3>1 DEF Answer, Answered
      <4> DEFINE r == [status |-> status, text |-> <<>>, artefacts |-> artefacts]
      <4>2. r.artefacts \in Deliverables
        OBVIOUS
      <4> QED
        BY <4>1, <4>2
    <3>2. CASE LastLine(c) \/ Closed(c)
      <4>1. \A r : Bare(r).artefacts = <<>>
        BY DEF Bare
      <4>2. \E r : response' = [response EXCEPT ![c] = Bare(r)]
        BY <3>2 DEF LastLine, Closed, Answered
      <4> QED
        BY <4>1, <4>2
    <3>3. CASE ~(Answer(c) \/ LastLine(c) \/ Closed(c))
      BY <2>1, <3>3 DEF CallAct, Refused, Blocked, Ask, Connect, Line, KeepAlive, Quiet, Fails,
                        TimesOut, Proceed, Persist, ReadOffset, AppendWins, AppendLoses,
                        Post, PersistRaises, Killed, dispatch
    <3> QED
      BY <3>1, <3>2, <3>3
  <2>2. CASE Other \/ Workers_ \/ Reader \/ UNCHANGED vars
    BY <2>2 DEF Other, Workers_, Reader, dispatch, vars, CallTypesOK
  <2>3. ASSUME NEW c \in Calls, CallAct(c)
        PROVE  response'[d].artefacts \in Deliverables \cup {<<>>}
    BY <2>1, <2>3 DEF CallTypesOK, CallTypes
  <2> QED
    BY <2>2, <2>3 DEF Next, CallAct
<1>6. token' \in [Calls -> Nat]
  <2>1. Len(log) \in Nat
    BY LenProperties DEF CallTypes
  <2>2. ASSUME NEW c \in Calls, CallAct(c)
        PROVE  token' = token \/ token' = [token EXCEPT ![c] = Len(log)]
    BY <2>2 DEF CallAct, Refused, Blocked, Ask, Answer, Connect, Line, KeepAlive, Quiet,
                LastLine, Closed, Fails, TimesOut, Proceed, Persist, ReadOffset, AppendWins,
                AppendLoses, Post, PersistRaises, Killed, dispatch
  <2>3. CASE Other \/ Workers_ \/ Reader \/ UNCHANGED vars
    BY <2>3 DEF Other, Workers_, Reader, dispatch, vars, CallTypesOK
  <2> QED
    BY <2>1, <2>2, <2>3 DEF Next, CallAct, CallTypesOK
<1> QED
  BY <1>1, <1>2, <1>3, <1>4, <1>5, <1>6 DEF CallTypesOK

\* Every variable of the consults, their streams and their bus keeps its type.
THEOREM ConsultsTypeCorrect == Spec => []TypeOK
<1>1. CallTypesOK /\ (CallTypes /\ Awaited) /\ [Next]_vars => CallTypesOK'
  BY TypeStep
<1>2. CallTypesOK /\ CallTypes /\ Awaited /\ Streams => TypeOK
  <2> SUFFICES ASSUME CallTypesOK, CallTypes, Awaited, Streams PROVE TypeOK
    OBVIOUS
  <2>1. ASSUME NEW c \in Calls, NEW l \in ToSet(lines[c]) PROVE l \in LineTypes
    <3>1. lines[c] \in Seq(LineTypes)
      BY DEF Streams
    <3>2. \A i \in DOMAIN lines[c] : lines[c][i] \in LineTypes
      BY <3>1, BlockNumbers
    <3> QED
      BY <3>2 DEF ToSet
  <2> QED
    BY <2>1 DEF TypeOK, CallTypesOK, CallTypes, Awaited, Streams, ParserLocals, Links
<1> QED
  BY <1>1, <1>2, InitTypes, CallInv, StreamInv, PTL DEF Spec

-----------------------------------------------------------------------------
(* Reading a text page by page.                                            *)

\* The lines f..f + k - 1, in order.
LinesFrom(f, k) == [i \in 1..k |-> f + i - 1]

LEMMA LinesJoin ==
    ASSUME NEW f \in Nat \ {0}, NEW k \in Nat, NEW j \in Nat
    PROVE  /\ LinesFrom(f, k) \in Seq(Nat) /\ Len(LinesFrom(f, k)) = k
           /\ \A i \in 1..k : LinesFrom(f, k)[i] = f + i - 1
           /\ LinesFrom(f, k) \o LinesFrom(f + k, j) = LinesFrom(f, k + j)
<1>1. ASSUME NEW g \in Nat \ {0}, NEW n \in Nat
      PROVE  /\ LinesFrom(g, n) \in Seq(Nat) /\ Len(LinesFrom(g, n)) = n
             /\ \A i \in 1..n : LinesFrom(g, n)[i] = g + i - 1
  <2>1. LinesFrom(g, n) \in [1..n -> Nat]
    BY DEF LinesFrom
  <2>2. LinesFrom(g, n) \in Seq(Nat)
    BY <2>1, SeqDef
  <2>3. DOMAIN LinesFrom(g, n) = 1..n
    BY DEF LinesFrom
  <2>4. Len(LinesFrom(g, n)) = n
    BY <2>2, <2>3, LenProperties
  <2> QED
    BY <2>2, <2>4 DEF LinesFrom
<1> DEFINE s == LinesFrom(f, k)
           t == LinesFrom(f + k, j)
           u == LinesFrom(f, k + j)
<1>2. f + k \in Nat \ {0} /\ k + j \in Nat
  OBVIOUS
<1>3. /\ s \in Seq(Nat) /\ Len(s) = k /\ \A i \in 1..k : s[i] = f + i - 1
      /\ t \in Seq(Nat) /\ Len(t) = j /\ \A i \in 1..j : t[i] = f + k + i - 1
      /\ u \in Seq(Nat) /\ Len(u) = k + j /\ \A i \in 1..(k + j) : u[i] = f + i - 1
  BY <1>1, <1>2
<1> HIDE DEF s, t, u
<1>4. /\ s \o t \in Seq(Nat) /\ Len(s \o t) = k + j
      /\ \A i \in 1..(k + j) : (s \o t)[i] = IF i <= k THEN s[i] ELSE t[i - k]
  <2>1. s \in Seq(Nat) /\ t \in Seq(Nat) /\ Len(s) = k /\ Len(t) = j
    BY <1>3
  <2> QED
    BY <2>1, ConcatProperties
<1>5. ASSUME NEW i \in 1..(k + j) PROVE (s \o t)[i] = u[i]
  <2>1. CASE i <= k
    BY <1>3, <1>4, <2>1
  <2>2. CASE ~(i <= k)
    <3>1. i - k \in 1..j
      BY <2>2
    <3>2. t[i - k] = f + k + (i - k) - 1 /\ u[i] = f + i - 1 /\ (s \o t)[i] = t[i - k]
      BY <1>3, <1>4, <2>2, <3>1
    <3> QED
      BY <3>2
  <2> QED
    BY <2>1, <2>2
<1>6. s \o t = u
  BY <1>3, <1>4, <1>5, SeqEqual
<1> QED
  BY <1>1, <1>6 DEF s, t, u

\* A page is what lies between its first line and its last.
LEMMA Page ==
    ASSUME NEW n \in Nat \ {0}, NEW from \in 0..n, NEW limit \in Windows,
           NEW page, page = read_doc(n, from, limit)
    PROVE  /\ page.first = IF from = 0 THEN 1 ELSE from
           /\ page.last \in page.first..n
           /\ page.truncated <=> page.last # n
<1> DEFINE start == IF from = 0 THEN 0 ELSE from - 1
<1>1. limit \in Nat \ {0}
  BY WindowsPositive
<1>2. start \in Nat /\ start < n /\ start + 1 = IF from = 0 THEN 1 ELSE from
  OBVIOUS
<1> HIDE DEF start
<1>3. PICK end \in {n, start + limit} : end = Min({n, start + limit}) /\ end <= n /\ end <= start + limit
  <2>1. \E x \in {n, start + limit} : \A y \in {n, start + limit} : x <= y
    BY <1>1, <1>2
  <2> QED
    BY <2>1 DEF Min
<1>4. page = [first |-> start + 1, last |-> end, truncated |-> end < n]
  <2>1. ~(start >= n)
    BY <1>2
  <2> QED
    BY <1>3, <2>1 DEF read_doc, start
<1>5. end \in (start + 1)..n /\ (end < n <=> end # n)
  BY <1>1, <1>2, <1>3
<1>6. page.first = start + 1 /\ page.last = end /\ page.truncated = (end < n)
  BY <1>4
<1> QED
  BY <1>2, <1>5, <1>6

\* A reader that follows the hints has seen the lines first..last, and goes on
\* with the next one if the text had more of them; before it begins it is at
\* the top or at a line that matches.
ReadInv ==
    /\ total \in Nat \ {0} /\ offset \in 0..total
    /\ \/ collected = <<>> /\ (offset = 0 \/ offset \in Matching)
       \/ \E first \in Nat \ {0}, k \in Nat \ {0} :
             /\ collected = LinesFrom(first, k)
             /\ first + k - 1 <= total
             /\ offset \in {0, first + k}

\* What a page read from ReadInv shows.
LEMMA PageRead ==
    ASSUME ReadInv, NEW limit \in Windows, ReadPage(limit)
    PROVE  \E first \in Nat \ {0}, k \in Nat \ {0} :
              /\ collected' = LinesFrom(first, k)
              /\ first + k - 1 <= total
              /\ offset' = IF first + k - 1 = total THEN 0 ELSE first + k
              /\ collected = <<>> => first = IF offset = 0 THEN 1 ELSE offset
              /\ total' = total
<1> DEFINE page == read_doc(total, offset, limit)
<1>1. total \in Nat \ {0} /\ offset \in 0..total
  BY DEF ReadInv
<1>2. /\ page.first = IF offset = 0 THEN 1 ELSE offset
      /\ page.last \in page.first..total
      /\ page.truncated <=> page.last # total
  BY <1>1, Page
<1>3. /\ collected = <<>> \/ offset # 0
      /\ collected' = collected \o LinesFrom(page.first, page.last + 1 - page.first)
      /\ offset' = (IF page.truncated THEN page.last + 1 ELSE 0)
      /\ total' = total
  BY DEF ReadPage, LinesFrom, NextOffset
<1> HIDE DEF page
<1>4. PICK f \in Nat \ {0}, j \in Nat \ {0} :
         /\ f = page.first /\ j = page.last + 1 - page.first /\ f + j - 1 = page.last
         /\ f + j = page.last + 1
  <2>1. /\ page.first \in Nat \ {0} /\ page.last + 1 - page.first \in Nat \ {0}
        /\ page.first + (page.last + 1 - page.first) - 1 = page.last
        /\ page.first + (page.last + 1 - page.first) = page.last + 1
    BY <1>1, <1>2
  <2> QED
    BY <2>1
<1>5. /\ f + j - 1 <= total
      /\ offset' = IF f + j - 1 = total THEN 0 ELSE f + j
  BY <1>1, <1>2, <1>3, <1>4
<1>6. CASE collected = <<>>
  <2>1. collected' = LinesFrom(f, j)
    BY <1>3, <1>4, <1>6, LinesJoin, ConcatEmptySeq
  <2> QED
    BY <1>2, <1>3, <1>4, <1>5, <2>1
<1>7. CASE collected # <<>>
  <2>1. PICK first \in Nat \ {0}, k \in Nat \ {0} :
           /\ collected = LinesFrom(first, k)
           /\ first + k - 1 <= total /\ offset \in {0, first + k}
    BY <1>7 DEF ReadInv
  <2>2. f = first + k
    BY <1>2, <1>3, <1>4, <1>7, <2>1
  <2>3. collected' = LinesFrom(first, k + j)
    <3>1. collected' = LinesFrom(first, k) \o LinesFrom(first + k, j)
      BY <1>3, <1>4, <2>1, <2>2
    <3>2. LinesFrom(first, k) \o LinesFrom(first + k, j) = LinesFrom(first, k + j)
      BY LinesJoin
    <3> QED
      BY <3>1, <3>2
  <2>4. PICK m \in Nat \ {0} : m = k + j /\ first + m = f + j
    <3>1. k + j \in Nat \ {0} /\ first + (k + j) = f + j
      BY <2>2
    <3> QED
      BY <3>1
  <2>5. /\ collected' = LinesFrom(first, m)
        /\ first + m - 1 <= total
        /\ offset' = IF first + m - 1 = total THEN 0 ELSE first + m
    BY <1>5, <2>3, <2>4
  <2> QED
    BY <1>3, <1>7, <2>5
<1> QED
  BY <1>6, <1>7

LEMMA ReadStep ==
    ASSUME ReadInv, [Next]_vars
    PROVE  ReadInv'
<1>1. CASE UNCHANGED reading
  BY <1>1 DEF ReadInv, reading
<1>2. CASE Grow
  BY <1>2 DEF Grow, ReadInv
<1>3. CASE Reopen
  BY <1>3 DEF Reopen, ReadInv
<1>4. ASSUME NEW limit \in Windows, Jump(limit) PROVE ReadInv'
  BY <1>4 DEF Jump, grep_docs, ReadInv
<1>5. ASSUME NEW limit \in Windows, ReadPage(limit) PROVE ReadInv'
  <2>1. PICK first \in Nat \ {0}, k \in Nat \ {0} :
           /\ collected' = LinesFrom(first, k)
           /\ first + k - 1 <= total
           /\ offset' = IF first + k - 1 = total THEN 0 ELSE first + k
           /\ total' = total
    BY <1>5, PageRead
  <2>2. total' \in Nat \ {0} /\ first + k - 1 <= total'
    BY <2>1 DEF ReadInv
  <2>3. offset' \in 0..total' /\ offset' \in {0, first + k}
    BY <2>1, <2>2
  <2> QED
    BY <2>1, <2>2, <2>3 DEF ReadInv
<1>6. ASSUME NEW c \in Calls, CallAct(c) PROVE UNCHANGED reading
  BY <1>6 DEF CallAct, Refused, Blocked, Ask, Answer, Connect, Line, KeepAlive, Quiet,
              LastLine, Closed, Fails, TimesOut, Proceed, Persist, ReadOffset, AppendWins,
              AppendLoses, Post, PersistRaises, Killed
<1>7. CASE Other \/ Workers_ \/ UNCHANGED vars
  BY <1>1, <1>7 DEF Other, Workers_, vars
<1>8. CASE Reader
  BY <1>2, <1>3, <1>4, <1>5, <1>8 DEF Reader
<1> QED
  BY <1>1, <1>6, <1>7, <1>8 DEF Next, CallAct

LEMMA ReadsInv == Spec => []ReadInv
<1>1. Init => ReadInv
  BY DEF Init, BrowseInit, ReadInv
<1>2. ReadInv /\ [Next]_vars => ReadInv'
  BY ReadStep
<1> QED
  BY <1>1, <1>2, PTL DEF Spec

\* Pages read one after another, in any windows, show each line once and in
\* order, of a text that grows meanwhile too, until the end as it then is.
THEOREM PagesJoinAlways == Spec => PagesJoin
<1> DEFINE A == collected' # collected /\ collected' # <<>> =>
                  LET first == collected'[1] IN
                  /\ collected' = [i \in 1..Len(collected') |-> first + i - 1]
                  /\ collected = <<>> => first \in IF offset = 0 THEN {1} ELSE Matching
                  /\ offset' = IF collected'[Len(collected')] = total THEN 0
                               ELSE collected'[Len(collected')] + 1
<1>1. ASSUME ReadInv, [Next]_vars PROVE A \/ UNCHANGED reading
  <2>1. CASE UNCHANGED collected \/ collected' = <<>>
    BY <2>1
  <2>2. ASSUME NEW limit \in Windows, ReadPage(limit) PROVE A
    <3>1. PICK f \in Nat \ {0}, k \in Nat \ {0} :
             /\ collected' = LinesFrom(f, k)
             /\ f + k - 1 <= total
             /\ offset' = IF f + k - 1 = total THEN 0 ELSE f + k
             /\ collected = <<>> => f = IF offset = 0 THEN 1 ELSE offset
      BY <1>1, <2>2, PageRead
    <3>2. Len(collected') = k /\ \A i \in 1..k : collected'[i] = f + i - 1
      BY <3>1, LinesJoin
    <3>3. 1 \in 1..k /\ k \in 1..k /\ f + 1 - 1 = f /\ (f + k - 1) + 1 = f + k
      OBVIOUS
    <3>4. collected'[1] = f /\ collected'[k] = f + k - 1
      BY <3>2, <3>3
    <3>5. collected' = [i \in 1..Len(collected') |-> f + i - 1]
      BY <3>1, <3>2 DEF LinesFrom
    <3>6. collected = <<>> => f \in IF offset = 0 THEN {1} ELSE Matching
      <4>1. ASSUME collected = <<>> PROVE offset = 0 \/ offset \in Matching
        <5>1. ASSUME NEW g \in Nat \ {0}, NEW j \in Nat \ {0}, <<>> = LinesFrom(g, j)
              PROVE  FALSE
          BY <5>1, LinesJoin
        <5> QED
          BY <1>1, <4>1, <5>1 DEF ReadInv
      <4> QED
        BY <3>1, <4>1
    <3>7. offset' = IF collected'[Len(collected')] = total THEN 0
                    ELSE collected'[Len(collected')] + 1
      BY <3>1, <3>2, <3>3, <3>4
    <3> QED
      BY <3>4, <3>5, <3>6, <3>7
  <2>3. ASSUME NEW c \in Calls, CallAct(c) PROVE UNCHANGED reading
    BY <2>3 DEF CallAct, Refused, Blocked, Ask, Answer, Connect, Line, KeepAlive, Quiet,
                LastLine, Closed, Fails, TimesOut, Proceed, Persist, ReadOffset, AppendWins,
                AppendLoses, Post, PersistRaises, Killed
  <2>4. CASE Other \/ Workers_ \/ UNCHANGED vars
    BY <2>4 DEF Other, Workers_, vars
  <2>5. CASE Reader
    <3> HIDE DEF A
    <3>1. CASE Grow \/ Reopen \/ \E limit \in Windows : Jump(limit)
      BY <2>1, <3>1 DEF Grow, Reopen, Jump
    <3> QED
      BY <2>2, <2>5, <3>1 DEF Reader
  <2> QED
    BY <1>1, <2>3, <2>4, <2>5 DEF Next, CallAct
<1>2. ReadInv /\ [Next]_vars => [A]_reading
  BY <1>1
<1> QED
  BY <1>2, ReadsInv, PTL DEF Spec, PagesJoin
=============================================================================
