--------------------------- MODULE EventLogProofs ---------------------------
(* Proofs about EventLog, for any projects, clients and bounds.            *)
EXTENDS EventLog, SequenceTheorems, FiniteSetTheorems, TLAPS

-----------------------------------------------------------------------------
(* Type correctness.                                                       *)

\* The hash of the last event is a hash.
LEMMA LastHashType ==
    ASSUME NEW log \in Seq(Event)
    PROVE  LastHash(log) \in Hash
<1>1. CASE log = <<>>
  BY <1>1 DEF LastHash, Hash
<1>2. CASE log # <<>>
  <2>1. Len(log) \in 1..Len(log)
    BY <1>2, EmptySeq
  <2>2. log[Len(log)] \in Event
    BY <2>1, ElementOfSeq
  <2> QED
    BY <1>2, <2>2 DEF LastHash, Event
<1> QED BY <1>1, <1>2

\* The event append stores, field by field; it is well formed.
LEMMA ChainedFields ==
    ASSUME NEW log \in Seq(Event), NEW p \in Projects, NEW id \in EventId
    PROVE  LET own == [event |-> id, project |-> p, offset |-> Len(log)]
           IN  /\ Chained(log, p, id) =
                    [event |-> id, project |-> p, offset |-> Len(log),
                     prev_hash |-> LastHash(log),
                     hash |-> Append(LastHash(log), own)]
               /\ Chained(log, p, id) \in Event
<1> DEFINE own == [event |-> id, project |-> p, offset |-> Len(log)]
           e(h) == [event |-> id, project |-> p, offset |-> Len(log),
                    prev_hash |-> LastHash(log), hash |-> h]
<1>1. compute_event_hash(e(<<>>)) = Append(LastHash(log), own)
  BY DEF compute_event_hash
<1>2. Chained(log, p, id) = e(Append(LastHash(log), own))
  BY <1>1 DEF Chained
<1>3. own \in Signed
  BY DEF Signed
<1>4. Append(LastHash(log), own) \in Hash
  BY <1>3, LastHashType DEF Hash
<1>5. ASSUME NEW h \in Hash PROVE e(h) \in Event
  <2>1. LastHash(log) \in Hash /\ Len(log) \in Nat
    BY LastHashType
  <2> QED BY <2>1 DEF Event
<1>6. e(Append(LastHash(log), own)) \in Event
  <2> HIDE DEF e
  <2> QED BY <1>4, <1>5
<1> QED
  BY <1>2, <1>6

\* A client in the append loop has an event left to send.
BusyHasEvent == \A c \in Clients : pc[c] # "idle" => sent[c] < MaxEvents
TypeInv == TypeOK /\ BusyHasEvent

\* Every step keeps every variable in its type.
LEMMA TypeStep == TypeInv /\ [Next]_vars => TypeInv'
<1> SUFFICES ASSUME TypeInv, [Next]_vars PROVE TypeInv'
  OBVIOUS
<1> USE MaxEventsNat DEF TypeInv, TypeOK, BusyHasEvent
<1>1. CASE UNCHANGED vars
  BY <1>1 DEF vars
<1>2. ASSUME NEW c \in Clients, NEW p \in Projects, Begin(c, p) PROVE TypeInv'
  BY <1>2 DEF Begin
<1>3. ASSUME NEW c \in Clients, CurrentOffset(c) PROVE TypeInv'
  BY <1>3 DEF CurrentOffset
<1>4. ASSUME NEW c \in Clients, Appended(c) PROVE TypeInv'
  <2> DEFINE p == target[c]
             e == Chained(logs[p], p, <<c, sent[c] + 1>>)
  <2>1. /\ pc[c] = "append"
        /\ logs' = [logs EXCEPT ![p] = Append(logs[p], e)]
        /\ sent' = [sent EXCEPT ![c] = @ + 1]
        /\ pc' = [pc EXCEPT ![c] = "idle"]
        /\ UNCHANGED <<target, expected, intervening, damage>>
    BY <1>4 DEF Appended
  <2>2. p \in Projects /\ logs[p] \in Seq(Event)
    OBVIOUS
  <2>3. sent[c] \in 0..MaxEvents /\ sent[c] < MaxEvents
    BY <2>1
  <2>4. sent[c] + 1 \in 1..MaxEvents
    BY <2>3
  <2>5. e \in Event
    BY <2>2, <2>4, ChainedFields DEF EventId
  <2> HIDE DEF p, e
  <2>6. Append(logs[p], e) \in Seq(Event)
    BY <2>2, <2>5
  <2>7. logs' \in [Projects -> Seq(Event)]
    BY <2>1, <2>6
  <2> QED
    BY <2>1, <2>4, <2>7
<1>5. ASSUME NEW c \in Clients, Conflict(c) PROVE TypeInv'
  BY <1>5 DEF Conflict
<1>6. ASSUME NEW c \in Clients, Retry(c) PROVE TypeInv'
  BY <1>6 DEF Retry
<1>7. ASSUME NEW c \in Clients, GiveUp(c) PROVE TypeInv'
  BY <1>7 DEF GiveUp
<1>8. ASSUME NEW p \in Projects, NEW i \in 1..Len(logs[p]), Damage(p, i)
      PROVE  TypeInv'
  <2>1. logs[p] \in Seq(Event) /\ logs[p][i] \in Event
    BY ElementOfSeq
  <2>2. ASSUME NEW e \in Event, logs' = [logs EXCEPT ![p][i] = e]
        PROVE  logs' \in [Projects -> Seq(Event)]
    BY <2>1, <2>2, ExceptSeq
  <2>3. [logs[p][i] EXCEPT !.event = Garbled] \in Event
    BY <2>1 DEF Event, EventId
  <2>4. [logs[p][i] EXCEPT !.prev_hash =
           Append(@, [event |-> Garbled, project |-> p, offset |-> i])] \in Event
    <3>1. [event |-> Garbled, project |-> p, offset |-> i] \in Signed
      BY DEF Signed, EventId
    <3>2. Append(logs[p][i].prev_hash,
                 [event |-> Garbled, project |-> p, offset |-> i]) \in Hash
      BY <2>1, <3>1 DEF Hash, Event
    <3> QED
      BY <2>1, <3>2 DEF Event
  <2>5. [logs[p][i] EXCEPT !.hash = <<>>] \in Event
    <3>1. <<>> \in Hash
      BY EmptySeq DEF Hash
    <3> QED
      BY <2>1, <3>1 DEF Event
  <2>6. logs' \in [Projects -> Seq(Event)]
    BY <1>8, <2>2, <2>3, <2>4, <2>5 DEF Damage
  <2> QED
    BY <1>8, <2>6 DEF Damage
<1> QED
  BY <1>1, <1>2, <1>3, <1>4, <1>5, <1>6, <1>7, <1>8 DEF Next, Step

\* Every variable of the log model keeps its type in every behaviour.
THEOREM TypeCorrect == Spec => []TypeOK
<1>1. Init => TypeInv
  BY MaxEventsNat DEF Init, TypeInv, TypeOK, BusyHasEvent
<1>2. TypeInv => TypeOK
  BY DEF TypeInv
<1> QED
  BY <1>1, <1>2, TypeStep, PTL DEF Spec

-----------------------------------------------------------------------------
(* The log is totally ordered and append-only.                             *)

\* What an accepted append does to the logs, in one place.
LEMMA AppendEffect ==
    ASSUME TypeInv, NEW c \in Clients, Appended(c)
    PROVE  LET p == target[c]
               e == Chained(logs[p], p, <<c, sent[c] + 1>>)
           IN  /\ p \in Projects
               /\ logs[p] \in Seq(Event)
               /\ <<c, sent[c] + 1>> \in Clients \X (1..MaxEvents)
               /\ e \in Event
               /\ logs' = [logs EXCEPT ![p] = Append(logs[p], e)]
               /\ damage' = damage
<1>1. /\ pc[c] = "append"
      /\ logs' = [logs EXCEPT ![target[c]] = Append(logs[target[c]],
                    Chained(logs[target[c]], target[c], <<c, sent[c] + 1>>))]
      /\ damage' = damage
  BY DEF Appended
<1>2. target[c] \in Projects /\ logs[target[c]] \in Seq(Event)
  BY DEF TypeInv, TypeOK
<1>3. sent[c] \in 0..MaxEvents /\ sent[c] < MaxEvents
  BY <1>1 DEF TypeInv, TypeOK, BusyHasEvent
<1>4. sent[c] + 1 \in 1..MaxEvents
  BY <1>3, MaxEventsNat
<1>5. Chained(logs[target[c]], target[c], <<c, sent[c] + 1>>) \in Event
  BY <1>2, <1>4, ChainedFields DEF EventId
<1> QED
  BY <1>1, <1>2, <1>4, <1>5

\* Steps that leave logs and damage alone.
LEMMA QuietStep ==
    ASSUME [Next]_vars,
           ~ \E c \in Clients : Appended(c),
           ~ \E p \in Projects : \E i \in 1..Len(logs[p]) : Damage(p, i)
    PROVE  UNCHANGED <<logs, damage>>
BY DEF Next, Step, vars, Begin, CurrentOffset, Conflict, Retry, GiveUp

\* No step removes, moves or rewrites a stored event, whatever the clients do.
THEOREM LogAppendOnly == Spec => AppendOnly
<1>1. ASSUME TypeInv, [Next]_vars, NEW p \in Projects, damage' = damage
      PROVE  /\ Len(logs[p]) <= Len(logs'[p])
             /\ SubSeq(logs'[p], 1, Len(logs[p])) = logs[p]
  <2>1. logs[p] \in Seq(Event) /\ Len(logs[p]) \in Nat
    BY <1>1 DEF TypeInv, TypeOK
  <2>2. SubSeq(logs[p], 1, Len(logs[p])) = logs[p]
    BY <2>1, SubSeqFull
  <2>3. CASE \E c \in Clients : Appended(c)
    <3>1. PICK c \in Clients : Appended(c)
      BY <2>3
    <3>2. CASE p = target[c]
      <4>1. PICK e \in Event : logs'[p] = Append(logs[p], e)
        BY <1>1, <3>1, <3>2, AppendEffect DEF TypeInv, TypeOK
      <4>2. /\ Append(logs[p], e) \in Seq(Event)
            /\ Len(Append(logs[p], e)) = Len(logs[p]) + 1
            /\ \A i \in 1..Len(logs[p]) : Append(logs[p], e)[i] = logs[p][i]
        BY <2>1, AppendProperties
      <4>3. /\ SubSeq(Append(logs[p], e), 1, Len(logs[p])) \in Seq(Event)
            /\ Len(SubSeq(Append(logs[p], e), 1, Len(logs[p]))) = Len(logs[p])
            /\ \A i \in 1..Len(logs[p]) :
                 SubSeq(Append(logs[p], e), 1, Len(logs[p]))[i] = logs[p][i]
        BY <2>1, <4>2, SubSeqProperties, ElementOfSeq
      <4>4. SubSeq(Append(logs[p], e), 1, Len(logs[p])) = logs[p]
        BY <2>1, <4>3, SeqEqual
      <4> QED
        BY <2>1, <4>1, <4>2, <4>4
    <3>3. CASE p # target[c]
      <4>1. PICK e : logs' = [logs EXCEPT ![target[c]] = e]
        BY <1>1, <3>1, AppendEffect
      <4>2. logs'[p] = logs[p]
        BY <1>1, <3>3, <4>1 DEF TypeInv, TypeOK
      <4> QED
        BY <2>1, <2>2, <4>2
    <3> QED
      BY <3>2, <3>3
  <2>4. CASE \E q \in Projects : \E i \in 1..Len(logs[q]) : Damage(q, i)
    <3>1. PICK q \in Projects : \E i \in 1..Len(logs[q]) : Damage(q, i)
      BY <2>4
    <3>2. PICK i \in 1..Len(logs[q]) : Damage(q, i)
      BY <3>1
    <3>3. damage = {} /\ damage' = {<<q, i>>}
      BY <3>2 DEF Damage
    <3>4. <<q, i>> \in {}
      BY <1>1, <3>3
    <3> QED
      BY <3>4
  <2>5. CASE UNCHANGED <<logs, damage>>
    BY <2>1, <2>2, <2>5
  <2> QED
    BY <1>1, <2>3, <2>4, <2>5, QuietStep
<1>2. TypeInv /\ [Next]_vars =>
        [\A p \in Projects :
           damage' = damage => /\ Len(logs[p]) <= Len(logs'[p])
                               /\ SubSeq(logs'[p], 1, Len(logs[p])) = logs[p]]_vars
  BY <1>1
<1>3. Init => TypeInv
  BY MaxEventsNat DEF Init, TypeInv, TypeOK, BusyHasEvent
<1> QED
  BY <1>2, <1>3, TypeStep, PTL DEF Spec, AppendOnly
-----------------------------------------------------------------------------
(* Offsets and projects of stored events.                                  *)

\* One event is replaced by one with the same offset and project.
EditedTo(p, i, e) ==
    /\ logs' = [logs EXCEPT ![p] = [logs[p] EXCEPT ![i] = e]]
    /\ e.offset = logs[p][i].offset /\ e.project = logs[p][i].project
    /\ \/ e = [logs[p][i] EXCEPT !.event = Garbled]
       \/ e = [logs[p][i] EXCEPT !.prev_hash =
                 Append(@, [event |-> Garbled, project |-> p, offset |-> i])]
       \/ e = [logs[p][i] EXCEPT !.hash = <<>>]

\* What damage does to the logs: it edits one event.
LEMMA DamageEffect ==
    ASSUME TypeInv, NEW p \in Projects, NEW i \in 1..Len(logs[p]), Damage(p, i)
    PROVE  \E e \in Event : EditedTo(p, i, e)
<1>1. logs \in [Projects -> Seq(Event)] /\ logs[p] \in Seq(Event)
  BY DEF TypeInv, TypeOK
<1>2. logs[p][i] \in Event /\ Len(logs[p]) \in Nat
  BY <1>1, ElementOfSeq
<1>3. CASE logs' = [logs EXCEPT ![p][i].event = Garbled]
  <2>1. [logs[p][i] EXCEPT !.event = Garbled] \in Event
    BY <1>2 DEF Event, EventId
  <2> QED
    BY <1>1, <1>2, <1>3, <2>1 DEF Event, EditedTo
<1>4. CASE logs' = [logs EXCEPT ![p][i].prev_hash =
                      Append(@, [event |-> Garbled, project |-> p, offset |-> i])]
  <2>1. [event |-> Garbled, project |-> p, offset |-> i] \in Signed
    BY <1>2 DEF Signed, EventId
  <2>2. Append(logs[p][i].prev_hash,
               [event |-> Garbled, project |-> p, offset |-> i]) \in Hash
    BY <1>2, <2>1 DEF Hash, Event
  <2>3. [logs[p][i] EXCEPT !.prev_hash =
           Append(@, [event |-> Garbled, project |-> p, offset |-> i])] \in Event
    BY <1>2, <2>2 DEF Event
  <2> QED
    BY <1>1, <1>2, <1>4, <2>3 DEF Event, EditedTo
<1>5. CASE logs' = [logs EXCEPT ![p][i].hash = <<>>]
  <2>1. <<>> \in Hash
    BY EmptySeq DEF Hash
  <2>2. [logs[p][i] EXCEPT !.hash = <<>>] \in Event
    BY <1>2, <2>1 DEF Event
  <2> QED
    BY <1>1, <1>2, <1>5, <2>2 DEF Event, EditedTo
<1> QED
  BY <1>3, <1>4, <1>5 DEF Damage

\* What an accepted append stores, field by field.
LEMMA AppendFields ==
    ASSUME TypeInv, NEW c \in Clients, Appended(c)
    PROVE  \E e \in Event :
             LET p == target[c] IN
             /\ p \in Projects /\ logs[p] \in Seq(Event) /\ Len(logs[p]) \in Nat
             /\ logs' = [logs EXCEPT ![p] = Append(logs[p], e)]
             /\ e.project = p /\ e.offset = Len(logs[p])
             /\ e.prev_hash = LastHash(logs[p])
             /\ e.event \in Clients \X (1..MaxEvents)
             /\ e.hash = compute_event_hash(e) /\ e.hash # <<>>
<1> DEFINE p == target[c]
           id == <<c, sent[c] + 1>>
           own == [event |-> id, project |-> p, offset |-> Len(logs[p])]
           e == Chained(logs[p], p, id)
<1>1. /\ p \in Projects /\ logs[p] \in Seq(Event) /\ id \in Clients \X (1..MaxEvents)
      /\ e \in Event /\ logs' = [logs EXCEPT ![p] = Append(logs[p], e)]
  BY AppendEffect
<1>2. e = [event |-> id, project |-> p, offset |-> Len(logs[p]),
           prev_hash |-> LastHash(logs[p]), hash |-> Append(LastHash(logs[p]), own)]
  <2>1. id \in EventId
    BY <1>1 DEF EventId
  <2> HIDE DEF id, p
  <2> QED
    BY <1>1, <2>1, ChainedFields
<1>3. LastHash(logs[p]) \in Hash /\ own \in Signed
  <2>1. Len(logs[p]) \in Nat
    BY <1>1
  <2> QED
    BY <1>1, <2>1, LastHashType DEF Signed, EventId
<1>4. Append(LastHash(logs[p]), own) # <<>>
  <2> HIDE DEF own, p
  <2> QED
    BY <1>3, AppendProperties DEF Hash
<1>5. e.hash = compute_event_hash(e)
  <2> HIDE DEF e, p, id
  <2> QED
    BY <1>2 DEF compute_event_hash
<1>6. /\ e.project = p /\ e.offset = Len(logs[p]) /\ e.prev_hash = LastHash(logs[p])
      /\ e.event = id /\ e.hash # <<>>
  <2> HIDE DEF e, p, id
  <2> QED
    BY <1>2, <1>4
<1>7. Len(logs[p]) \in Nat /\ e.event \in Clients \X (1..MaxEvents)
  <2> HIDE DEF e, id, p
  <2> QED
    BY <1>1, <1>6
<1> HIDE DEF e, id, own
<1>8. e \in Event
  BY <1>1
<1> USE <1>8
<1> WITNESS e \in Event
<1> QED
  BY <1>1, <1>5, <1>6, <1>7

\* Every step keeps every stored event at its offset, in its project's log.
LEMMA DenseStep ==
    ASSUME TypeInv, OffsetsDense, [Next]_vars
    PROVE  OffsetsDense'
<1>1. logs \in [Projects -> Seq(Event)]
  BY DEF TypeInv, TypeOK
<1>2. CASE \E c \in Clients : Appended(c)
  <2>1. PICK c \in Clients : Appended(c)
    BY <1>2
  <2>2. PICK e \in Event :
          /\ target[c] \in Projects /\ logs[target[c]] \in Seq(Event)
          /\ Len(logs[target[c]]) \in Nat
          /\ logs' = [logs EXCEPT ![target[c]] = Append(logs[target[c]], e)]
          /\ e.project = target[c] /\ e.offset = Len(logs[target[c]])
    BY <2>1, AppendFields
  <2>3. /\ Len(Append(logs[target[c]], e)) = Len(logs[target[c]]) + 1
        /\ \A i \in 1..Len(logs[target[c]]) :
             Append(logs[target[c]], e)[i] = logs[target[c]][i]
        /\ Append(logs[target[c]], e)[Len(logs[target[c]]) + 1] = e
    BY <2>2, AppendProperties
  <2> SUFFICES ASSUME NEW q \in Projects, NEW i \in 1..Len(logs'[q])
               PROVE  logs'[q][i].offset = i - 1 /\ logs'[q][i].project = q
    BY DEF OffsetsDense
  <2>4. CASE q # target[c]
    BY <1>1, <2>2, <2>4 DEF OffsetsDense
  <2>5. CASE q = target[c]
    <3>1. logs'[q] = Append(logs[target[c]], e)
      BY <1>1, <2>2, <2>5
    <3>2. CASE i = Len(logs[q]) + 1
      BY <2>2, <2>3, <2>5, <3>1, <3>2
    <3>3. CASE i \in 1..Len(logs[q])
      BY <2>3, <2>5, <3>1, <3>3 DEF OffsetsDense
    <3> QED
      BY <2>2, <2>3, <2>5, <3>1, <3>2, <3>3
  <2> QED
    BY <2>4, <2>5
<1>3. CASE \E p \in Projects : \E i \in 1..Len(logs[p]) : Damage(p, i)
  <2>1. PICK p \in Projects : \E i \in 1..Len(logs[p]) : Damage(p, i)
    BY <1>3
  <2>2. PICK i \in 1..Len(logs[p]) : Damage(p, i)
    BY <2>1
  <2>3. PICK e \in Event : EditedTo(p, i, e)
    BY <2>2, DamageEffect
  <2>4. /\ [logs[p] EXCEPT ![i] = e] \in Seq(Event)
        /\ Len([logs[p] EXCEPT ![i] = e]) = Len(logs[p])
        /\ \A j \in 1..Len(logs[p]) :
             [logs[p] EXCEPT ![i] = e][j] = IF j = i THEN e ELSE logs[p][j]
    BY <1>1, <2>3, ExceptSeq
  <2> QED
    BY <1>1, <2>3, <2>4 DEF OffsetsDense, EditedTo
<1>4. CASE UNCHANGED <<logs, damage>>
  BY <1>4 DEF OffsetsDense
<1> QED
  BY <1>2, <1>3, <1>4, QuietStep

\* Events are totally ordered by offset, in the log of the project they name.
THEOREM LogDense == Spec => []OffsetsDense
<1>1. Init => TypeInv /\ OffsetsDense
  <2>1. Init => TypeInv
    BY MaxEventsNat DEF Init, TypeInv, TypeOK, BusyHasEvent
  <2>2. Init => OffsetsDense
    BY EmptySeq DEF Init, OffsetsDense
  <2> QED
    BY <2>1, <2>2
<1>2. TypeInv /\ OffsetsDense /\ [Next]_vars => TypeInv' /\ OffsetsDense'
  BY TypeStep, DenseStep
<1> QED
  BY <1>1, <1>2, PTL DEF Spec
-----------------------------------------------------------------------------
(* What a loser is told.                                                   *)

\* Damage changes an event's fields, never the number of events.
LEMMA DamageKeepsLength ==
    ASSUME TypeInv, NEW p \in Projects, NEW i \in 1..Len(logs[p]), Damage(p, i)
    PROVE  \A q \in Projects : Len(logs'[q]) = Len(logs[q])
<1>1. logs \in [Projects -> Seq(Event)]
  BY DEF TypeInv, TypeOK
<1>2. PICK e \in Event : EditedTo(p, i, e)
  BY DamageEffect
<1>3. Len([logs[p] EXCEPT ![i] = e]) = Len(logs[p])
  BY <1>1, ExceptSeq
<1> QED
  BY <1>1, <1>2, <1>3 DEF EditedTo

\* Logs never get shorter.
LEMMA LengthsGrow ==
    ASSUME TypeInv, [Next]_vars, NEW r \in Projects
    PROVE  Len(logs[r]) \in Nat /\ Len(logs'[r]) \in Nat /\ Len(logs[r]) <= Len(logs'[r])
<1>1. logs \in [Projects -> Seq(Event)] /\ logs' \in [Projects -> Seq(Event)]
  BY TypeStep DEF TypeInv, TypeOK
<1>2. Len(logs[r]) \in Nat /\ Len(logs'[r]) \in Nat
  BY <1>1
<1>3. CASE \E c \in Clients : Appended(c)
  <2>1. PICK c \in Clients : Appended(c)
    BY <1>3
  <2>2. PICK e \in Event :
          /\ target[c] \in Projects /\ logs[target[c]] \in Seq(Event)
          /\ logs' = [logs EXCEPT ![target[c]] = Append(logs[target[c]], e)]
    BY <2>1, AppendFields
  <2>3. Len(Append(logs[target[c]], e)) = Len(logs[target[c]]) + 1
    BY <2>2, AppendProperties
  <2> QED
    BY <1>1, <1>2, <2>2, <2>3
<1>4. CASE \E p \in Projects : \E i \in 1..Len(logs[p]) : Damage(p, i)
  <2>1. PICK p \in Projects : \E i \in 1..Len(logs[p]) : Damage(p, i)
    BY <1>4
  <2>2. PICK i \in 1..Len(logs[p]) : Damage(p, i)
    BY <2>1
  <2> QED
    BY <1>2, <2>2, DamageKeepsLength
<1>5. CASE UNCHANGED <<logs, damage>>
  BY <1>2, <1>5
<1> QED
  BY <1>2, <1>3, <1>4, <1>5, QuietStep

\* A token is never ahead of the log it was read from.
TokensBehind ==
    \A c \in Clients : pc[c] \in {"append", "lost"} =>
        expected[c] <= Len(logs[target[c]])

ExplainInv == TypeInv /\ OffsetsDense /\ TokensBehind /\ ConflictExplained

\* Every step keeps tokens behind the log and explanations complete.
LEMMA ExplainStep ==
    ASSUME ExplainInv, [Next]_vars
    PROVE  ExplainInv'
<1> USE DEF ExplainInv
<1>1. TypeInv' /\ OffsetsDense'
  BY TypeStep, DenseStep
<1>2. /\ pc \in [Clients -> {"idle", "read", "append", "lost"}]
      /\ target \in [Clients -> Projects] /\ expected \in [Clients -> Nat]
      /\ intervening \in [Clients -> Seq(Event)] /\ logs \in [Projects -> Seq(Event)]
      /\ \A c \in Clients : Len(intervening[c]) \in Nat
  BY DEF TypeInv, TypeOK
<1>3. \A p \in Projects : /\ Len(logs[p]) \in Nat /\ Len(logs'[p]) \in Nat
                          /\ Len(logs[p]) <= Len(logs'[p])
  BY LengthsGrow
<1>4. ASSUME NEW c \in Clients, pc'[c] = pc[c],
             UNCHANGED <<expected[c], target[c], intervening[c]>>
      PROVE  /\ pc'[c] \in {"append", "lost"} => expected'[c] <= Len(logs'[target'[c]])
             /\ pc'[c] = "lost" =>
                   /\ intervening'[c] # <<>>
                   /\ \A j \in 1..Len(intervening'[c]) :
                         intervening'[c][j].offset = expected'[c] + j - 1
                   /\ expected'[c] + Len(intervening'[c]) <= Len(logs'[target'[c]])
  BY <1>2, <1>3, <1>4 DEF TokensBehind, ConflictExplained
<1>5. ASSUME NEW d \in Clients, pc'[d] \notin {"append", "lost"},
             \A c \in Clients \ {d} : /\ pc'[c] = pc[c]
                 /\ UNCHANGED <<expected[c], target[c], intervening[c]>>
      PROVE  TokensBehind' /\ ConflictExplained'
  BY <1>4, <1>5 DEF TokensBehind, ConflictExplained
<1>6. ASSUME NEW d \in Clients,
             \/ \E p \in Projects : Begin(d, p)
             \/ Appended(d) \/ Retry(d) \/ GiveUp(d)
      PROVE  TokensBehind' /\ ConflictExplained'
  BY <1>2, <1>5, <1>6 DEF Begin, Appended, Retry, GiveUp
<1>7. ASSUME NEW d \in Clients, CurrentOffset(d)
      PROVE  TokensBehind' /\ ConflictExplained'
  <2>1. /\ pc'[d] = "append" /\ target' = target /\ logs' = logs
        /\ expected'[d] = Len(logs[target[d]])
        /\ \A c \in Clients \ {d} : /\ pc'[c] = pc[c]
             /\ UNCHANGED <<expected[c], target[c], intervening[c]>>
    BY <1>2, <1>7 DEF CurrentOffset
  <2>2. target[d] \in Projects /\ Len(logs[target[d]]) \in Nat
    BY <1>2, <1>3
  <2>3. TokensBehind'
    BY <1>4, <2>1, <2>2 DEF TokensBehind
  <2>4. ConflictExplained'
    BY <1>4, <2>1 DEF ConflictExplained
  <2> QED
    BY <2>3, <2>4
<1>8. ASSUME NEW d \in Clients, Conflict(d)
      PROVE  TokensBehind' /\ ConflictExplained'
  <2> DEFINE log == logs[target[d]]
             tail == SubSeq(log, expected[d] + 1, Len(log))
  <2>1. /\ pc[d] = "append" /\ pc'[d] = "lost" /\ target' = target /\ logs' = logs
        /\ expected' = expected /\ intervening'[d] = tail /\ expected[d] # Len(log)
        /\ \A c \in Clients \ {d} : /\ pc'[c] = pc[c]
             /\ UNCHANGED <<expected[c], target[c], intervening[c]>>
    BY <1>2, <1>8 DEF Conflict
  <2>2. target[d] \in Projects /\ log \in Seq(Event) /\ Len(log) \in Nat
    BY <1>2
  <2>3. expected[d] \in Nat /\ expected[d] < Len(log)
    BY <1>2, <2>1, <2>2 DEF TokensBehind
  <2>4. /\ tail \in Seq(Event) /\ Len(tail) = Len(log) - expected[d]
        /\ \A j \in 1..Len(tail) : tail[j] = log[expected[d] + j]
    <3>1. expected[d] + 1 \in 1..Len(log) + 1 /\ Len(log) \in expected[d]..Len(log)
      BY <2>2, <2>3
    <3>2. \A j \in 1..Len(log) : log[j] \in Event
      BY <2>2, ElementOfSeq
    <3> DEFINE m == expected[d] + 1
               n == Len(log)
    <3> HIDE DEF log
    <3>3. n - m + 1 = Len(log) - expected[d] /\ m \in 1..Len(log) + 1 /\ n \in m - 1..Len(log)
      BY <2>2, <2>3, <3>1
    <3> HIDE DEF m, n
    <3>4. /\ SubSeq(log, m, n) \in Seq(Event) /\ Len(SubSeq(log, m, n)) = n - m + 1
          /\ \A j \in 1..n - m + 1 : SubSeq(log, m, n)[j] = log[m + j - 1]
      BY <2>2, <3>2, <3>3, SubSeqProperties
    <3>5. \A j \in Nat : m + j - 1 = expected[d] + j
      BY <2>3 DEF m
    <3>6. tail = SubSeq(log, m, n)
      BY DEF m, n
    <3> HIDE DEF tail
    <3>7. tail \in Seq(Event) /\ Len(tail) = Len(log) - expected[d]
      BY <3>3, <3>4, <3>6
    <3>8. ASSUME NEW j \in 1..Len(tail) PROVE tail[j] = log[expected[d] + j]
      <4>1. j \in Nat /\ j \in 1..n - m + 1
        BY <3>3, <3>7
      <4>2. tail[j] = log[m + j - 1]
        BY <3>4, <3>6, <4>1
      <4> QED
        BY <3>5, <4>1, <4>2
    <3> QED
      BY <3>7, <3>8
  <2>5. \A j \in 1..Len(log) : log[j].offset = j - 1
    BY <2>2 DEF OffsetsDense
  <2> HIDE DEF log, tail
  <2>6. tail # <<>> /\ \A j \in 1..Len(tail) : tail[j].offset = expected[d] + j - 1
    <3>1. Len(tail) > 0
      BY <2>2, <2>3, <2>4
    <3>2. \A j \in 1..Len(tail) : expected[d] + j \in 1..Len(log)
      BY <2>2, <2>3, <2>4
    <3>3. tail # <<>>
      BY <3>1, EmptySeq
    <3>4. ASSUME NEW j \in 1..Len(tail) PROVE tail[j].offset = expected[d] + j - 1
      <4>1. PICK k \in 1..Len(log) : k = expected[d] + j
        BY <3>2
      <4>2. tail[j] = log[k]
        BY <2>4, <4>1
      <4>3. log[k].offset = k - 1
        BY <2>5
      <4> QED
        BY <2>3, <4>1, <4>2, <4>3
    <3> QED
      BY <3>3, <3>4
  <2>7. expected[d] + Len(tail) = Len(log)
    BY <2>2, <2>3, <2>4
  <2>8. log = logs'[target'[d]]
    BY <2>1 DEF log
  <2>9. /\ expected'[d] <= Len(logs'[target'[d]])
        /\ intervening'[d] # <<>>
        /\ \A j \in 1..Len(intervening'[d]) :
              intervening'[d][j].offset = expected'[d] + j - 1
        /\ expected'[d] + Len(intervening'[d]) <= Len(logs'[target'[d]])
    BY <2>1, <2>2, <2>3, <2>6, <2>7, <2>8
  <2> QED
    BY <1>4, <2>1, <2>9 DEF TokensBehind, ConflictExplained
<1>9. ASSUME UNCHANGED <<pc, expected, target, intervening>>
      PROVE  TokensBehind' /\ ConflictExplained'
  BY <1>4, <1>9 DEF TokensBehind, ConflictExplained
<1>10. ASSUME NEW p \in Projects, NEW i \in 1..Len(logs[p]), Damage(p, i)
       PROVE  TokensBehind' /\ ConflictExplained'
  BY <1>9, <1>10 DEF Damage
<1>11. CASE UNCHANGED vars
  BY <1>1, <1>9, <1>11 DEF vars
<1> QED
  BY <1>1, <1>6, <1>7, <1>8, <1>10, <1>11 DEF Next, Step

\* A conflict names every event from the loser's token to the end of the log.
THEOREM LosersAreTold == Spec => []ConflictExplained
<1>1. Init => ExplainInv
  <2>1. Init => TypeInv
    BY MaxEventsNat DEF Init, TypeInv, TypeOK, BusyHasEvent
  <2>2. Init => OffsetsDense /\ TokensBehind /\ ConflictExplained
    BY EmptySeq DEF Init, OffsetsDense, TokensBehind, ConflictExplained
  <2> QED
    BY <2>1, <2>2 DEF ExplainInv
<1>2. ExplainInv /\ [Next]_vars => ExplainInv'
  BY ExplainStep
<1>3. ExplainInv => ConflictExplained
  BY DEF ExplainInv
<1> QED
  BY <1>1, <1>2, <1>3, PTL DEF Spec
-----------------------------------------------------------------------------
(* Damage is found where it happened.                                      *)

\* A slot is judged by itself and the slot before it.
LEMMA LinkIsLocal ==
    ASSUME NEW l, NEW m, NEW i \in Nat \ {0}, m[i] = l[i],
           i # 1 => m[i - 1] = l[i - 1]
    PROVE  LinkOK(m, i) <=> LinkOK(l, i)
<1>1. CASE i = 1
  BY <1>1 DEF LinkOK, compute_event_hash
<1>2. CASE i # 1
  BY <1>2 DEF LinkOK, compute_event_hash
<1> QED
  BY <1>1, <1>2

\* At most one event is damaged; it is one that is stored and whose slot is
\* broken.  A slot with no damage at or below it is sound, and before any
\* damage every event is a client's.
OneDamage == \A d, e \in damage : d = e
DamagedBroken ==
    \A d \in damage : /\ d[1] \in Projects /\ d[2] \in 1..Len(logs[d[1]])
                      /\ ~LinkOK(logs[d[1]], d[2])
SoundBelow ==
    \A p \in Projects : \A i \in 1..Len(logs[p]) :
        (\A d \in damage : d[1] = p => i < d[2]) => LinkOK(logs[p], i)
EventsSent ==
    damage = {} => \A p \in Projects : \A i \in 1..Len(logs[p]) :
                       logs[p][i].event \in Clients \X (1..MaxEvents)

DamageInv == OneDamage /\ DamagedBroken /\ SoundBelow /\ EventsSent

\* An event appended to a log leaves its slots as they were, and is sound.
LEMMA AppendLinks ==
    ASSUME NEW l \in Seq(Event), NEW e \in Event,
           e.prev_hash = LastHash(l), e.hash = compute_event_hash(e), e.hash # <<>>
    PROVE  /\ Len(Append(l, e)) = Len(l) + 1 /\ Len(l) \in Nat
           /\ Append(l, e)[Len(l) + 1] = e
           /\ \A i \in 1..Len(l) : Append(l, e)[i] = l[i]
           /\ \A i \in 1..Len(l) : LinkOK(Append(l, e), i) <=> LinkOK(l, i)
           /\ LinkOK(Append(l, e), Len(l) + 1)
<1>1. /\ Len(Append(l, e)) = Len(l) + 1 /\ Len(l) \in Nat
      /\ Append(l, e)[Len(l) + 1] = e
      /\ \A i \in 1..Len(l) : Append(l, e)[i] = l[i]
  BY AppendProperties
<1>2. ASSUME NEW i \in 1..Len(l) PROVE LinkOK(Append(l, e), i) <=> LinkOK(l, i)
  <2>1. i \in Nat \ {0} /\ Append(l, e)[i] = l[i]
        /\ (i # 1 => Append(l, e)[i - 1] = l[i - 1])
    BY <1>1
  <2> QED
    BY <2>1, LinkIsLocal
<1>3. LinkOK(Append(l, e), Len(l) + 1)
  <2>1. CASE l = <<>>
    <3>1. Len(l) = 0
      BY <2>1, EmptySeq
    <3> QED
      BY <1>1, <2>1, <3>1 DEF LinkOK, LastHash
  <2>2. CASE l # <<>>
    <3>1. Len(l) \in 1..Len(l)
      BY <1>1, <2>2, EmptySeq
    <3>2. Len(l) + 1 - 1 = Len(l) /\ Len(l) + 1 # 1
      BY <1>1, <3>1
    <3> QED
      BY <1>1, <2>2, <3>1, <3>2 DEF LinkOK, LastHash
  <2> QED
    BY <2>1, <2>2
<1> QED
  BY <1>1, <1>2, <1>3

\* Whatever of a sound event's content, link or hash is changed in place, its
\* slot is broken, and those before it stay as they were.
LEMMA EditLinks ==
    ASSUME TypeInv, NEW p \in Projects, NEW i \in 1..Len(logs[p]), NEW e \in Event,
           EditedTo(p, i, e), LinkOK(logs[p], i),
           logs[p][i].event \in Clients \X (1..MaxEvents)
    PROVE  /\ logs'[p] \in Seq(Event) /\ Len(logs'[p]) = Len(logs[p])
           /\ ~LinkOK(logs'[p], i)
           /\ \A j \in 1..Len(logs[p]) : j < i => (LinkOK(logs'[p], j) <=> LinkOK(logs[p], j))
           /\ \A q \in Projects \ {p} : logs'[q] = logs[q]
<1> DEFINE l == logs[p]
           m == [l EXCEPT ![i] = e]
           f == l[i]
<1>1. logs \in [Projects -> Seq(Event)] /\ l \in Seq(Event) /\ Len(l) \in Nat
  BY DEF TypeInv, TypeOK
<1>2. f \in Event
  BY <1>1, ElementOfSeq
<1>3. logs'[p] = m /\ \A q \in Projects \ {p} : logs'[q] = logs[q]
  BY <1>1 DEF EditedTo
<1>4. /\ m \in Seq(Event) /\ Len(m) = Len(l)
      /\ \A j \in 1..Len(l) : m[j] = IF j = i THEN e ELSE l[j]
  BY <1>1, ExceptSeq
<1>5. m[i] = e /\ (i # 1 => m[i - 1] = l[i - 1])
  <2>1. i # 1 => i - 1 \in 1..Len(l) /\ i - 1 # i
    BY <1>1
  <2> QED
    BY <1>4, <2>1
<1>6. \/ e = [f EXCEPT !.event = Garbled]
      \/ e = [f EXCEPT !.prev_hash =
                Append(@, [event |-> Garbled, project |-> p, offset |-> i])]
      \/ e = [f EXCEPT !.hash = <<>>]
  BY DEF EditedTo
<1>7. /\ f.hash = compute_event_hash(f)
      /\ f.prev_hash = IF i = 1 THEN <<>> ELSE l[i - 1].hash
  BY DEF LinkOK
<1>8. f.event # Garbled
  BY GarbledApart
<1> HIDE DEF m, f, l
<1>9. ~LinkOK(m, i)
  <2> SUFFICES ASSUME LinkOK(m, i) PROVE FALSE
    OBVIOUS
  <2>1. /\ e.hash # <<>> /\ e.hash = compute_event_hash(e)
        /\ e.prev_hash = f.prev_hash
    BY <1>5, <1>7 DEF LinkOK
  <2>2. CASE e = [f EXCEPT !.event = Garbled]
    <3> DEFINE x == [event |-> f.event, project |-> f.project, offset |-> f.offset]
               y == [event |-> Garbled, project |-> f.project, offset |-> f.offset]
    <3>1. e.hash = f.hash /\ e.event = Garbled /\ e.project = f.project
          /\ e.offset = f.offset
      BY <1>2, <2>2 DEF Event
    <3>2. Append(f.prev_hash, x) = Append(f.prev_hash, y)
      BY <1>7, <2>1, <3>1 DEF compute_event_hash
    <3>3. x \in Signed /\ y \in Signed /\ f.prev_hash \in Seq(Signed)
      BY <1>2 DEF Event, Signed, Hash, EventId
    <3>4. x.event # y.event
      BY <1>8
    <3> HIDE DEF x, y
    <3>5. x = y
      <4>1. Append(f.prev_hash, x)[Len(f.prev_hash) + 1] = x
        BY <3>3, AppendProperties
      <4>2. Append(f.prev_hash, y)[Len(f.prev_hash) + 1] = y
        BY <3>3, AppendProperties
      <4> QED
        BY <3>2, <4>1, <4>2
    <3> QED
      BY <3>4, <3>5
  <2>3. CASE e = [f EXCEPT !.prev_hash =
                    Append(@, [event |-> Garbled, project |-> p, offset |-> i])]
    <3> DEFINE x == [event |-> Garbled, project |-> p, offset |-> i]
    <3>1. e.prev_hash = Append(f.prev_hash, x)
      BY <1>2, <2>3 DEF Event
    <3>2. x \in Signed /\ f.prev_hash \in Seq(Signed)
      BY <1>1, <1>2 DEF Event, Signed, Hash, EventId
    <3> HIDE DEF x
    <3>3. Len(Append(f.prev_hash, x)) = Len(f.prev_hash) + 1 /\ Len(f.prev_hash) \in Nat
      BY <3>2, AppendProperties
    <3>4. Len(f.prev_hash) = Len(f.prev_hash) + 1
      BY <2>1, <3>1, <3>3
    <3> QED
      BY <3>3, <3>4
  <2>4. CASE e = [f EXCEPT !.hash = <<>>]
    BY <1>2, <2>1, <2>4 DEF Event
  <2> QED
    BY <1>6, <2>2, <2>3, <2>4
<1>10. ASSUME NEW j \in 1..Len(l), j < i PROVE LinkOK(m, j) <=> LinkOK(l, j)
  <2>1. j \in Nat \ {0} /\ j # i /\ (j # 1 => j - 1 \in 1..Len(l) /\ j - 1 # i)
    BY <1>1, <1>10 DEF l
  <2>2. m[j] = l[j] /\ (j # 1 => m[j - 1] = l[j - 1])
    BY <1>4, <2>1
  <2> QED
    BY <2>1, <2>2, LinkIsLocal
<1> QED
  BY <1>3, <1>4, <1>9, <1>10 DEF l

\* Every step keeps the damage where it is and everything below it sound.
LEMMA DamageStep ==
    ASSUME TypeInv, DamageInv, [Next]_vars
    PROVE  DamageInv'
<1> USE DEF DamageInv
<1>1. logs \in [Projects -> Seq(Event)] /\ \A p \in Projects : Len(logs[p]) \in Nat
  BY DEF TypeInv, TypeOK
<1>2. CASE \E c \in Clients : Appended(c)
  <2>1. PICK c \in Clients : Appended(c)
    BY <1>2
  <2> DEFINE t == target[c]
  <2>2. PICK e \in Event :
          /\ t \in Projects /\ logs[t] \in Seq(Event)
          /\ logs' = [logs EXCEPT ![t] = Append(logs[t], e)]
          /\ e.prev_hash = LastHash(logs[t])
          /\ e.event \in Clients \X (1..MaxEvents)
          /\ e.hash = compute_event_hash(e) /\ e.hash # <<>>
    BY <2>1, AppendFields
  <2>3. damage' = damage
    BY <2>1 DEF Appended
  <2> HIDE DEF t
  <2>4. /\ Len(Append(logs[t], e)) = Len(logs[t]) + 1 /\ Len(logs[t]) \in Nat
        /\ Append(logs[t], e)[Len(logs[t]) + 1] = e
        /\ \A i \in 1..Len(logs[t]) : Append(logs[t], e)[i] = logs[t][i]
        /\ \A i \in 1..Len(logs[t]) : LinkOK(Append(logs[t], e), i) <=> LinkOK(logs[t], i)
        /\ LinkOK(Append(logs[t], e), Len(logs[t]) + 1)
    BY <2>2, AppendLinks
  <2>5. logs'[t] = Append(logs[t], e) /\ \A q \in Projects \ {t} : logs'[q] = logs[q]
    BY <1>1, <2>2
  <2>6. OneDamage'
    BY <2>3 DEF OneDamage
  <2>7. DamagedBroken'
    <3> SUFFICES ASSUME NEW d \in damage
                 PROVE  /\ d[1] \in Projects /\ d[2] \in 1..Len(logs'[d[1]])
                        /\ ~LinkOK(logs'[d[1]], d[2])
      BY <2>3 DEF DamagedBroken
    <3>1. d[1] \in Projects /\ d[2] \in 1..Len(logs[d[1]]) /\ ~LinkOK(logs[d[1]], d[2])
      BY DEF DamagedBroken
    <3>2. CASE d[1] = t
      <4>1. d[2] \in 1..Len(logs[t]) /\ ~LinkOK(logs[t], d[2])
        BY <3>1, <3>2
      <4>2. ~LinkOK(Append(logs[t], e), d[2])
        BY <2>4, <4>1
      <4>3. logs'[d[1]] = Append(logs[t], e)
        BY <2>5, <3>2
      <4>4. d[2] \in 1..Len(Append(logs[t], e))
        BY <2>4, <4>1
      <4> QED
        BY <3>1, <4>2, <4>3, <4>4
    <3>3. CASE d[1] # t
      BY <2>5, <3>1, <3>3
    <3> QED
      BY <3>2, <3>3
  <2>8. SoundBelow'
    <3> SUFFICES ASSUME NEW p \in Projects, NEW i \in 1..Len(logs'[p]),
                        \A d \in damage : d[1] = p => i < d[2]
                 PROVE  LinkOK(logs'[p], i)
      BY <2>3 DEF SoundBelow
    <3>1. CASE p # t
      BY <2>5, <3>1 DEF SoundBelow
    <3>2. CASE p = t /\ i \in 1..Len(logs[p])
      <4>1. LinkOK(logs[p], i)
        BY <3>2 DEF SoundBelow
      <4> QED
        BY <2>4, <2>5, <3>2, <4>1
    <3>3. CASE p = t /\ i \notin 1..Len(logs[p])
      <4>1. i = Len(logs[t]) + 1
        BY <2>4, <2>5, <3>3
      <4> QED
        BY <2>4, <2>5, <3>3, <4>1
    <3> QED
      BY <3>1, <3>2, <3>3
  <2>9. EventsSent'
    <3> SUFFICES ASSUME damage = {}, NEW p \in Projects, NEW i \in 1..Len(logs'[p])
                 PROVE  logs'[p][i].event \in Clients \X (1..MaxEvents)
      BY <2>3 DEF EventsSent
    <3>1. CASE p # t
      BY <2>5, <3>1 DEF EventsSent
    <3>2. CASE p = t /\ i \in 1..Len(logs[p])
      BY <2>4, <2>5, <3>2 DEF EventsSent
    <3>3. CASE p = t /\ i \notin 1..Len(logs[p])
      <4>1. i = Len(logs[t]) + 1
        BY <2>4, <2>5, <3>3
      <4> QED
        BY <2>2, <2>4, <2>5, <3>3, <4>1
    <3> QED
      BY <3>1, <3>2, <3>3
  <2> QED
    BY <2>6, <2>7, <2>8, <2>9
<1>3. CASE \E p \in Projects : \E i \in 1..Len(logs[p]) : Damage(p, i)
  <2>1. PICK p \in Projects : \E i \in 1..Len(logs[p]) : Damage(p, i)
    BY <1>3
  <2>2. PICK i \in 1..Len(logs[p]) : Damage(p, i)
    BY <2>1
  <2>3. damage = {} /\ damage' = {<<p, i>>}
    BY <2>2 DEF Damage
  <2>4. PICK e \in Event : EditedTo(p, i, e)
    BY <2>2, DamageEffect
  <2>5. \A q \in Projects : \A j \in 1..Len(logs[q]) : LinkOK(logs[q], j)
    BY <2>3 DEF SoundBelow
  <2>6. logs[p][i].event \in Clients \X (1..MaxEvents)
    BY <2>3 DEF EventsSent
  <2>7. /\ Len(logs'[p]) = Len(logs[p])
        /\ ~LinkOK(logs'[p], i)
        /\ \A j \in 1..Len(logs[p]) : j < i => (LinkOK(logs'[p], j) <=> LinkOK(logs[p], j))
        /\ \A q \in Projects \ {p} : logs'[q] = logs[q]
    <3>1. LinkOK(logs[p], i)
      BY <2>5
    <3> QED
      BY <2>4, <2>6, <3>1, EditLinks
  <2>8. OneDamage' /\ DamagedBroken'
    BY <2>3, <2>7 DEF OneDamage, DamagedBroken
  <2>9. SoundBelow'
    <3> SUFFICES ASSUME NEW q \in Projects, NEW j \in 1..Len(logs'[q]), q = p => j < i
                 PROVE  LinkOK(logs'[q], j)
      BY <2>3 DEF SoundBelow
    <3>1. CASE q # p
      BY <2>5, <2>7, <3>1
    <3>2. CASE q = p
      BY <2>5, <2>7, <3>2
    <3> QED
      BY <3>1, <3>2
  <2>10. EventsSent'
    BY <2>3 DEF EventsSent
  <2> QED
    BY <2>8, <2>9, <2>10
<1>4. CASE UNCHANGED <<logs, damage>>
  BY <1>4 DEF OneDamage, DamagedBroken, SoundBelow, EventsSent
<1> QED
  BY <1>2, <1>3, <1>4, QuietStep

\* On what one damaged event leaves, verify_chain stops at that event.
LEMMA Located ==
    ASSUME TypeInv, DamageInv
    PROVE  DamageLocated
<1> SUFFICES ASSUME NEW p \in Projects
             PROVE  verify_chain(logs[p]) = IF \E d \in damage : d[1] = p
                                            THEN (CHOOSE d \in damage : d[1] = p)[2]
                                            ELSE 0
  BY DEF DamageLocated
<1> DEFINE broken == {i \in 1..Len(logs[p]) : ~LinkOK(logs[p], i)}
<1>1. verify_chain(logs[p]) =
        IF broken = {} THEN 0 ELSE CHOOSE i \in broken : \A j \in broken : i <= j
  BY DEF verify_chain
<1>2. Len(logs[p]) \in Nat
  BY DEF TypeInv, TypeOK
<1>3. CASE ~ \E d \in damage : d[1] = p
  <2>1. broken = {}
    BY <1>3 DEF DamageInv, SoundBelow
  <2> QED
    BY <1>1, <1>3, <2>1
<1>4. CASE \E d \in damage : d[1] = p
  <2>1. PICK d \in damage : d[1] = p
    BY <1>4
  <2>2. (CHOOSE x \in damage : x[1] = p) = d
    BY <2>1 DEF DamageInv, OneDamage
  <2>3. d[2] \in 1..Len(logs[p]) /\ ~LinkOK(logs[p], d[2])
    BY <2>1 DEF DamageInv, DamagedBroken
  <2>4. d[2] \in broken
    BY <2>3
  <2>5. ASSUME NEW j \in broken PROVE d[2] <= j
    <3>1. j \in 1..Len(logs[p]) /\ ~LinkOK(logs[p], j)
      OBVIOUS
    <3>2. \A x \in damage : x = d
      BY <2>1 DEF DamageInv, OneDamage
    <3>3. ~(j < d[2])
      BY <3>1, <3>2 DEF DamageInv, SoundBelow
    <3> QED
      BY <1>2, <2>3, <3>1, <3>3
  <2>6. \A i \in broken : i \in Int
    OBVIOUS
  <2> HIDE DEF broken
  <2>7. ASSUME NEW i \in broken, \A j \in broken : i <= j PROVE i = d[2]
    BY <2>4, <2>5, <2>6, <2>7
  <2>8. (CHOOSE i \in broken : \A j \in broken : i <= j) = d[2]
    BY <2>4, <2>5, <2>7
  <2> QED
    BY <1>1, <1>4, <2>2, <2>4, <2>8
<1> QED
  BY <1>3, <1>4

\* verify_chain passes every log that only append has written, and raises at
\* the one event that was changed in place, whatever was chained on top since.
THEOREM DamageIsFound == Spec => []DamageLocated
<1>1. Init => TypeInv /\ DamageInv
  <2>1. Init => TypeInv
    BY MaxEventsNat DEF Init, TypeInv, TypeOK, BusyHasEvent
  <2>2. Init => DamageInv
    BY EmptySeq DEF Init, DamageInv, OneDamage, DamagedBroken, SoundBelow, EventsSent
  <2> QED
    BY <2>1, <2>2
<1>2. TypeInv /\ DamageInv /\ [Next]_vars => TypeInv' /\ DamageInv'
  BY TypeStep, DamageStep
<1>3. TypeInv /\ DamageInv => DamageLocated
  BY Located
<1> QED
  BY <1>1, <1>2, <1>3, PTL DEF Spec
-----------------------------------------------------------------------------
(* What is accepted is stored once.                                        *)

\* While storage is sound: a stored event is one its client has been told is
\* in, every such event is stored, and no event is stored twice.
StoredWasSent ==
    \A p \in Projects : \A i \in 1..Len(logs[p]) :
        \E c \in Clients : \E k \in 1..sent[c] : logs[p][i].event = <<c, k>>
SentIsStored ==
    \A c \in Clients : \A k \in 1..sent[c] :
        \E p \in Projects : \E i \in 1..Len(logs[p]) : logs[p][i].event = <<c, k>>
NoTwice ==
    \A p, q \in Projects : \A i \in 1..Len(logs[p]), j \in 1..Len(logs[q]) :
        logs[p][i].event = logs[q][j].event => p = q /\ i = j

OnceInv == damage = {} => StoredWasSent /\ SentIsStored /\ NoTwice

\* The event an accepted append stores is its client's next.
LEMMA AppendsNext ==
    ASSUME TypeInv, NEW c \in Clients, Appended(c)
    PROVE  \E e \in Event :
             LET p == target[c] IN
             /\ p \in Projects
             /\ logs' = [logs EXCEPT ![p] = Append(logs[p], e)]
             /\ e.event = <<c, sent[c] + 1>>
             /\ sent' = [sent EXCEPT ![c] = @ + 1]
             /\ damage' = damage
<1> DEFINE p == target[c]
           id == <<c, sent[c] + 1>>
           e == Chained(logs[p], p, id)
<1>1. /\ p \in Projects /\ logs[p] \in Seq(Event) /\ id \in Clients \X (1..MaxEvents)
      /\ e \in Event /\ logs' = [logs EXCEPT ![p] = Append(logs[p], e)]
      /\ damage' = damage
  BY AppendEffect
<1>2. sent' = [sent EXCEPT ![c] = @ + 1]
  BY DEF Appended
<1>3. e.event = id
  <2> DEFINE own == [event |-> id, project |-> p, offset |-> Len(logs[p])]
  <2>1. id \in EventId
    BY <1>1 DEF EventId
  <2>2. e = [event |-> id, project |-> p, offset |-> Len(logs[p]),
             prev_hash |-> LastHash(logs[p]), hash |-> Append(LastHash(logs[p]), own)]
    <3> HIDE DEF id, p
    <3> QED
      BY <1>1, <2>1, ChainedFields
  <2> HIDE DEF id, p, e
  <2> QED
    BY <2>2
<1> HIDE DEF e
<1> QED
  BY <1>1, <1>2, <1>3

\* Every step keeps accepted events stored once.
LEMMA OnceStep ==
    ASSUME TypeInv, OnceInv, [Next]_vars
    PROVE  OnceInv'
<1> SUFFICES ASSUME damage' = {} PROVE StoredWasSent' /\ SentIsStored' /\ NoTwice'
  BY DEF OnceInv
<1>1. /\ logs \in [Projects -> Seq(Event)] /\ \A p \in Projects : Len(logs[p]) \in Nat
      /\ sent \in [Clients -> Nat]
  BY MaxEventsNat DEF TypeInv, TypeOK
<1>2. CASE \E c \in Clients : Appended(c)
  <2>1. PICK c \in Clients : Appended(c)
    BY <1>2
  <2> DEFINE t == target[c]
  <2>2. PICK e \in Event :
          /\ t \in Projects
          /\ logs' = [logs EXCEPT ![t] = Append(logs[t], e)]
          /\ e.event = <<c, sent[c] + 1>>
          /\ sent' = [sent EXCEPT ![c] = @ + 1] /\ damage' = damage
    BY <2>1, AppendsNext
  <2> HIDE DEF t
  <2>3. StoredWasSent /\ SentIsStored /\ NoTwice
    BY <2>2 DEF OnceInv
  <2>4. /\ Len(Append(logs[t], e)) = Len(logs[t]) + 1 /\ Len(logs[t]) \in Nat
        /\ Append(logs[t], e)[Len(logs[t]) + 1] = e
        /\ \A i \in 1..Len(logs[t]) : Append(logs[t], e)[i] = logs[t][i]
    BY <1>1, <2>2, AppendProperties
  <2>5. logs'[t] = Append(logs[t], e) /\ \A q \in Projects \ {t} : logs'[q] = logs[q]
    BY <1>1, <2>2
  <2>6. sent'[c] = sent[c] + 1 /\ \A d \in Clients \ {c} : sent'[d] = sent[d]
    BY <1>1, <2>2
  <2>7. \A p \in Projects : \A i \in 1..Len(logs[p]) :
          i \in 1..Len(logs'[p]) /\ logs'[p][i] = logs[p][i]
    BY <2>4, <2>5
  <2>8. \A p \in Projects : \A i \in 1..Len(logs'[p]) :
          \/ i \in 1..Len(logs[p])
          \/ p = t /\ i = Len(logs[t]) + 1 /\ logs'[p][i] = e
    BY <2>4, <2>5
  <2>9. \A p \in Projects : \A i \in 1..Len(logs[p]) : logs[p][i].event # e.event
    <3> SUFFICES ASSUME NEW p \in Projects, NEW i \in 1..Len(logs[p]),
                        logs[p][i].event = e.event
                 PROVE  FALSE
      OBVIOUS
    <3>1. PICK d \in Clients : \E k \in 1..sent[d] : logs[p][i].event = <<d, k>>
      BY <2>3 DEF StoredWasSent
    <3>2. PICK k \in 1..sent[d] : logs[p][i].event = <<d, k>>
      BY <3>1
    <3>3. d = c /\ k = sent[c] + 1
      BY <2>2, <3>2
    <3> QED
      BY <1>1, <3>3
  <2>10. StoredWasSent'
    <3> SUFFICES ASSUME NEW p \in Projects, NEW i \in 1..Len(logs'[p])
                 PROVE  \E d \in Clients : \E k \in 1..sent'[d] : logs'[p][i].event = <<d, k>>
      BY DEF StoredWasSent
    <3>1. CASE i \in 1..Len(logs[p])
      <4>1. PICK d \in Clients : \E k \in 1..sent[d] : logs[p][i].event = <<d, k>>
        BY <2>3, <3>1 DEF StoredWasSent
      <4>2. PICK k \in 1..sent[d] : logs[p][i].event = <<d, k>>
        BY <4>1
      <4>3. k \in 1..sent'[d]
        BY <1>1, <2>6, <4>2
      <4> QED
        BY <2>7, <3>1, <4>2, <4>3
    <3>2. CASE i \notin 1..Len(logs[p])
      <4>1. logs'[p][i] = e
        BY <2>8, <3>2
      <4>2. sent[c] + 1 \in 1..sent'[c]
        BY <1>1, <2>6
      <4> QED
        BY <2>2, <4>1, <4>2
    <3> QED
      BY <3>1, <3>2
  <2>11. SentIsStored'
    <3> SUFFICES ASSUME NEW d \in Clients, NEW k \in 1..sent'[d]
                 PROVE  \E p \in Projects : \E i \in 1..Len(logs'[p]) :
                           logs'[p][i].event = <<d, k>>
      BY DEF SentIsStored
    <3>1. CASE k \in 1..sent[d]
      <4>1. PICK p \in Projects : \E i \in 1..Len(logs[p]) : logs[p][i].event = <<d, k>>
        BY <2>3, <3>1 DEF SentIsStored
      <4>2. PICK i \in 1..Len(logs[p]) : logs[p][i].event = <<d, k>>
        BY <4>1
      <4>3. i \in 1..Len(logs'[p]) /\ logs'[p][i] = logs[p][i]
        BY <2>7
      <4> QED
        BY <4>2, <4>3
    <3>2. CASE k \notin 1..sent[d]
      <4>1. d = c /\ k = sent[c] + 1
        BY <1>1, <2>6, <3>2
      <4>2. Len(logs[t]) + 1 \in 1..Len(logs'[t]) /\ logs'[t][Len(logs[t]) + 1] = e
        BY <2>4, <2>5
      <4> QED
        BY <2>2, <4>1, <4>2
    <3> QED
      BY <3>1, <3>2
  <2>12. NoTwice'
    <3> SUFFICES ASSUME NEW p \in Projects, NEW q \in Projects,
                        NEW i \in 1..Len(logs'[p]), NEW j \in 1..Len(logs'[q]),
                        logs'[p][i].event = logs'[q][j].event
                 PROVE  p = q /\ i = j
      BY DEF NoTwice
    <3>1. CASE i \in 1..Len(logs[p]) /\ j \in 1..Len(logs[q])
      <4>1. logs[p][i].event = logs[q][j].event
        BY <2>7, <3>1
      <4> QED
        BY <2>3, <3>1, <4>1 DEF NoTwice
    <3>2. CASE i \notin 1..Len(logs[p]) /\ j \notin 1..Len(logs[q])
      BY <2>8, <3>2
    <3>3. CASE i \in 1..Len(logs[p]) /\ j \notin 1..Len(logs[q])
      <4>1. logs'[p][i] = logs[p][i] /\ logs[p][i].event # e.event
        BY <2>7, <2>9, <3>3
      <4>2. logs'[q][j] = e
        BY <2>8, <3>3
      <4> QED
        BY <4>1, <4>2
    <3>4. CASE i \notin 1..Len(logs[p]) /\ j \in 1..Len(logs[q])
      <4>1. logs'[q][j] = logs[q][j] /\ logs[q][j].event # e.event
        BY <2>7, <2>9, <3>4
      <4>2. logs'[p][i] = e
        BY <2>8, <3>4
      <4> QED
        BY <4>1, <4>2
    <3> QED
      BY <3>1, <3>2, <3>3, <3>4
  <2> QED
    BY <2>10, <2>11, <2>12
<1>3. CASE \E p \in Projects : \E i \in 1..Len(logs[p]) : Damage(p, i)
  BY <1>3 DEF Damage
<1>4. CASE ~(\E c \in Clients : Appended(c)) /\ UNCHANGED <<logs, damage>>
  <2>1. sent' = sent
    BY <1>4 DEF Next, Step, vars, Begin, CurrentOffset, Conflict, Retry, GiveUp, Damage
  <2> QED
    BY <1>4, <2>1 DEF OnceInv, StoredWasSent, SentIsStored, NoTwice
<1> QED
  BY <1>2, <1>3, <1>4, QuietStep

\* A log is no longer than the events clients may send.
LEMMA LogFits ==
    ASSUME IsFiniteSet(Clients), TypeInv, StoredWasSent, NoTwice, NEW p \in Projects
    PROVE  Len(logs[p]) <= Cardinality(Clients) * MaxEvents
<1> DEFINE n == Len(logs[p])
           ids == Clients \X (1..MaxEvents)
           f == [i \in 1..n |-> logs[p][i].event]
<1>1. n \in Nat
  BY DEF TypeInv, TypeOK
<1>2. ASSUME NEW i \in 1..n PROVE logs[p][i].event \in ids
  <2>1. PICK c \in Clients : \E k \in 1..sent[c] : logs[p][i].event = <<c, k>>
    BY DEF StoredWasSent
  <2>2. PICK k \in 1..sent[c] : logs[p][i].event = <<c, k>>
    BY <2>1
  <2>3. k \in 1..MaxEvents
    <3>1. sent[c] \in 0..MaxEvents
      BY DEF TypeInv, TypeOK
    <3> QED
      BY <2>2, <3>1, MaxEventsNat
  <2> QED
    BY <2>2, <2>3
<1>3. f \in Injection(1..n, ids)
  <2>1. f \in [1..n -> ids]
    BY <1>2
  <2>2. \A i, j \in 1..n : f[i] = f[j] => i = j
    BY DEF NoTwice
  <2> QED
    BY <2>1, <2>2 DEF Injection, IsInjective
<1>4. IsFiniteSet(1..MaxEvents) /\ Cardinality(1..MaxEvents) = MaxEvents
  BY MaxEventsNat, FS_Interval
<1>5. IsFiniteSet(ids) /\ Cardinality(ids) = Cardinality(Clients) * MaxEvents
  BY <1>4, FS_Product
<1>6. IsFiniteSet(1..n) /\ Cardinality(1..n) = n
  BY <1>1, FS_Interval
<1> HIDE DEF f, ids, n
<1>7. Cardinality(1..n) <= Cardinality(ids)
  BY <1>3, <1>5, FS_Injection
<1> QED
  BY <1>5, <1>6, <1>7 DEF n

\* An event of a client is in one place if it was accepted, in none if not.
LEMMA StoredExactly ==
    ASSUME IsFiniteSet(Clients), TypeInv, OnceInv
    PROVE  StoredOnce
<1> DEFINE places == Projects \X (1..Cardinality(Clients) * MaxEvents)
           slots(c, k) == {d \in places :
                             /\ d[2] <= Len(logs[d[1]])
                             /\ logs[d[1]][d[2]].event = <<c, k>>}
<1> SUFFICES ASSUME damage = {}, NEW c \in Clients, NEW k \in 1..MaxEvents
             PROVE  Cardinality(slots(c, k)) = IF k <= sent[c] THEN 1 ELSE 0
  BY DEF StoredOnce
<1>1. StoredWasSent /\ SentIsStored /\ NoTwice
  BY DEF OnceInv
<1>2. sent[c] \in Nat /\ \A p \in Projects : Len(logs[p]) \in Nat
  BY MaxEventsNat DEF TypeInv, TypeOK
<1>3. \A d \in slots(c, k) : d[1] \in Projects /\ d[2] \in 1..Len(logs[d[1]])
                             /\ logs[d[1]][d[2]].event = <<c, k>>
  BY <1>2
<1>4. CASE k <= sent[c]
  <2>0. k \in 1..sent[c]
    BY <1>2, <1>4
  <2>1. PICK p \in Projects : \E i \in 1..Len(logs[p]) : logs[p][i].event = <<c, k>>
    BY <1>1, <2>0 DEF SentIsStored
  <2>2. PICK i \in 1..Len(logs[p]) : logs[p][i].event = <<c, k>>
    BY <2>1
  <2>3. <<p, i>> \in slots(c, k)
    <3>1. Len(logs[p]) <= Cardinality(Clients) * MaxEvents
      BY <1>1, LogFits
    <3>2. Cardinality(Clients) * MaxEvents \in Nat
      <4>1. Cardinality(Clients) \in Nat
        BY FS_CardinalityType
      <4> QED
        BY <4>1, MaxEventsNat
    <3>3. i \in 1..Cardinality(Clients) * MaxEvents
      BY <1>2, <2>2, <3>1, <3>2
    <3> QED
      BY <1>2, <2>2, <3>3
  <2>4. ASSUME NEW d \in slots(c, k) PROVE d = <<p, i>>
    <3>1. d[1] \in Projects /\ d[2] \in 1..Len(logs[d[1]])
          /\ logs[d[1]][d[2]].event = <<c, k>>
      BY <1>3
    <3>2. d[1] = p /\ d[2] = i
      <4>1. logs[d[1]][d[2]].event = logs[p][i].event
        BY <2>2, <3>1
      <4> QED
        BY <1>1, <3>1, <4>1 DEF NoTwice
    <3>3. d = <<d[1], d[2]>>
      OBVIOUS
    <3> QED
      BY <3>2, <3>3
  <2> HIDE DEF slots
  <2>5. slots(c, k) = {<<p, i>>}
    BY <2>3, <2>4
  <2>6. Cardinality({<<p, i>>}) = 1
    BY FS_Singleton
  <2> QED
    BY <1>4, <2>5, <2>6
<1>5. CASE ~(k <= sent[c])
  <2>1. ASSUME NEW d \in slots(c, k) PROVE FALSE
    <3>1. d[1] \in Projects /\ d[2] \in 1..Len(logs[d[1]])
          /\ logs[d[1]][d[2]].event = <<c, k>>
      BY <1>3
    <3>2. PICK b \in Clients : \E m \in 1..sent[b] : logs[d[1]][d[2]].event = <<b, m>>
      BY <1>1, <3>1 DEF StoredWasSent
    <3>3. PICK m \in 1..sent[b] : logs[d[1]][d[2]].event = <<b, m>>
      BY <3>2
    <3>4. b = c /\ m = k
      BY <3>1, <3>3
    <3> QED
      BY <1>2, <1>5, <3>3, <3>4
  <2> HIDE DEF slots
  <2>2. slots(c, k) = {}
    BY <2>1
  <2> QED
    BY <1>5, <2>2, FS_EmptySet
<1> QED
  BY <1>4, <1>5

\* An accepted event is stored exactly once over all the projects, one that
\* was rejected nowhere, for any number of clients that is finite.
THEOREM AcceptedOnce ==
    ASSUME IsFiniteSet(Clients) PROVE Spec => []StoredOnce
<1>1. Init => TypeInv /\ OnceInv
  <2>1. Init => TypeInv
    BY MaxEventsNat DEF Init, TypeInv, TypeOK, BusyHasEvent
  <2>2. Init => OnceInv
    BY EmptySeq DEF Init, OnceInv, StoredWasSent, SentIsStored, NoTwice
  <2> QED
    BY <2>1, <2>2
<1>2. TypeInv /\ OnceInv /\ [Next]_vars => TypeInv' /\ OnceInv'
  BY TypeStep, OnceStep
<1>3. TypeInv /\ OnceInv => StoredOnce
  BY StoredExactly
<1> QED
  BY <1>1, <1>2, <1>3, PTL DEF Spec
=============================================================================
