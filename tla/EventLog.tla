------------------------------ MODULE EventLog ------------------------------
(***************************************************************************)
(* The per-project event log (eventlog.py): an append-only sequence with   *)
(* an optimistic compare-and-swap append, each event chained by hash to    *)
(* the one before, and the writers' loop around it (read current_offset,   *)
(* append, on Conflict read again) of subagents/dispatch.py.               *)
(*                                                                         *)
(* SHA-256 over a canonical encoding is modelled as a collision-free       *)
(* digest: a hash IS the sequence of all the fields it commits to, its own *)
(* event's last, its predecessors' before.  None is the empty sequence.    *)
(***************************************************************************)
EXTENDS Naturals, Sequences, FiniteSets

CONSTANTS Projects,     \* project ids
          Clients,      \* threads and tasks that append
          MaxEvents,    \* bound: events each client appends in all
          Garbled       \* what a damaged event reads as, not a client's event

ASSUME MaxEventsNat == MaxEvents \in Nat
ASSUME GarbledApart == Garbled \notin Clients \X (1..MaxEvents)

VARIABLES logs,         \* project -> the list kept under InMemoryEventLog._lock
          pc,           \* client -> where it is in its append loop
          target,       \* client -> project it is appending to
          expected,     \* client -> the offset it last read: its CAS token
          sent,         \* client -> events it got appended so far
          intervening,  \* client -> Conflict.intervening_events it last got
          damage        \* the <<project, position>> storage has corrupted

vars == <<logs, pc, target, expected, sent, intervening, damage>>

-----------------------------------------------------------------------------
(* Events and their digests                                                *)

EventId == (Clients \X (1..MaxEvents)) \cup {Garbled}
Signed  == [event : EventId, project : Projects, offset : Nat]
Hash    == Seq(Signed)
Event   == [event : EventId, project : Projects, offset : Nat,
            prev_hash : Hash, hash : Hash]

\* compute_event_hash: every field but the hash itself.
compute_event_hash(e) ==
    Append(e.prev_hash,
           [event |-> e.event, project |-> e.project, offset |-> e.offset])

\* Hash of the last event, None (<<>>) for an empty log.
LastHash(log) == IF log = <<>> THEN <<>> ELSE log[Len(log)].hash

\* What append stores: the caller's event with the log's own fields filled in.
Chained(log, p, id) ==
    LET e(h) == [event |-> id, project |-> p, offset |-> Len(log),
                 prev_hash |-> LastHash(log), hash |-> h]
    IN  e(compute_event_hash(e(<<>>)))

\* Mutant: the links are followed, the hashes not derived again.
LinkOK_NoRecompute(log, i) ==
    /\ log[i].hash # <<>>
    /\ log[i].prev_hash = (IF i = 1 THEN <<>> ELSE log[i - 1].hash)

\* The slot at position i passes verify_chain's three tests, given that all
\* positions below it do.
LinkOK(log, i) ==
    /\ log[i].hash # <<>>
    /\ log[i].prev_hash = (IF i = 1 THEN <<>> ELSE log[i - 1].hash)
    /\ log[i].hash = compute_event_hash(log[i])

\* verify_chain: the position of the ChainBreak it raises, 0 if it returns.
verify_chain(log) ==
    LET broken == {i \in 1..Len(log) : ~LinkOK(log, i)}
    IN  IF broken = {} THEN 0
        ELSE CHOOSE i \in broken : \A j \in broken : i <= j

-----------------------------------------------------------------------------
Init ==
    /\ logs = [p \in Projects |-> <<>>]
    /\ pc = [c \in Clients |-> "idle"]
    /\ target \in [Clients -> Projects]
    /\ expected = [c \in Clients |-> 0]
    /\ sent = [c \in Clients |-> 0]
    /\ intervening = [c \in Clients |-> <<>>]
    /\ damage = {}

\* A caller has an event for project p.
Begin(c, p) ==
    /\ pc[c] = "idle"
    /\ sent[c] < MaxEvents
    /\ pc' = [pc EXCEPT ![c] = "read"]
    /\ target' = [target EXCEPT ![c] = p]
    /\ UNCHANGED <<logs, expected, sent, intervening, damage>>

\* Mutant: the offset of the last event instead of the count of events.
CurrentOffset_LastIndex(c) ==
    /\ pc[c] = "read"
    /\ expected' = [expected EXCEPT ![c] = Len(logs[target[c]]) - 1]
    /\ pc' = [pc EXCEPT ![c] = "append"]
    /\ UNCHANGED <<logs, target, sent, intervening, damage>>

\* current_offset, under the lock.
CurrentOffset(c) ==
    /\ pc[c] = "read"
    /\ expected' = [expected EXCEPT ![c] = Len(logs[target[c]])]
    /\ pc' = [pc EXCEPT ![c] = "append"]
    /\ UNCHANGED <<logs, target, sent, intervening, damage>>

\* Mutant: no comparison; the event is written at the slot the token names.
Appended_AtToken(c) ==
    LET p == target[c]
        log == SubSeq(logs[p], 1, expected[c]) IN
    /\ pc[c] = "append"
    /\ logs' = [logs EXCEPT
                 ![p] = Append(log, Chained(log, p, <<c, sent[c] + 1>>))]
    /\ sent' = [sent EXCEPT ![c] = @ + 1]
    /\ pc' = [pc EXCEPT ![c] = "idle"]
    /\ UNCHANGED <<target, expected, intervening, damage>>

\* append with expected_offset = len(log): the event is chained and stored.
Appended(c) ==
    LET p == target[c]
        log == logs[p] IN
    /\ pc[c] = "append"
    /\ expected[c] = Len(log)
    /\ logs' = [logs EXCEPT
                 ![p] = Append(log, Chained(log, p, <<c, sent[c] + 1>>))]
    /\ sent' = [sent EXCEPT ![c] = @ + 1]
    /\ pc' = [pc EXCEPT ![c] = "idle"]
    /\ UNCHANGED <<target, expected, intervening, damage>>

\* Mutant: the event is stored before the comparison rejects it.
Conflict_Stores(c) ==
    LET p == target[c]
        log == logs[p] IN
    /\ pc[c] = "append"
    /\ expected[c] # Len(log)
    /\ logs' = [logs EXCEPT
                 ![p] = Append(log, Chained(log, p, <<c, sent[c] + 1>>))]
    /\ intervening' = [intervening EXCEPT
                        ![c] = SubSeq(log, expected[c] + 1, Len(log))]
    /\ pc' = [pc EXCEPT ![c] = "lost"]
    /\ UNCHANGED <<target, expected, sent, damage>>

\* Mutant: the tail starts one event too late.
Conflict_SkipsOne(c) ==
    LET log == logs[target[c]] IN
    /\ pc[c] = "append"
    /\ expected[c] # Len(log)
    /\ intervening' = [intervening EXCEPT
                        ![c] = SubSeq(log, expected[c] + 2, Len(log))]
    /\ pc' = [pc EXCEPT ![c] = "lost"]
    /\ UNCHANGED <<logs, target, expected, sent, damage>>

\* append with any other expected_offset: nothing stored, the tail returned.
Conflict(c) ==
    LET log == logs[target[c]] IN
    /\ pc[c] = "append"
    /\ expected[c] # Len(log)
    /\ intervening' = [intervening EXCEPT
                        ![c] = SubSeq(log, expected[c] + 1, Len(log))]
    /\ pc' = [pc EXCEPT ![c] = "lost"]
    /\ UNCHANGED <<logs, target, expected, sent, damage>>

\* Mutant: the append is tried again with the offset that already lost.
Retry_SameToken(c) ==
    /\ pc[c] = "lost"
    /\ pc' = [pc EXCEPT ![c] = "append"]
    /\ UNCHANGED <<logs, target, expected, sent, intervening, damage>>

\* The caller's answer to a Conflict: dispatch.py goes round again ...
Retry(c) ==
    /\ pc[c] = "lost"
    /\ pc' = [pc EXCEPT ![c] = "read"]
    /\ UNCHANGED <<logs, target, expected, sent, intervening, damage>>

\* ... the @action wrapper raises and this event is never appended.
GiveUp(c) ==
    /\ pc[c] = "lost"
    /\ pc' = [pc EXCEPT ![c] = "idle"]
    /\ UNCHANGED <<logs, target, expected, sent, intervening, damage>>

\* External: one stored event is changed in place, in its content, its link
\* or its own hash, nothing else being recomputed (bound: once).
Damage(p, i) ==
    /\ damage = {}
    /\ \/ logs' = [logs EXCEPT ![p][i].event = Garbled]
       \/ logs' = [logs EXCEPT ![p][i].prev_hash =
                     Append(@, [event |-> Garbled, project |-> p, offset |-> i])]
       \/ logs' = [logs EXCEPT ![p][i].hash = <<>>]
    /\ damage' = {<<p, i>>}
    /\ UNCHANGED <<pc, target, expected, sent, intervening>>

Step(c) == CurrentOffset(c) \/ Appended(c) \/ Conflict(c)

Next ==
    \/ \E c \in Clients : \/ \E p \in Projects : Begin(c, p)
                          \/ Step(c)
                          \/ Retry(c)
                          \/ GiveUp(c)
    \/ \E p \in Projects : \E i \in 1..Len(logs[p]) : Damage(p, i)

Spec == Init /\ [][Next]_vars

\* Threads and tasks that have a step to take are scheduled; the loop of
\* dispatch.py has no exit but success, so its Retry is fair and GiveUp is not.
Fairness == \A c \in Clients : WF_vars(Step(c)) /\ WF_vars(Retry(c))
FairSpec == Spec /\ Fairness

-----------------------------------------------------------------------------
(* Correctness.                                                            *)

\* Every variable keeps its type.
TypeOK ==
    /\ logs \in [Projects -> Seq(Event)]
    /\ pc \in [Clients -> {"idle", "read", "append", "lost"}]
    /\ target \in [Clients -> Projects]
    /\ expected \in [Clients -> Nat]
    /\ sent \in [Clients -> 0..MaxEvents]
    /\ intervening \in [Clients -> Seq(Event)]
    /\ damage \subseteq Projects \X (Nat \ {0})

\* "Totally ordered by offset (0-indexed)": the event at position i carries
\* offset i - 1 and the id of the project whose log it is in, whatever order
\* the clients' reads and appends came in.
OffsetsDense ==
    \A p \in Projects : \A i \in 1..Len(logs[p]) :
        logs[p][i].offset = i - 1 /\ logs[p][i].project = p

\* "Rejected without side effect": an event a client got accepted is stored
\* exactly once over all the projects, however many conflicts and retries it
\* took, and an event it did not is stored nowhere.
StoredOnce ==
    damage = {} =>
      \A c \in Clients, k \in 1..MaxEvents :
        LET slots == {d \in Projects \X (1..Cardinality(Clients) * MaxEvents) :
                        d[2] <= Len(logs[d[1]]) /\ logs[d[1]][d[2]].event = <<c, k>>}
        IN  Cardinality(slots) = IF k <= sent[c] THEN 1 ELSE 0

\* verify_chain returns normally on every log that only append has written,
\* and on a log with one damaged event raises ChainBreak at that very event,
\* also after more events were chained on top of it; other projects' logs stay
\* intact.
DamageLocated ==
    \A p \in Projects :
        verify_chain(logs[p]) = IF \E d \in damage : d[1] = p
                                THEN (CHOOSE d \in damage : d[1] = p)[2]
                                ELSE 0

\* A Conflict tells the loser everything it had not seen: the events from its
\* token on, none skipped, none it already knew, at least one.
ConflictExplained ==
    \A c \in Clients : pc[c] = "lost" =>
        /\ intervening[c] # <<>>
        /\ \A j \in 1..Len(intervening[c]) :
              intervening[c][j].offset = expected[c] + j - 1
        /\ expected[c] + Len(intervening[c]) <= Len(logs[target[c]])

\* The log is append-only: a step other than storage damage leaves what is
\* stored a prefix of what is stored afterwards.
AppendOnly ==
    [][\A p \in Projects :
         damage' = damage => /\ Len(logs[p]) <= Len(logs'[p])
                             /\ SubSeq(logs'[p], 1, Len(logs[p])) = logs[p]]_vars

\* The read-append-retry loop ends: a client in it gets its event in, because
\* each conflict is another client's success and those are finitely many.
LoopEnds == \A c \in Clients : pc[c] = "read" ~> pc[c] = "idle"
=============================================================================
