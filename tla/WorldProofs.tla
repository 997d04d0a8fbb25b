---------------------------- MODULE WorldProofs -----------------------------
(* Proofs about World, for any instances, actions, seeds and bounds.       *)
EXTENDS World, SequenceTheorems, TLAPS

-----------------------------------------------------------------------------
(* Type correctness.                                                       *)

\* A call under way is the instance's own and the next one that counts.
Calling ==
    \A w \in Worlds : pc[w] \in {"catchUp", "body", "append"} =>
        call[w].by = w /\ call[w].nth = done[w] + 1

\* What a read-modify-write has read is text of the document it is to write.
Buffered ==
    \A w \in Worlds :
        /\ pc[w] = "writeAudit" => buf[w] \in Seq(AuditEntry)
        /\ pc[w] = "writeActivity" => buf[w] \in Seq(LogEntry)

TypeInv == TypeOK /\ Calling /\ Buffered

\* The seeds are executions, and so is what an instance has not called yet.
LEMMA SeedsType ==
    /\ Seeds \in Seq(Exec)
    /\ {Seeds[i] : i \in 1..Len(Seeds)} \in SUBSET Exec
    /\ SeedAudit \in Seq(AuditEntry)
    /\ SeedActivity \in Seq(LogEntry)
    /\ \A w \in Worlds : NoCall(w) \in Exec
<1>1. Seeds \in Seq(Exec)
  BY SeedsOK
<1>2. Len(Seeds) \in Nat /\ \A i \in 1..Len(Seeds) : Seeds[i] \in Exec
  BY <1>1, ElementOfSeq
<1>3. \A i \in 1..Len(Seeds) :
        [exec |-> Seeds[i], offset |-> i, ok |-> TRUE] \in AuditEntry
  BY <1>2 DEF AuditEntry
<1>4. SeedAudit \in Seq(AuditEntry)
  BY <1>2, <1>3 DEF SeedAudit
<1>5. \A i \in 1..Len(Seeds) : [exec |-> Seeds[i], ok |-> TRUE] \in LogEntry
  BY <1>2 DEF LogEntry
<1>6. SeedActivity \in Seq(LogEntry)
  BY <1>2, <1>5 DEF SeedActivity
<1>7. ASSUME NEW w \in Worlds PROVE NoCall(w) \in Exec
  <2>1. (CHOOSE a \in Actions : TRUE) \in Actions
    BY ActionSets
  <2> QED
    BY <2>1, Bounds DEF NoCall, Exec
<1> QED
  BY <1>1, <1>2, <1>4, <1>6, <1>7

\* The initial state has the types.
LEMMA TypeInit == Init => TypeInv
<1> SUFFICES ASSUME Init PROVE TypeInv
  OBVIOUS
<1>1. Len(Seeds) \in Nat
  BY SeedsType
<1>2. snapshot \in Snapshot \cup {NoDoc}
  BY <1>1, SeedsType DEF Init, Snapshot
<1>3. log \in Seq(Exec) /\ summary \in SUBSET Exec
  BY SeedsType DEF Init
<1>4. audit \in Seq(AuditEntry) /\ activity \in Seq(LogEntry)
  BY SeedsType DEF Init
<1>5. call \in [Worlds -> Exec]
  BY SeedsType DEF Init
<1>6. buf \in [Worlds -> Seq(AuditEntry) \cup Seq(LogEntry)]
  <2>1. <<>> \in Seq(AuditEntry)
    BY EmptySeq
  <2> QED
    BY <2>1 DEF Init
<1>7. /\ pc \in [Worlds -> Stages]
      /\ mem \in [Worlds -> SUBSET Exec]
      /\ token \in [Worlds -> Nat]
      /\ base \in [Worlds -> Nat]
      /\ outcome \in [Worlds -> {"none", "ok", "unavailable", "error", "conflict"}]
      /\ done \in [Worlds -> 0..MaxCalls]
      /\ faults \in 0..MaxFaults
  BY Bounds DEF Init, Stages
<1>8. Calling /\ Buffered
  BY DEF Init, Calling, Buffered
<1> QED
  BY <1>2, <1>3, <1>4, <1>5, <1>6, <1>7, <1>8 DEF TypeInv, TypeOK

\* _hydrate keeps state and token in their types.
LEMMA HydrateType ==
    ASSUME TypeOK, NEW w \in Worlds, Hydrate(w)
    PROVE  /\ mem' \in [Worlds -> SUBSET Exec]
           /\ token' \in [Worlds -> Nat]
<1>1. CASE snapshot = NoDoc
  BY <1>1 DEF Hydrate, TypeOK
<1>2. CASE snapshot # NoDoc
  <2>1. snapshot.state \in SUBSET Exec /\ snapshot.last_offset \in Nat
    BY <1>2 DEF TypeOK, Snapshot
  <2> QED
    BY <1>2, <2>1 DEF Hydrate, TypeOK
<1> QED
  BY <1>1, <1>2

\* Every step keeps every variable in its type.
LEMMA TypeStep == TypeInv /\ [Next]_vars => TypeInv'
<1> SUFFICES ASSUME TypeInv, [Next]_vars PROVE TypeInv'
  OBVIOUS
<1> USE Bounds DEF TypeInv, TypeOK, Calling, Buffered, Stages
<1>1. CASE UNCHANGED vars
  BY <1>1 DEF vars, docs, local
<1>2. ASSUME NEW w \in Worlds, New(w) PROVE TypeInv'
  <2>1. mem' \in [Worlds -> SUBSET Exec] /\ token' \in [Worlds -> Nat]
    <3>1. CASE snapshot = NoDoc
      <4>1. mem' = [mem EXCEPT ![w] = {}] /\ token' = [token EXCEPT ![w] = 0]
        BY <1>2, <3>1 DEF New
      <4>2. ASSUME NEW x \in SUBSET Exec
            PROVE  [mem EXCEPT ![w] = x] \in [Worlds -> SUBSET Exec]
        OBVIOUS
      <4>3. [mem EXCEPT ![w] = {}] \in [Worlds -> SUBSET Exec]
        BY <4>2
      <4> QED
        BY <4>1, <4>3
    <3>2. CASE snapshot # NoDoc
      BY <1>2, <3>2, HydrateType DEF New
    <3> QED
      BY <3>1, <3>2
  <2> QED
    BY <1>2, <2>1 DEF New, Goto, docs
<1>3. ASSUME NEW w \in Worlds, NEW a \in Actions, Enter(w, a) PROVE TypeInv'
  <2> DEFINE e == [by |-> w, action |-> a, nth |-> done[w] + 1,
                   try |-> IF call[w].nth = done[w] + 1
                           THEN 1 - call[w].try ELSE 0]
  <2>1. call[w].try \in {0, 1}
    BY DEF Exec
  <2>2. done[w] + 1 \in 0..MaxCalls
    BY <1>3 DEF Enter
  <2>3. e \in Exec
    BY <2>1, <2>2 DEF Exec
  <2>4. e.by = w /\ e.nth = done[w] + 1
    OBVIOUS
  <2>5. call' = [call EXCEPT ![w] = e]
    BY <1>3 DEF Enter
  <2> HIDE DEF e
  <2>6. TypeOK'
    BY <1>3, <2>3, <2>5 DEF Enter, docs
  <2>7. Calling'
    BY <1>3, <2>3, <2>4, <2>5 DEF Enter, docs
  <2>8. Buffered'
    BY <1>3 DEF Enter
  <2> QED
    BY <2>6, <2>7, <2>8
<1>4. ASSUME NEW w \in Worlds, CatchUp(w) PROVE TypeInv'
  <2>1. mem' \in [Worlds -> SUBSET Exec] /\ token' \in [Worlds -> Nat]
    BY <1>4, HydrateType DEF CatchUp
  <2> QED
    BY <1>4, <2>1 DEF CatchUp, Goto, docs, local
<1>5. ASSUME NEW w \in Worlds, NotAvailable(w) PROVE TypeInv'
  <2>1. done[w] + 1 \in 0..MaxCalls
    BY <1>5 DEF NotAvailable, Goto, Exec
  <2> QED
    BY <1>5, <2>1 DEF NotAvailable, Goto, docs
<1>6. ASSUME NEW w \in Worlds, Body(w) PROVE TypeInv'
  BY <1>6 DEF Body, Goto, docs, local
<1>7. ASSUME NEW w \in Worlds, BodyRaises(w) PROVE TypeInv'
  <2>1. done[w] + 1 \in 0..MaxCalls
    BY <1>7 DEF BodyRaises, Goto, Exec
  <2>2. mem' \in [Worlds -> SUBSET Exec]
    <3>1. mem[w] \cup {call[w]} \in SUBSET Exec
      OBVIOUS
    <3>2. mem' = mem \/ mem' = [mem EXCEPT ![w] = @ \cup {call[w]}]
      BY <1>7 DEF BodyRaises
    <3>3. ASSUME NEW x \in SUBSET Exec
          PROVE  [mem EXCEPT ![w] = x] \in [Worlds -> SUBSET Exec]
      OBVIOUS
    <3>4. [mem EXCEPT ![w] = @ \cup {call[w]}] \in [Worlds -> SUBSET Exec]
      BY <3>1, <3>3
    <3> QED
      BY <3>2, <3>4
  <2> QED
    BY <1>7, <2>1, <2>2 DEF BodyRaises, Goto, docs
<1>8. ASSUME NEW w \in Worlds, Rollback(w) PROVE TypeInv'
  <2>1. mem' \in [Worlds -> SUBSET Exec] /\ token' \in [Worlds -> Nat]
    BY <1>8, HydrateType DEF Rollback
  <2> QED
    BY <1>8, <2>1 DEF Rollback, Goto, docs, local
<1>9. ASSUME NEW w \in Worlds, AppendWins(w) PROVE TypeInv'
  <2>1. done[w] + 1 \in 0..MaxCalls
    BY <1>9 DEF AppendWins, Goto, Exec
  <2>2. log' \in Seq(Exec) /\ Len(log) + 1 \in Nat
    BY <1>9 DEF AppendWins
  <2> QED
    BY <1>9, <2>1, <2>2 DEF AppendWins, Goto, docs
<1>10. ASSUME NEW w \in Worlds, AppendLoses(w) PROVE TypeInv'
  BY <1>10 DEF AppendLoses, Goto, docs
<1>11. ASSUME NEW w \in Worlds, Discard(w) PROVE TypeInv'
  <2>1. mem' \in [Worlds -> SUBSET Exec] /\ token' \in [Worlds -> Nat]
    BY <1>11, HydrateType DEF Discard
  <2> QED
    BY <1>11, <2>1 DEF Discard, Goto, docs
<1>12. ASSUME NEW w \in Worlds, Flush(w) PROVE TypeInv'
  <2>1. snapshot' \in Snapshot
    BY <1>12 DEF Flush, Snapshot
  <2> QED
    BY <1>12, <2>1 DEF Flush, Goto, local
<1>13. ASSUME NEW w \in Worlds, WriteSummary(w) PROVE TypeInv'
  BY <1>13 DEF WriteSummary, Goto, local
<1>14. ASSUME NEW w \in Worlds, ReadAudit(w) PROVE TypeInv'
  BY <1>14 DEF ReadAudit, Goto, docs
<1>15. ASSUME NEW w \in Worlds, WriteAudit(w) PROVE TypeInv'
  <2>1. AuditLine(w) \in AuditEntry
    BY DEF AuditLine, AuditEntry
  <2>2. buf[w] \in Seq(AuditEntry)
    BY <1>15 DEF WriteAudit, Goto
  <2>3. audit' \in Seq(AuditEntry)
    BY <1>15, <2>1, <2>2 DEF WriteAudit
  <2> QED
    BY <1>15, <2>3 DEF WriteAudit, Goto, local
<1>16. ASSUME NEW w \in Worlds, ReadActivity(w) PROVE TypeInv'
  BY <1>16 DEF ReadActivity, Goto, docs
<1>17. ASSUME NEW w \in Worlds, WriteActivity(w) PROVE TypeInv'
  <2>1. LogLine(w) \in LogEntry
    BY DEF LogLine, LogEntry
  <2>2. buf[w] \in Seq(LogEntry)
    BY <1>17 DEF WriteActivity, Goto
  <2>3. activity' \in Seq(LogEntry) /\ <<>> \in Seq(LogEntry)
    BY <1>17, <2>1, <2>2, EmptySeq DEF WriteActivity
  <2> QED
    BY <1>17, <2>3 DEF WriteActivity, Goto
<1>18. ASSUME NEW w \in Worlds, WriteFails(w) PROVE TypeInv'
  <2>1. <<>> \in Seq(LogEntry)
    BY EmptySeq
  <2> QED
    BY <1>18, <2>1 DEF WriteFails, docs
<1>19. ASSUME NEW w \in Worlds, Crash(w) PROVE TypeInv'
  <2>1. <<>> \in Seq(LogEntry)
    BY EmptySeq
  <2> QED
    BY <1>19, <2>1 DEF Crash, docs
<1> QED
  BY <1>1, <1>2, <1>3, <1>4, <1>5, <1>6, <1>7, <1>8, <1>9, <1>10, <1>11, <1>12,
     <1>13, <1>14, <1>15, <1>16, <1>17, <1>18, <1>19 DEF Next, Step

\* Every variable of the world model keeps its type in every behaviour.
THEOREM TypeCorrect == Spec => []TypeOK
<1>1. TypeInv => TypeOK
  BY DEF TypeInv
<1> QED
  BY <1>1, TypeInit, TypeStep, PTL DEF Spec

-----------------------------------------------------------------------------
(* Nothing stale or half-applied commits, whatever crashes or fails.  The  *)
(* claim is about one instance's memory at the moment its append wins; it  *)
(* rests on what the token says of that memory all along (Loyal), which    *)
(* rests on who may hold the newest token while state.json lags behind the *)
(* log (GapHasOneOwner, FlushHolds).                                       *)

\* Bodies that raise half way are only harmless where there is a snapshot to
\* go back to.
CanRollBack == Torn = {} \/ Seeds # <<>>

Live(w) == pc[w] # "absent"

TokensInLog == \A w \in Worlds : token[w] <= Len(log)

\* An instance whose token is the end of the log has in memory exactly the
\* effects of the log, and its own while its call is under way.
LoyalAt(w) ==
    Live(w) /\ token[w] = Len(log) =>
        /\ pc[w] # "discard"
        /\ pc[w] = "append" =>
              /\ mem[w] = Effects(Len(log)) \cup {call[w]}
              /\ Shown(call[w].action, Effects(Len(log)))
        /\ pc[w] = "rollback" /\ snapshot = NoDoc => mem[w] = Effects(Len(log))
        /\ pc[w] \notin {"append", "rollback"} => mem[w] = Effects(Len(log))
Loyal == \A w \in Worlds : LoyalAt(w)

\* An instance about to flush holds the newest event, which is not in
\* state.json yet.
FlushHolds ==
    \A w \in Worlds : pc[w] = "flush" =>
        token[w] = Len(log) /\ SnapshotOffset < Len(log)

\* A project that started with events has had a snapshot from the start.
SeedsFlushed == Seeds # <<>> => snapshot # NoDoc

CommitParts == /\ TokensInLog /\ Loyal /\ FlushHolds /\ SeedsFlushed
               /\ SnapshotIsPrefix /\ GapHasOneOwner
CommitInv == TypeInv /\ CommitParts

\* An append adds its execution to the effects of the log.
LEMMA EffectsAppend ==
    ASSUME log \in Seq(Exec), NEW e \in Exec, log' = Append(log, e)
    PROVE  /\ Len(log) \in Nat
           /\ Len(log') = Len(log) + 1
           /\ log'[Len(log')] = e
           /\ \A i \in 1..Len(log) : log'[i] = log[i]
           /\ Effects(Len(log))' = Effects(Len(log)) \cup {e}
           /\ \A n \in 0..Len(log) : {log'[i] : i \in 1..n} = Effects(n)
<1>1. /\ Len(log) \in Nat
      /\ Len(log') = Len(log) + 1
      /\ log'[Len(log')] = e
      /\ \A i \in 1..Len(log) : log'[i] = log[i]
  BY AppendProperties
<1>2. 1..Len(log') = 1..Len(log) \cup {Len(log')}
  BY <1>1
<1>3. {log'[i] : i \in 1..Len(log')} = {log[i] : i \in 1..Len(log)} \cup {e}
  BY <1>1, <1>2
<1>4. \A n \in 0..Len(log) : {log'[i] : i \in 1..n} = Effects(n)
  BY <1>1 DEF Effects
<1> QED
  BY <1>1, <1>3, <1>4 DEF Effects

\* After _hydrate an instance either has what it had, there being no snapshot,
\* or the effects of a prefix of the log and the token that says which.
LEMMA HydrateEffect ==
    ASSUME CommitInv, NEW w \in Worlds, Hydrate(w)
    PROVE  /\ snapshot = NoDoc => mem' = mem /\ token' = token
           /\ snapshot # NoDoc =>
                /\ token'[w] = SnapshotOffset /\ token'[w] <= Len(log)
                /\ mem'[w] = Effects(SnapshotOffset)
           /\ \A v \in Worlds \ {w} : mem'[v] = mem[v] /\ token'[v] = token[v]
<1>1. mem \in [Worlds -> SUBSET Exec] /\ token \in [Worlds -> Nat]
  BY DEF CommitInv, TypeInv, TypeOK
<1>2. CASE snapshot = NoDoc
  BY <1>2 DEF Hydrate
<1>3. CASE snapshot # NoDoc
  <2>1. snapshot.last_offset <= Len(log) /\ snapshot.state = Effects(snapshot.last_offset)
    BY <1>3 DEF CommitInv, CommitParts, SnapshotIsPrefix
  <2> QED
    BY <1>1, <1>3, <2>1 DEF Hydrate, SnapshotOffset
<1> QED
  BY <1>2, <1>3

\* A step of w that writes neither log nor state.json keeps the invariant if
\* it keeps it for w.
LEMMA QuietStep ==
    ASSUME CommitInv, NEW w \in Worlds, UNCHANGED <<log, snapshot>>,
           \A v \in Worlds \ {w} : /\ pc'[v] = pc[v] /\ mem'[v] = mem[v]
                                   /\ token'[v] = token[v] /\ call'[v] = call[v],
           token'[w] <= Len(log),
           pc'[w] # "flush",
           LoyalAt(w)',
           Live(w)' /\ token'[w] = Len(log) /\ SnapshotOffset < Len(log)
             => log[Len(log)].by = w
    PROVE  CommitParts'
<1> USE DEF CommitInv, CommitParts
<1>1. /\ Len(log)' = Len(log) /\ SnapshotOffset' = SnapshotOffset
      /\ \A n : {log'[i] : i \in 1..n} = Effects(n)
  BY DEF SnapshotOffset, Effects
<1>2. TokensInLog'
  BY DEF TokensInLog
<1>3. Loyal'
  <2> SUFFICES ASSUME NEW v \in Worlds, v # w PROVE LoyalAt(v)'
    BY DEF Loyal
  <2>1. LoyalAt(v)
    BY DEF Loyal
  <2> QED
    BY <2>1 DEF LoyalAt, Live, Effects, Shown
<1>4. FlushHolds'
  BY <1>1 DEF FlushHolds
<1>5. SeedsFlushed' /\ SnapshotIsPrefix'
  BY DEF SeedsFlushed, SnapshotIsPrefix, Effects
<1>6. GapHasOneOwner'
  BY <1>1 DEF GapHasOneOwner, Live
<1> QED
  BY <1>2, <1>3, <1>4, <1>5, <1>6
\* The append that wins is the owner's, or nobody's event is missing from
\* state.json; the winner becomes the new owner.
LEMMA AppendStep ==
    ASSUME CommitInv, NEW w \in Worlds, AppendWins(w)
    PROVE  CommitParts'
<1> USE DEF CommitInv, CommitParts
<1>1. /\ token[w] = Len(log) /\ pc[w] = "append" /\ log' = Append(log, call[w])
      /\ pc' = [pc EXCEPT ![w] = "flush"]
      /\ token' = [token EXCEPT ![w] = Len(log) + 1]
      /\ UNCHANGED <<snapshot, mem, call>>
  BY DEF AppendWins, Goto, docs
<1>2. /\ log \in Seq(Exec) /\ pc \in [Worlds -> Stages] /\ token \in [Worlds -> Nat]
      /\ call[w] \in Exec /\ call[w].by = w
  BY <1>1 DEF TypeInv, TypeOK, Calling
<1>3. /\ Len(log) \in Nat /\ Len(log') = Len(log) + 1
      /\ log'[Len(log')] = call[w]
      /\ \A i \in 1..Len(log) : log'[i] = log[i]
      /\ Effects(Len(log))' = Effects(Len(log)) \cup {call[w]}
      /\ \A n \in 0..Len(log) : {log'[i] : i \in 1..n} = Effects(n)
  BY <1>1, <1>2, EffectsAppend
<1>4. mem[w] = Effects(Len(log)) \cup {call[w]}
  BY <1>1 DEF Loyal, LoyalAt, Live
<1>5. SnapshotOffset' = SnapshotOffset /\ SnapshotOffset <= Len(log)
      /\ SnapshotOffset \in Nat
  BY <1>1, <1>3 DEF SnapshotOffset, SnapshotIsPrefix
<1>6. \A v \in Worlds \ {w} : token'[v] = token[v] /\ token[v] <= Len(log)
                             /\ pc'[v] = pc[v] /\ token[v] \in Nat
  BY <1>1, <1>2 DEF TokensInLog
<1>7. token'[w] = Len(log') /\ pc'[w] = "flush"
  BY <1>1, <1>2, <1>3
<1>8. TokensInLog'
  BY <1>3, <1>6, <1>7 DEF TokensInLog
<1>9. Loyal'
  <2>1. LoyalAt(w)'
    BY <1>1, <1>3, <1>4, <1>7 DEF LoyalAt
  <2>2. ASSUME NEW v \in Worlds \ {w} PROVE LoyalAt(v)'
    BY <1>3, <1>6 DEF LoyalAt
  <2> QED
    BY <2>1, <2>2 DEF Loyal
<1>10. FlushHolds'
  <2>1. ASSUME NEW v \in Worlds \ {w}, pc[v] = "flush" PROVE FALSE
    <3>1. token[v] = Len(log) /\ SnapshotOffset < Len(log)
      BY <2>1 DEF FlushHolds
    <3>2. log[Len(log)].by = v /\ log[Len(log)].by = w
      BY <1>1, <2>1, <3>1 DEF GapHasOneOwner, Live
    <3> QED
      BY <2>1, <3>2
  <2> QED
    BY <1>3, <1>5, <1>6, <1>7, <2>1 DEF FlushHolds
<1>11. SeedsFlushed'
  BY <1>1 DEF SeedsFlushed
<1>12. SnapshotIsPrefix'
  <2> SUFFICES ASSUME snapshot # NoDoc
               PROVE  /\ snapshot.last_offset \in 1..Len(log')
                      /\ snapshot.state = {log'[i] : i \in 1..snapshot.last_offset}
    BY <1>1 DEF SnapshotIsPrefix, Effects
  <2>1. /\ snapshot.last_offset \in 1..Len(log)
        /\ snapshot.state = Effects(snapshot.last_offset)
    BY DEF SnapshotIsPrefix
  <2> QED
    BY <1>3, <2>1
<1>13. GapHasOneOwner'
  BY <1>2, <1>3, <1>6, <1>7 DEF GapHasOneOwner
<1> QED
  BY <1>8, <1>9, <1>10, <1>11, <1>12, <1>13

\* The flush closes the gap.
LEMMA FlushStep ==
    ASSUME CommitInv, NEW w \in Worlds, Flush(w)
    PROVE  CommitParts'
<1> USE DEF CommitInv, CommitParts
<1>1. /\ pc[w] = "flush" /\ pc' = [pc EXCEPT ![w] = "summary"]
      /\ snapshot' = [state |-> mem[w], last_offset |-> token[w]]
      /\ UNCHANGED <<log, mem, token, call>>
  BY DEF Flush, Goto, local
<1>2. /\ pc \in [Worlds -> Stages] /\ token \in [Worlds -> Nat]
      /\ mem \in [Worlds -> SUBSET Exec] /\ Len(log) \in Nat
  BY DEF TypeInv, TypeOK
<1>3. token[w] = Len(log) /\ SnapshotOffset < Len(log)
  BY <1>1 DEF FlushHolds
<1>4. SnapshotOffset \in Nat
  BY <1>2 DEF SnapshotOffset, SnapshotIsPrefix
<1>5. mem[w] = Effects(Len(log))
  BY <1>1, <1>3 DEF Loyal, LoyalAt, Live
<1>6. snapshot' # NoDoc
  BY <1>1, <1>2, NoDocApart
<1>7. SnapshotOffset' = Len(log)
  BY <1>1, <1>3, <1>6 DEF SnapshotOffset
<1>8. TokensInLog' /\ SeedsFlushed'
  BY <1>1, <1>6 DEF TokensInLog, SeedsFlushed
<1>9. Loyal'
  <2>1. LoyalAt(w)'
    BY <1>1, <1>2, <1>5 DEF LoyalAt, Effects
  <2>2. ASSUME NEW v \in Worlds \ {w} PROVE LoyalAt(v)'
    <3>1. LoyalAt(v) /\ pc'[v] = pc[v]
      BY <1>1, <1>2 DEF Loyal
    <3> QED
      BY <1>1, <1>6, <3>1 DEF LoyalAt, Live, Effects, Shown
  <2> QED
    BY <2>1, <2>2 DEF Loyal
<1>10. FlushHolds'
  <2>1. ASSUME NEW v \in Worlds \ {w}, pc[v] = "flush" PROVE FALSE
    <3>1. token[v] = Len(log)
      BY <2>1 DEF FlushHolds
    <3>2. log[Len(log)].by = v /\ log[Len(log)].by = w
      BY <1>1, <1>3, <2>1, <3>1 DEF GapHasOneOwner, Live
    <3> QED
      BY <2>1, <3>2
  <2> QED
    BY <1>1, <1>2, <2>1 DEF FlushHolds
<1>11. SnapshotIsPrefix'
  <2>1. Len(log) \in 1..Len(log)
    BY <1>2, <1>3, <1>4
  <2> QED
    BY <1>1, <1>3, <1>5, <2>1 DEF SnapshotIsPrefix, Effects
<1>12. GapHasOneOwner'
  BY <1>1, <1>2, <1>7 DEF GapHasOneOwner
<1> QED
  BY <1>8, <1>9, <1>10, <1>11, <1>12
\* Every step keeps the invariant.
LEMMA CommitStep ==
    ASSUME CanRollBack, CommitInv, [Next]_vars
    PROVE  CommitInv'
<1> USE DEF CommitInv
<1>1. TypeInv'
  BY TypeStep
<1>2. /\ pc \in [Worlds -> Stages] /\ token \in [Worlds -> Nat]
      /\ mem \in [Worlds -> SUBSET Exec] /\ call \in [Worlds -> Exec]
      /\ Len(log) \in Nat
  BY DEF TypeInv, TypeOK
<1>3. \A w \in Worlds : LoyalAt(w) /\ token[w] <= Len(log)
  BY DEF CommitParts, Loyal, TokensInLog
<1>4. \A w \in Worlds : Live(w) /\ token[w] = Len(log) /\ SnapshotOffset < Len(log)
                          => log[Len(log)].by = w
  BY DEF CommitParts, GapHasOneOwner, Live
<1>5. \A w \in Worlds : UNCHANGED log => Effects(Len(log))' = Effects(Len(log))
  BY DEF Effects
<1>6. SnapshotOffset \in Nat
  BY DEF SnapshotOffset, CommitParts, SnapshotIsPrefix
<1>7. CASE UNCHANGED vars
  <2>1. UNCHANGED <<log, snapshot, pc, mem, token, call>>
    BY <1>7 DEF vars, docs, local
  <2>2. TokensInLog' /\ FlushHolds' /\ SeedsFlushed' /\ GapHasOneOwner'
    BY <2>1 DEF CommitParts, TokensInLog, FlushHolds, SeedsFlushed, GapHasOneOwner,
       SnapshotOffset
  <2>3. SnapshotIsPrefix'
    BY <2>1 DEF CommitParts, SnapshotIsPrefix, Effects
  <2>4. Loyal'
    BY <1>3, <2>1 DEF Loyal, LoyalAt, Live, Effects, Shown
  <2> QED
    BY <1>1, <2>2, <2>3, <2>4 DEF CommitParts
<1>8. ASSUME NEW w \in Worlds, New(w) PROVE CommitParts'
  <2>1. UNCHANGED <<log, snapshot, call>> /\ pc' = [pc EXCEPT ![w] = "idle"]
    BY <1>8 DEF New, Goto, docs
  <2>2. CASE snapshot = NoDoc
    <3>1. mem' = [mem EXCEPT ![w] = {}] /\ token' = [token EXCEPT ![w] = 0]
      BY <1>8, <2>2 DEF New
    <3>2. Len(log) = 0 => Effects(Len(log)) = {}
      BY DEF Effects
    <3>3. LoyalAt(w)'
      BY <1>2, <1>5, <2>1, <3>1, <3>2 DEF LoyalAt
    <3> QED
      BY <1>2, <1>6, <2>1, <3>1, <3>3, QuietStep
  <2>3. CASE snapshot # NoDoc
    <3>1. Hydrate(w)
      BY <1>8, <2>3 DEF New
    <3>2. /\ token'[w] = SnapshotOffset /\ token'[w] <= Len(log)
          /\ mem'[w] = Effects(SnapshotOffset)
          /\ \A v \in Worlds \ {w} : mem'[v] = mem[v] /\ token'[v] = token[v]
      BY <2>3, <3>1, HydrateEffect
    <3>3. LoyalAt(w)'
      BY <1>2, <1>5, <2>1, <3>2 DEF LoyalAt
    <3> QED
      BY <1>2, <1>6, <2>1, <3>2, <3>3, QuietStep
  <2> QED
    BY <2>2, <2>3
<1>9. ASSUME NEW w \in Worlds, NEW a \in Actions, Enter(w, a) PROVE CommitParts'
  <2>1. /\ UNCHANGED <<log, snapshot, mem, token>> /\ pc[w] = "idle"
        /\ pc'[w] \in {"catchUp", "body"}
        /\ \A v \in Worlds \ {w} : pc'[v] = pc[v] /\ call'[v] = call[v]
    BY <1>2, <1>9 DEF Enter, docs
  <2>2. LoyalAt(w)'
    BY <1>3, <1>5, <2>1 DEF LoyalAt, Live
  <2> QED
    BY <1>3, <1>4, <2>1, <2>2, QuietStep DEF Live
<1>10. ASSUME NEW w \in Worlds, NEW to \in Stages \ {"append", "discard", "flush", "rollback"},
              pc[w] \in {"catchUp", "rollback", "discard"}, pc' = [pc EXCEPT ![w] = to],
              Hydrate(w), UNCHANGED <<log, snapshot, call>>
       PROVE  CommitParts'
  <2>1. pc'[w] = to /\ \A v \in Worlds \ {w} : pc'[v] = pc[v]
    BY <1>2, <1>10
  <2>2. CASE snapshot = NoDoc
    <3>1. mem' = mem /\ token' = token
      BY <1>10, <2>2, HydrateEffect
    <3>2. LoyalAt(w)'
      BY <1>3, <1>5, <1>10, <2>1, <2>2, <3>1 DEF LoyalAt, Live
    <3> QED
      BY <1>3, <1>4, <1>10, <2>1, <3>1, <3>2, QuietStep DEF Live
  <2>3. CASE snapshot # NoDoc
    <3>1. /\ token'[w] = SnapshotOffset /\ token'[w] <= Len(log)
          /\ mem'[w] = Effects(SnapshotOffset)
          /\ \A v \in Worlds \ {w} : mem'[v] = mem[v] /\ token'[v] = token[v]
      BY <1>10, <2>3, HydrateEffect
    <3>2. LoyalAt(w)'
      BY <1>2, <1>5, <1>10, <2>1, <3>1 DEF LoyalAt
    <3> QED
      BY <1>2, <1>6, <1>10, <2>1, <3>1, <3>2, QuietStep
  <2> QED
    BY <2>2, <2>3
<1>11. ASSUME NEW w \in Worlds, CatchUp(w) PROVE CommitParts'
  BY <1>10, <1>11 DEF CatchUp, Goto, docs, local, Stages
<1>12. ASSUME NEW w \in Worlds, Rollback(w) PROVE CommitParts'
  BY <1>10, <1>12 DEF Rollback, Goto, docs, local, Stages
<1>13. ASSUME NEW w \in Worlds, Discard(w) PROVE CommitParts'
  BY <1>10, <1>13 DEF Discard, Goto, docs, Stages
<1>14. ASSUME NEW w \in Worlds, Body(w) PROVE CommitParts'
  <2>1. /\ UNCHANGED <<log, snapshot, token, call>>
        /\ Shown(call[w].action, mem[w])
        /\ pc[w] = "body" /\ pc' = [pc EXCEPT ![w] = "append"]
        /\ mem' = [mem EXCEPT ![w] = @ \cup {call[w]}]
    BY <1>14 DEF Body, Goto, docs, local
  <2>2. LoyalAt(w)'
    <3>1. token[w] = Len(log) => mem[w] = Effects(Len(log))
      BY <1>3, <2>1 DEF LoyalAt, Live
    <3>2. mem'[w] = mem[w] \cup {call[w]} /\ pc'[w] = "append"
      BY <1>2, <2>1
    <3>3. token[w] = Len(log) => Shown(call[w].action, Effects(Len(log)))'
      BY <2>1, <3>1 DEF Shown, Effects
    <3> QED
      BY <1>5, <2>1, <3>1, <3>2, <3>3 DEF LoyalAt
  <2> QED
    BY <1>2, <1>3, <1>4, <2>1, <2>2, QuietStep DEF Live
<1>15. ASSUME NEW w \in Worlds, BodyRaises(w) PROVE CommitParts'
  <2>1. /\ UNCHANGED <<log, snapshot, token, call>>
        /\ pc[w] = "body" /\ pc' = [pc EXCEPT ![w] = "rollback"]
        /\ \/ mem' = mem
           \/ Torn # {} /\ mem' = [mem EXCEPT ![w] = @ \cup {call[w]}]
    BY <1>15 DEF BodyRaises, Goto, docs
  <2>2. snapshot = NoDoc => mem'[w] = mem[w]
    BY <2>1 DEF CanRollBack, CommitParts, SeedsFlushed
  <2>3. LoyalAt(w)'
    BY <1>2, <1>3, <1>5, <2>1, <2>2 DEF LoyalAt, Live
  <2> QED
    BY <1>2, <1>3, <1>4, <2>1, <2>3, QuietStep DEF Live
<1>16. ASSUME NEW w \in Worlds, AppendLoses(w) PROVE CommitParts'
  <2>1. /\ UNCHANGED <<log, snapshot, mem, token, call>> /\ token[w] # Len(log)
        /\ pc[w] = "append" /\ pc' = [pc EXCEPT ![w] = "discard"]
    BY <1>16 DEF AppendLoses, Goto, docs
  <2>2. LoyalAt(w)'
    BY <2>1 DEF LoyalAt
  <2> QED
    BY <1>2, <1>3, <2>1, <2>2, QuietStep
<1>17. ASSUME NEW w \in Worlds, UNCHANGED <<log, snapshot, mem, token, call>>,
              NEW to \in Stages \ {"append", "discard", "flush", "rollback"},
              pc[w] \notin {"absent", "append", "discard", "rollback"} \/ to = "absent",
              pc' = [pc EXCEPT ![w] = to]
       PROVE  CommitParts'
  <2>1. LoyalAt(w)'
    BY <1>2, <1>3, <1>5, <1>17 DEF LoyalAt, Live
  <2> QED
    BY <1>2, <1>3, <1>4, <1>17, <2>1, QuietStep DEF Live
<1>18. ASSUME NEW w \in Worlds,
              \/ NotAvailable(w) \/ WriteSummary(w) \/ ReadAudit(w) \/ WriteAudit(w)
              \/ ReadActivity(w) \/ WriteActivity(w) \/ WriteFails(w) \/ Crash(w)
       PROVE  CommitParts'
  BY <1>17, <1>18 DEF NotAvailable, WriteSummary, ReadAudit, WriteAudit, ReadActivity,
        WriteActivity, WriteFails, Crash, Goto, docs, local, Stages
<1> QED
  BY <1>1, <1>7, <1>8, <1>9, <1>11, <1>12, <1>13, <1>14, <1>15, <1>16, <1>18,
     AppendStep, FlushStep DEF Next, Step

\* The invariant holds initially.
LEMMA CommitInit == Init => CommitInv
<1> SUFFICES ASSUME Init PROVE CommitInv
  OBVIOUS
<1>1. TypeInv
  BY TypeInit
<1>2. Len(Seeds) \in Nat /\ (Seeds # <<>> => Len(Seeds) \in 1..Len(Seeds))
  BY SeedsType, EmptySeq
<1>3. log = Seeds /\ (snapshot = NoDoc => Seeds = <<>>)
  BY <1>2, NoDocApart, SeedsType DEF Init
<1>4. SnapshotIsPrefix
  BY <1>2, <1>3 DEF Init, SnapshotIsPrefix, Effects
<1>5. \A w \in Worlds : pc[w] = "absent" /\ token[w] = 0
  BY DEF Init
<1>6. TokensInLog /\ Loyal /\ FlushHolds /\ SeedsFlushed /\ GapHasOneOwner
  BY <1>2, <1>3, <1>5 DEF TokensInLog, Loyal, LoyalAt, Live, FlushHolds,
     SeedsFlushed, GapHasOneOwner
<1> QED
  BY <1>1, <1>4, <1>6 DEF CommitInv, CommitParts

\* state.json is at all times the effects of a prefix of the log, through
\* races, crashes and failing writes.
THEOREM SnapshotNeverCorrupt ==
    ASSUME CanRollBack PROVE Spec => []SnapshotIsPrefix
<1>1. CommitInv /\ [Next]_vars => CommitInv'
  BY CommitStep
<1>2. CommitInv => SnapshotIsPrefix
  BY DEF CommitInv, CommitParts
<1> QED
  BY <1>1, <1>2, CommitInit, PTL DEF Spec

\* A log ahead of state.json has one owner.
THEOREM GapOwned ==
    ASSUME CanRollBack PROVE Spec => []GapHasOneOwner
<1>1. CommitInv /\ [Next]_vars => CommitInv'
  BY CommitStep
<1>2. CommitInv => GapHasOneOwner
  BY DEF CommitInv, CommitParts
<1> QED
  BY <1>1, <1>2, CommitInit, PTL DEF Spec

\* No action commits on a stale or half-applied state.
THEOREM NoStaleCommit ==
    ASSUME CanRollBack PROVE Spec => CommitsOnCurrent
<1>1. ASSUME CommitInv, [Next]_vars, log' # log
      PROVE  \E w \in Worlds : /\ log' = Append(log, call[w])
                               /\ mem[w] = Effects(Len(log)) \cup {call[w]}
  <2>1. PICK w \in Worlds : AppendWins(w)
    BY <1>1 DEF Next, Step, vars, New, Enter, CatchUp, NotAvailable, Body,
       BodyRaises, Rollback, AppendLoses, Discard, Flush, WriteSummary, ReadAudit,
       WriteAudit, ReadActivity, WriteActivity, WriteFails, Crash
  <2>2. token[w] = Len(log) /\ pc[w] = "append" /\ log' = Append(log, call[w])
    BY <2>1 DEF AppendWins, Goto
  <2>3. LoyalAt(w)
    BY <1>1 DEF CommitInv, CommitParts, Loyal
  <2> QED
    BY <2>2, <2>3 DEF LoyalAt, Live
<1>2. CommitInv /\ [Next]_vars =>
        [log' # log =>
           \E w \in Worlds : /\ log' = Append(log, call[w])
                             /\ mem[w] = Effects(Len(log)) \cup {call[w]}]_vars
  BY <1>1
<1>3. CommitInv /\ [Next]_vars => CommitInv'
  BY CommitStep
<1> QED
  BY <1>2, <1>3, CommitInit, PTL DEF Spec, CommitsOnCurrent
-----------------------------------------------------------------------------
(* Without faults the project is atomic: World implements AtomicProject.   *)
(* A commit finds everything before it published, because a log ahead of   *)
(* state.json then means that its owner is about to flush, not to append;  *)
(* it is new, because an instance numbers its calls.                       *)

\* What is in the log is behind its instance's count of calls.
Numbered == \A i \in 1..Len(log) : log[i].nth <= done[log[i].by]

\* A gap between log and state.json is being closed.
GapClosing == SnapshotOffset < Len(log) => \E w \in Worlds : pc[w] = "flush"

AtomicInv == CommitInv /\ Numbered /\ GapClosing

\* The two parts hold initially.
LEMMA AtomicInit == Init => AtomicInv
<1> SUFFICES ASSUME Init PROVE AtomicInv
  OBVIOUS
<1>1. CommitInv
  BY CommitInit
<1>2. Len(Seeds) \in Nat /\ \A i \in 1..Len(Seeds) : Seeds[i] \in Exec /\ Seeds[i].nth = 0
  BY SeedsOK, ElementOfSeq
<1>3. Numbered
  <2> SUFFICES ASSUME NEW i \in 1..Len(Seeds) PROVE Seeds[i].nth <= done[Seeds[i].by]
    BY DEF Init, Numbered
  <2>1. Seeds[i].by \in Worlds
    BY <1>2 DEF Exec
  <2> QED
    BY <1>2, <2>1 DEF Init
<1>4. GapClosing
  <2>1. CASE Seeds = <<>>
    BY <2>1 DEF Init, GapClosing, SnapshotOffset
  <2>2. CASE Seeds # <<>>
    <3>1. snapshot = [state |-> {Seeds[i] : i \in 1..Len(Seeds)}, last_offset |-> Len(Seeds)]
      BY <2>2 DEF Init
    <3>2. snapshot # NoDoc
      BY <1>1, <2>2 DEF CommitInv, CommitParts, SeedsFlushed
    <3> QED
      BY <1>2, <3>1, <3>2 DEF Init, GapClosing, SnapshotOffset
  <2> QED
    BY <2>1, <2>2
<1> QED
  BY <1>1, <1>3, <1>4 DEF AtomicInv

\* Every step but a winning append leaves the log as it is.
LEMMA LogSteps ==
    ASSUME [Next]_vars, ~ \E w \in Worlds : AppendWins(w)
    PROVE  log' = log
BY DEF Next, Step, vars, New, Enter, CatchUp, NotAvailable, Body,
   BodyRaises, Rollback, AppendLoses, Discard, Flush, WriteSummary, ReadAudit,
   WriteAudit, ReadActivity, WriteActivity, WriteFails, Crash

\* Every step but a flush leaves state.json as it is.
LEMMA SnapshotSteps ==
    ASSUME [Next]_vars, ~ \E w \in Worlds : Flush(w)
    PROVE  snapshot' = snapshot
BY DEF Next, Step, vars, docs, local, New, Enter, CatchUp, NotAvailable, Body,
   BodyRaises, Rollback, AppendWins, AppendLoses, Discard, WriteSummary, ReadAudit,
   WriteAudit, ReadActivity, WriteActivity, WriteFails, Crash

\* An instance's count of calls only grows.
LEMMA DoneSteps ==
    ASSUME TypeInv, [Next]_vars
    PROVE  \A w \in Worlds : done[w] <= done'[w]
<1>1. done \in [Worlds -> Nat]
  BY Bounds DEF TypeInv, TypeOK
<1>2. \/ done' = done
      \/ \E w \in Worlds : done' = [done EXCEPT ![w] = @ + 1]
  BY DEF Next, Step, vars, docs, local, New, Enter, CatchUp, NotAvailable, Body,
     BodyRaises, Rollback, AppendWins, AppendLoses, Discard, Flush, WriteSummary,
     ReadAudit, WriteAudit, ReadActivity, WriteActivity, WriteFails, Crash
<1> QED
  BY <1>1, <1>2

\* An instance that is flushing stays there until it has flushed, if nothing fails.
LEMMA FlushingStays ==
    ASSUME faults' = 0, TypeInv, [Next]_vars, NEW v \in Worlds, pc[v] = "flush",
           ~ Flush(v)
    PROVE  pc'[v] = "flush"
<1>1. pc \in [Worlds -> Stages] /\ faults \in Nat
  BY Bounds DEF TypeInv, TypeOK
<1>2. \/ pc' = pc
      \/ \E w \in Worlds \ {v} : \E to : pc' = [pc EXCEPT ![w] = to]
  BY <1>1 DEF Next, Step, vars, docs, local, New, Enter, CatchUp, NotAvailable, Body,
     BodyRaises, Rollback, AppendWins, AppendLoses, Discard, Flush, WriteSummary,
     ReadAudit, WriteAudit, ReadActivity, WriteActivity, WriteFails, Crash, Goto
<1> QED
  BY <1>1, <1>2

\* Instances number their calls, also those that fail or are cut off.
LEMMA NumberedStep ==
    ASSUME CommitInv, Numbered, [Next]_vars
    PROVE  Numbered'
<1>2. /\ log \in Seq(Exec) /\ done \in [Worlds -> Nat] /\ done' \in [Worlds -> Nat]
      /\ pc \in [Worlds -> Stages] /\ Len(log) \in Nat
      /\ \A i \in 1..Len(log) : log[i] \in Exec /\ log[i].by \in Worlds
                              /\ log[i].nth \in Nat
  <2>1. \A i \in 1..Len(log) : log[i] \in Exec
    BY ElementOfSeq DEF CommitInv, TypeInv, TypeOK
  <2>2. \A i \in 1..Len(log) : log[i].by \in Worlds /\ log[i].nth \in 0..MaxCalls
    BY <2>1 DEF Exec
  <2>3. done \in [Worlds -> 0..MaxCalls] /\ done' \in [Worlds -> 0..MaxCalls]
    BY TypeStep DEF CommitInv, TypeInv, TypeOK
  <2>4. 0..MaxCalls \subseteq Nat
    BY Bounds
  <2>5. log \in Seq(Exec) /\ pc \in [Worlds -> Stages] /\ Len(log) \in Nat
    BY DEF CommitInv, TypeInv, TypeOK
  <2>6. done \in [Worlds -> Nat] /\ done' \in [Worlds -> Nat]
    BY <2>3, <2>4
  <2> QED
    BY <2>1, <2>2, <2>4, <2>5, <2>6
<1>3. \A w \in Worlds : done[w] <= done'[w]
  BY DoneSteps DEF CommitInv
<1>4. CASE \E w \in Worlds : AppendWins(w)
  <2>1. PICK w \in Worlds : AppendWins(w)
    BY <1>4
  <2>2. /\ pc[w] = "append" /\ log' = Append(log, call[w]) /\ done'[w] = done[w] + 1
    BY <1>2, <2>1 DEF AppendWins, Goto
  <2>3. call[w] \in Exec /\ call[w].by = w /\ call[w].nth = done[w] + 1
    BY <2>2 DEF CommitInv, TypeInv, TypeOK, Calling
  <2>4. /\ Len(log') = Len(log) + 1 /\ log'[Len(log')] = call[w]
        /\ \A i \in 1..Len(log) : log'[i] = log[i]
    BY <1>2, <2>2, <2>3, EffectsAppend
  <2> SUFFICES ASSUME NEW i \in 1..Len(log') PROVE log'[i].nth <= done'[log'[i].by]
    BY DEF Numbered
  <2>5. CASE i = Len(log')
    BY <1>2, <2>2, <2>3, <2>4, <2>5
  <2>6. CASE i \in 1..Len(log)
    <3>1. log[i].nth <= done[log[i].by] /\ done[log[i].by] <= done'[log[i].by]
      BY <1>2, <1>3, <2>6 DEF Numbered
    <3>2. /\ log[i].nth \in Nat /\ done[log[i].by] \in Nat
          /\ done'[log[i].by] \in Nat /\ log'[i] = log[i]
      BY <1>2, <2>4, <2>6
    <3> QED
      BY <3>1, <3>2
  <2> QED
    BY <1>2, <2>4, <2>5, <2>6
<1>5. CASE ~ \E w \in Worlds : AppendWins(w)
  <2>1. log' = log
    BY <1>5, LogSteps
  <2> SUFFICES ASSUME NEW i \in 1..Len(log) PROVE log[i].nth <= done'[log[i].by]
    BY <2>1 DEF Numbered
  <2>2. log[i].nth <= done[log[i].by] /\ done[log[i].by] <= done'[log[i].by]
    BY <1>2, <1>3 DEF Numbered
  <2>3. log[i].nth \in Nat /\ done[log[i].by] \in Nat /\ done'[log[i].by] \in Nat
    BY <1>2
  <2> QED
    BY <2>2, <2>3
<1> QED
  BY <1>4, <1>5

\* Every step keeps the two parts.
LEMMA AtomicStep ==
    ASSUME CanRollBack, MaxFaults = 0, AtomicInv, [Next]_vars
    PROVE  AtomicInv'
<1> USE DEF AtomicInv
<1>1. CommitInv' /\ Numbered'
  BY CommitStep, NumberedStep
<1>2. pc \in [Worlds -> Stages] /\ Len(log) \in Nat
  BY DEF CommitInv, TypeInv, TypeOK
<1>3. CASE \E w \in Worlds : AppendWins(w)
  <2>1. \E w \in Worlds : pc'[w] = "flush"
    BY <1>2, <1>3 DEF AppendWins, Goto
  <2> QED
    BY <1>1, <2>1 DEF GapClosing
<1>4. CASE \E w \in Worlds : Flush(w)
  <2>1. PICK w \in Worlds : Flush(w)
    BY <1>4
  <2>2. /\ token[w] = Len(log) /\ snapshot' = [state |-> mem[w], last_offset |-> token[w]]
        /\ log' = log
    BY <2>1 DEF Flush, Goto, CommitInv, CommitParts, FlushHolds
  <2>3. snapshot' # NoDoc
    <3>1. mem[w] \in SUBSET Exec /\ token[w] \in Nat
      BY DEF CommitInv, TypeInv, TypeOK
    <3> QED
      BY <2>2, <3>1, NoDocApart
  <2>4. SnapshotOffset' = Len(log)
    BY <2>2, <2>3 DEF SnapshotOffset
  <2> QED
    BY <1>1, <1>2, <2>2, <2>4 DEF GapClosing
<1>5. CASE ~ \E w \in Worlds : AppendWins(w) \/ Flush(w)
  <2>1. snapshot' = snapshot /\ log' = log
    BY <1>5, SnapshotSteps, LogSteps
  <2>2. faults' = 0
    BY <1>1 DEF CommitInv, TypeInv, TypeOK
  <2> QED
    BY <1>1, <1>5, <2>1, <2>2, FlushingStays DEF GapClosing, SnapshotOffset, CommitInv
<1> QED
  BY <1>3, <1>4, <1>5

\* Every step is a commit, a publication or nothing to a reader of the project.
LEMMA RefinementStep ==
    ASSUME MaxFaults = 0, AtomicInv, [Next]_vars
    PROVE  [Atomic!Next]_(Atomic!vars)
<1> USE DEF AtomicInv
<1>1. /\ log \in Seq(Exec) /\ Len(log) \in Nat /\ done \in [Worlds -> Nat]
  BY Bounds DEF CommitInv, TypeInv, TypeOK
<1>2. Atomic!Committed = Effects(Len(log))
  BY DEF Atomic!Committed, Effects
<1>3. CASE \E w \in Worlds : AppendWins(w)
  <2>1. PICK w \in Worlds : AppendWins(w)
    BY <1>3
  <2>2. /\ token[w] = Len(log) /\ pc[w] = "append" /\ log' = Append(log, call[w])
        /\ snapshot' = snapshot
    BY <2>1 DEF AppendWins, Goto, docs
  <2>3. call[w] \in Exec /\ call[w].by = w /\ call[w].nth = done[w] + 1
    BY <2>2 DEF CommitInv, TypeInv, TypeOK, Calling
  <2>4. SnapshotOffset = Len(log)
    <3>1. SnapshotOffset \in Nat /\ SnapshotOffset <= Len(log)
      BY <1>1 DEF SnapshotOffset, CommitInv, CommitParts, SnapshotIsPrefix
    <3>2. ASSUME SnapshotOffset < Len(log) PROVE FALSE
      <4>1. PICK v \in Worlds : pc[v] = "flush"
        BY <3>2 DEF GapClosing
      <4>2. token[v] = Len(log)
        BY <4>1 DEF CommitInv, CommitParts, FlushHolds
      <4>3. log[Len(log)].by = v /\ log[Len(log)].by = w
        BY <2>2, <3>2, <4>1, <4>2 DEF CommitInv, CommitParts, GapHasOneOwner
      <4> QED
        BY <2>2, <4>1, <4>3
    <3> QED
      BY <1>1, <3>1, <3>2
  <2>5. Published = Effects(Len(log))
    <3>1. CASE snapshot = NoDoc
      BY <2>4, <3>1 DEF Published, SnapshotOffset, Effects
    <3>2. CASE snapshot # NoDoc
      BY <2>4, <3>2 DEF Published, SnapshotOffset, CommitInv, CommitParts, SnapshotIsPrefix
    <3> QED
      BY <3>1, <3>2
  <2>6. call[w] \notin Effects(Len(log))
    <3> SUFFICES ASSUME NEW i \in 1..Len(log), log[i] = call[w] PROVE FALSE
      BY DEF Effects
    <3>1. done[w] + 1 <= done[w] /\ done[w] \in Nat
      BY <1>1, <2>3 DEF Numbered
    <3> QED
      BY <3>1
  <2>7. Atomic!Allowed(call[w])
    BY <1>2, <2>2 DEF Atomic!Allowed, CommitInv, CommitParts, Loyal, LoyalAt, Live, Shown
  <2>8. Published' = Published
    BY <2>2 DEF Published
  <2>9. Atomic!Commit(call[w])
    BY <1>2, <2>2, <2>5, <2>6, <2>7, <2>8 DEF Atomic!Commit
  <2> QED
    BY <2>3, <2>9 DEF Atomic!Next
<1>4. CASE \E w \in Worlds : Flush(w)
  <2>1. PICK w \in Worlds : Flush(w)
    BY <1>4
  <2>2. /\ pc[w] = "flush" /\ log' = log
        /\ snapshot' = [state |-> mem[w], last_offset |-> token[w]]
    BY <2>1 DEF Flush, Goto
  <2>3. token[w] = Len(log)
    BY <2>2 DEF CommitInv, CommitParts, FlushHolds
  <2>4. mem[w] = Effects(Len(log))
    BY <2>2, <2>3 DEF CommitInv, CommitParts, Loyal, LoyalAt, Live
  <2>5. snapshot' # NoDoc
    <3>1. mem[w] \in SUBSET Exec /\ token[w] \in Nat
      BY DEF CommitInv, TypeInv, TypeOK
    <3> QED
      BY <2>2, <3>1, NoDocApart
  <2>6. Published' = Atomic!Committed
    BY <1>2, <2>2, <2>4, <2>5 DEF Published
  <2> QED
    BY <2>2, <2>6 DEF Atomic!Next, Atomic!Publish
<1>5. CASE /\ ~ \E w \in Worlds : AppendWins(w)
           /\ ~ \E w \in Worlds : Flush(w)
  <2>1. log' = log /\ snapshot' = snapshot
    BY <1>5, LogSteps, SnapshotSteps
  <2> QED
    BY <2>1 DEF Atomic!vars, Published
<1> QED
  BY <1>3, <1>4, <1>5

\* Actions called directly on any number of instances are atomic, serial and
\* published whole, one by one, if nothing fails and bodies can be rolled back.
THEOREM Atomicity ==
    ASSUME CanRollBack, MaxFaults = 0 PROVE Spec => ImplementsAtomicProject
<1>1. Init => Atomic!Init
  <2> SUFFICES ASSUME Init PROVE Atomic!Init
    OBVIOUS
  <2>1. CASE Seeds = <<>>
    BY <2>1 DEF Init, Atomic!Init, Atomic!Committed, Published
  <2>2. CASE Seeds # <<>>
    <3>1. snapshot # NoDoc
      BY <2>2, CommitInit DEF CommitInv, CommitParts, SeedsFlushed
    <3> QED
      BY <2>2, <3>1 DEF Init, Atomic!Init, Atomic!Committed, Published
  <2> QED
    BY <2>1, <2>2
<1>2. AtomicInv /\ [Next]_vars => AtomicInv'
  BY AtomicStep
<1>3. AtomicInv /\ [Next]_vars => [Atomic!Next]_(Atomic!vars)
  BY RefinementStep
<1> QED
  BY <1>1, <1>2, <1>3, AtomicInit, PTL DEF Spec, ImplementsAtomicProject, Atomic!Spec
-----------------------------------------------------------------------------
(* ConcurrentUpdate is raised over the events of others.  What an instance *)
(* committed itself is behind its token, unless it hydrated while its own  *)
(* event was missing from state.json; and then the log is orphaned: nobody *)
(* else can append (GapHasOneOwner), and it has lost the token that could. *)

Seen(w) == \A i \in 1..Len(log) : token[w] < i => log[i].by # w
CutOff(w) == /\ SnapshotOffset < Len(log) /\ log[Len(log)].by = w
             /\ token[w] # Len(log)
OwnSeen == \A w \in Worlds : Live(w) => Seen(w) \/ CutOff(w)

\* What state.json lacks are events of one instance.
GapOfOne == \A i \in 1..Len(log) : SnapshotOffset < i => log[i].by = log[Len(log)].by

\* The token that lost is the one in hand until the mutation is discarded.
BaseIsToken == \A w \in Worlds : pc[w] = "discard" => base[w] = token[w]

\* Before any fault a gap is about to be closed.
ClosingUnlessFault == faults = 0 => GapClosing

OthersParts == OwnSeen /\ GapOfOne /\ BaseIsToken /\ ClosingUnlessFault
OthersInv == CommitInv /\ OthersParts

\* Types and bounds used below.
LEMMA LogTypes ==
    ASSUME CommitInv
    PROVE  /\ log \in Seq(Exec) /\ Len(log) \in Nat
           /\ pc \in [Worlds -> Stages] /\ token \in [Worlds -> Nat]
           /\ base \in [Worlds -> Nat] /\ done \in [Worlds -> Nat]
           /\ \A w \in Worlds : token[w] <= Len(log)
           /\ SnapshotOffset \in Nat /\ SnapshotOffset <= Len(log)
           /\ faults \in Nat
<1>1. Len(log) \in Nat
  BY DEF CommitInv, TypeInv, TypeOK
<1>2. SnapshotOffset \in Nat /\ SnapshotOffset <= Len(log)
  BY <1>1 DEF SnapshotOffset, CommitInv, CommitParts, SnapshotIsPrefix
<1> QED
  BY <1>1, <1>2, Bounds DEF CommitInv, TypeInv, TypeOK, CommitParts, TokensInLog

\* Steps that neither append, flush nor hydrate.
LEMMA OtherSteps ==
    ASSUME TypeInv, [Next]_vars,
           ~ \E w \in Worlds : \/ AppendWins(w) \/ Flush(w) \/ New(w)
                               \/ CatchUp(w) \/ Rollback(w) \/ Discard(w)
    PROVE  /\ UNCHANGED <<log, snapshot, token>>
           /\ \A w \in Worlds : Live(w)' => Live(w)
           /\ \A w \in Worlds : pc'[w] = "discard" =>
                 \/ pc[w] = "discard" /\ base'[w] = base[w]
                 \/ base'[w] = token[w]
<1>1. pc \in [Worlds -> Stages] /\ base \in [Worlds -> Nat]
  BY DEF TypeInv, TypeOK
<1>2. CASE UNCHANGED vars
  BY <1>2 DEF vars, docs, local, Live
<1>3. ASSUME NEW w \in Worlds, NEW a \in Actions, Enter(w, a)
      PROVE  /\ UNCHANGED <<log, snapshot, token, base>> /\ pc[w] # "absent"
             /\ \E to \in Stages \ {"discard"} : pc' = [pc EXCEPT ![w] = to]
  BY <1>3 DEF Enter, docs, Stages
<1>4. ASSUME NEW w \in Worlds,
             \/ NotAvailable(w) \/ Body(w) \/ BodyRaises(w) \/ WriteSummary(w)
             \/ ReadAudit(w) \/ WriteAudit(w) \/ ReadActivity(w) \/ WriteActivity(w)
             \/ WriteFails(w) \/ Crash(w)
      PROVE  /\ UNCHANGED <<log, snapshot, token, base>> /\ pc[w] # "absent"
             /\ \E to \in Stages \ {"discard"} : pc' = [pc EXCEPT ![w] = to]
  BY <1>4 DEF NotAvailable, Body, BodyRaises, WriteSummary, ReadAudit, WriteAudit,
     ReadActivity, WriteActivity, WriteFails, Crash, Goto, docs, local, Stages
<1>5. ASSUME NEW w \in Worlds, AppendLoses(w)
      PROVE  /\ UNCHANGED <<log, snapshot, token>> /\ pc[w] # "absent"
             /\ pc' = [pc EXCEPT ![w] = "discard"] /\ base'[w] = token[w]
             /\ \A v \in Worlds \ {w} : base'[v] = base[v]
  BY <1>1, <1>5 DEF AppendLoses, Goto, docs
<1> QED
  BY <1>1, <1>2, <1>3, <1>4, <1>5 DEF Next, Step, Live

\* A hydrated instance has seen all of its own events, or is cut off.
LEMMA HydrateSeen ==
    ASSUME OthersInv, NEW w \in Worlds, UNCHANGED <<log, snapshot>>,
           token'[w] = SnapshotOffset
    PROVE  (Seen(w) \/ CutOff(w))'
<1>1. Len(log) \in Nat /\ SnapshotOffset \in Nat /\ SnapshotOffset <= Len(log)
      /\ SnapshotOffset' = SnapshotOffset
  BY LogTypes DEF OthersInv, SnapshotOffset
<1>2. CASE SnapshotOffset < Len(log) /\ log[Len(log)].by = w
  BY <1>1, <1>2 DEF CutOff
<1>3. CASE SnapshotOffset < Len(log) /\ log[Len(log)].by # w
  BY <1>1, <1>3 DEF Seen, OthersInv, OthersParts, GapOfOne
<1>4. CASE SnapshotOffset = Len(log)
  BY <1>1, <1>4 DEF Seen
<1> QED
  BY <1>1, <1>2, <1>3, <1>4

\* A step of w that leaves log and state.json alone, and its own events behind
\* its token, keeps the parts.
LEMMA OthersQuiet ==
    ASSUME OthersInv, NEW w \in Worlds, UNCHANGED <<log, snapshot, base>>,
           \A v \in Worlds \ {w} : pc'[v] = pc[v] /\ token'[v] = token[v],
           pc[w] # "flush", pc'[w] # "discard",
           faults' = faults,
           (Seen(w) \/ CutOff(w))'
    PROVE  OthersParts'
<1> USE DEF OthersInv, OthersParts
<1>1. SnapshotOffset' = SnapshotOffset
  BY DEF SnapshotOffset
<1>2. OwnSeen'
  BY <1>1 DEF OwnSeen, Live, Seen, CutOff
<1>3. GapOfOne'
  BY <1>1 DEF GapOfOne
<1>4. BaseIsToken'
  BY DEF BaseIsToken
<1>5. ClosingUnlessFault'
  BY <1>1 DEF ClosingUnlessFault, GapClosing
<1> QED
  BY <1>2, <1>3, <1>4, <1>5

\* The append that wins is the owner's, or there is no gap: nobody is cut off.
LEMMA OthersAppend ==
    ASSUME OthersInv, NEW w \in Worlds, AppendWins(w)
    PROVE  OthersParts'
<1> USE DEF OthersInv, OthersParts
<1>1. /\ log \in Seq(Exec) /\ Len(log) \in Nat /\ pc \in [Worlds -> Stages]
      /\ token \in [Worlds -> Nat] /\ \A v \in Worlds : token[v] <= Len(log)
      /\ SnapshotOffset \in Nat /\ SnapshotOffset <= Len(log)
  BY LogTypes
<1>2. /\ pc[w] = "append" /\ pc' = [pc EXCEPT ![w] = "flush"] /\ snapshot' = snapshot
      /\ token[w] = Len(log) /\ token' = [token EXCEPT ![w] = Len(log) + 1]
      /\ log' = Append(log, call[w]) /\ base' = [base EXCEPT ![w] = token[w]]
  BY DEF AppendWins, Goto, docs
<1>3. call[w] \in Exec /\ call[w].by = w
  BY <1>2 DEF CommitInv, TypeInv, TypeOK, Calling
<1>4. /\ Len(log') = Len(log) + 1 /\ log'[Len(log')] = call[w]
      /\ \A i \in 1..Len(log) : log'[i] = log[i]
  BY <1>1, <1>2, <1>3, EffectsAppend
<1>5. SnapshotOffset < Len(log) => log[Len(log)].by = w
  BY <1>2 DEF CommitInv, CommitParts, GapHasOneOwner
<1>6. SnapshotOffset' = SnapshotOffset
  BY <1>2 DEF SnapshotOffset
<1>7. OwnSeen'
  <2> SUFFICES ASSUME NEW v \in Worlds, Live(v)'
               PROVE  Seen(v)'
    BY DEF OwnSeen
  <2>1. CASE v = w
    <3>1. token'[v] = Len(log')
      BY <1>1, <1>2, <1>4, <2>1
    <3> QED
      BY <1>1, <1>4, <3>1 DEF Seen
  <2>2. CASE v # w
    <3>1. token'[v] = token[v] /\ Live(v)
      BY <1>1, <1>2, <2>2 DEF Live
    <3>2. ~CutOff(v)
      BY <1>5, <2>2 DEF CutOff
    <3>3. Seen(v)
      BY <3>1, <3>2 DEF OwnSeen
    <3>4. \A i \in 1..Len(log') : i \in 1..Len(log) \/ (i = Len(log') /\ log'[i].by = w)
      BY <1>1, <1>3, <1>4
    <3> QED
      BY <1>4, <2>2, <3>1, <3>3, <3>4 DEF Seen
  <2> QED
    BY <2>1, <2>2
<1>8. GapOfOne'
  <2> SUFFICES ASSUME NEW i \in 1..Len(log'), SnapshotOffset < i
               PROVE  log'[i].by = w
    BY <1>3, <1>4, <1>6 DEF GapOfOne
  <2>1. CASE i = Len(log')
    BY <1>3, <1>4, <2>1
  <2>2. CASE i \in 1..Len(log)
    <3>1. SnapshotOffset < Len(log)
      BY <1>1, <2>2
    <3> QED
      BY <1>4, <1>5, <2>2, <3>1 DEF GapOfOne
  <2> QED
    BY <1>1, <1>4, <2>1, <2>2
<1>9. BaseIsToken'
  <2>1. base \in [Worlds -> Nat]
    BY LogTypes
  <2> QED
    BY <1>1, <1>2, <2>1 DEF BaseIsToken
<1>10. ClosingUnlessFault'
  BY <1>1, <1>2 DEF ClosingUnlessFault, GapClosing
<1> QED
  BY <1>7, <1>8, <1>9, <1>10

\* The flush leaves no gap.
LEMMA OthersFlush ==
    ASSUME OthersInv, NEW w \in Worlds, Flush(w)
    PROVE  OthersParts'
<1> USE DEF OthersInv, OthersParts
<1>1. /\ log \in Seq(Exec) /\ Len(log) \in Nat /\ pc \in [Worlds -> Stages]
      /\ token \in [Worlds -> Nat] /\ \A v \in Worlds : token[v] <= Len(log)
  BY LogTypes
<1>2. /\ pc[w] = "flush" /\ pc' = [pc EXCEPT ![w] = "summary"]
      /\ snapshot' = [state |-> mem[w], last_offset |-> token[w]]
      /\ UNCHANGED <<log, token, base>>
  BY DEF Flush, Goto, local
<1>3. token[w] = Len(log) /\ SnapshotOffset < Len(log)
  BY <1>2 DEF CommitInv, CommitParts, FlushHolds
<1>4. log[Len(log)].by = w
  BY <1>2, <1>3 DEF CommitInv, CommitParts, GapHasOneOwner
<1>5. snapshot' # NoDoc
  <2>1. mem[w] \in SUBSET Exec /\ token[w] \in Nat
    BY DEF CommitInv, TypeInv, TypeOK
  <2> QED
    BY <1>2, <2>1, NoDocApart
<1>6. SnapshotOffset' = Len(log)
  BY <1>2, <1>3, <1>5 DEF SnapshotOffset
<1>7. OwnSeen'
  <2> SUFFICES ASSUME NEW v \in Worlds, Live(v)' PROVE Seen(v)'
    BY DEF OwnSeen
  <2>1. Live(v)
    BY <1>1, <1>2 DEF Live
  <2>2. ~CutOff(v)
    BY <1>3, <1>4 DEF CutOff
  <2> QED
    BY <1>2, <2>1, <2>2 DEF OwnSeen, Seen
<1>8. GapOfOne' /\ ClosingUnlessFault'
  BY <1>1, <1>2, <1>6 DEF GapOfOne, ClosingUnlessFault, GapClosing
<1>9. BaseIsToken'
  BY <1>1, <1>2 DEF BaseIsToken
<1> QED
  BY <1>7, <1>8, <1>9

\* Every step keeps the invariant.
LEMMA OthersStep ==
    ASSUME CanRollBack, OthersInv, [Next]_vars
    PROVE  OthersInv'
<1> USE DEF OthersInv, OthersParts
<1>1. CommitInv'
  BY CommitStep
<1>2. /\ Len(log) \in Nat /\ pc \in [Worlds -> Stages]
      /\ token \in [Worlds -> Nat] /\ \A v \in Worlds : token[v] <= Len(log)
  BY LogTypes
<1>3. ASSUME NEW w \in Worlds, New(w) PROVE OthersParts'
  <2>1. /\ UNCHANGED <<log, snapshot, base, faults>> /\ pc[w] = "absent"
        /\ pc' = [pc EXCEPT ![w] = "idle"]
    BY <1>3 DEF New, Goto, docs
  <2>2. token'[w] = SnapshotOffset /\ \A v \in Worlds \ {w} : token'[v] = token[v]
    BY <1>2, <1>3 DEF New, Hydrate, SnapshotOffset
  <2>3. (Seen(w) \/ CutOff(w))'
    BY <2>1, <2>2, HydrateSeen
  <2> QED
    BY <1>2, <2>1, <2>2, <2>3, OthersQuiet
<1>4. ASSUME NEW w \in Worlds, CatchUp(w) \/ Rollback(w) \/ Discard(w)
      PROVE  OthersParts'
  <2>1. /\ UNCHANGED <<log, snapshot, base, faults>> /\ Hydrate(w)
        /\ pc[w] \in {"catchUp", "rollback", "discard"}
        /\ \E to \in {"body", "readAudit", "idle"} : pc' = [pc EXCEPT ![w] = to]
    BY <1>4 DEF CatchUp, Rollback, Discard, Goto, docs, local
  <2>2. \A v \in Worlds \ {w} : token'[v] = token[v]
    BY <1>2, <2>1 DEF Hydrate
  <2>3. (Seen(w) \/ CutOff(w))'
    <3>1. CASE snapshot = NoDoc
      <4>1. token' = token /\ SnapshotOffset' = SnapshotOffset
        BY <2>1, <3>1 DEF Hydrate, SnapshotOffset
      <4>2. Live(w)
        BY <2>1 DEF Live
      <4> QED
        BY <2>1, <4>1, <4>2 DEF OwnSeen, Seen, CutOff
    <3>2. CASE snapshot # NoDoc
      <4>1. token'[w] = SnapshotOffset
        BY <1>2, <2>1, <3>2 DEF Hydrate, SnapshotOffset
      <4> QED
        BY <2>1, <4>1, HydrateSeen
    <3> QED
      BY <3>1, <3>2
  <2> QED
    BY <1>2, <2>1, <2>2, <2>3, OthersQuiet
<1>5. CASE ~ \E w \in Worlds : \/ AppendWins(w) \/ Flush(w) \/ New(w)
                               \/ CatchUp(w) \/ Rollback(w) \/ Discard(w)
  <2>1. /\ UNCHANGED <<log, snapshot, token>>
        /\ \A w \in Worlds : Live(w)' => Live(w)
        /\ \A w \in Worlds : pc'[w] = "discard" =>
              \/ pc[w] = "discard" /\ base'[w] = base[w]
              \/ base'[w] = token[w]
    BY <1>5, OtherSteps DEF CommitInv
  <2>2. SnapshotOffset' = SnapshotOffset
    BY <2>1 DEF SnapshotOffset
  <2>3. OwnSeen'
    BY <2>1, <2>2 DEF OwnSeen, Seen, CutOff
  <2>4. GapOfOne'
    BY <2>1, <2>2 DEF GapOfOne
  <2>5. BaseIsToken'
    BY <2>1 DEF BaseIsToken
  <2>6. ClosingUnlessFault'
    <3> SUFFICES ASSUME faults' = 0 PROVE GapClosing'
      BY DEF ClosingUnlessFault
    <3>1. faults = 0
      <4>1. faults \in Nat /\ (faults' = faults \/ faults' = faults + 1)
        BY LogTypes DEF Next, Step, vars, docs, local, New, Enter, CatchUp, NotAvailable,
           Body, BodyRaises, Rollback, AppendWins, AppendLoses, Discard, Flush,
           WriteSummary, ReadAudit, WriteAudit, ReadActivity, WriteActivity, WriteFails,
           Crash
      <4> QED
        BY <4>1
    <3>2. \A v \in Worlds : pc[v] = "flush" => pc'[v] = "flush"
      BY <1>5, FlushingStays DEF CommitInv
    <3> QED
      BY <2>1, <2>2, <3>1, <3>2 DEF ClosingUnlessFault, GapClosing
  <2> QED
    BY <1>1, <2>3, <2>4, <2>5, <2>6
<1> QED
  BY <1>1, <1>3, <1>4, <1>5, OthersAppend, OthersFlush

\* At the start nothing is missing, and nobody has committed.
LEMMA OthersInit == Init => OthersInv
<1> SUFFICES ASSUME Init PROVE OthersInv
  OBVIOUS
<1>1. CommitInv /\ GapClosing
  BY AtomicInit DEF AtomicInv
<1>2. SnapshotOffset = Len(log)
  <2>1. SnapshotOffset \in Nat /\ SnapshotOffset <= Len(log) /\ Len(log) \in Nat
    BY <1>1, LogTypes
  <2>2. ~ \E w \in Worlds : pc[w] = "flush"
    BY DEF Init
  <2> QED
    BY <1>1, <2>1, <2>2 DEF GapClosing
<1>3. OwnSeen /\ BaseIsToken
  BY DEF Init, OwnSeen, Live, BaseIsToken
<1>4. GapOfOne
  <2>1. Len(log) \in Nat
    BY <1>1, LogTypes
  <2> QED
    BY <1>2, <2>1 DEF GapOfOne
<1> QED
  BY <1>1, <1>3, <1>4 DEF OthersInv, OthersParts, ClosingUnlessFault

\* ConcurrentUpdate always names at least one event, and only those of other
\* instances, unless a fault orphaned the log.
THEOREM ConflictsOfOthers ==
    ASSUME CanRollBack PROVE Spec => []ConflictsAreOthers
<1>1. Init => OthersInv
  BY OthersInit
<1>2. OthersInv /\ [Next]_vars => OthersInv'
  BY OthersStep
<1>3. OthersInv => ConflictsAreOthers
  <2> SUFFICES ASSUME OthersInv, NEW w \in Worlds, pc[w] = "discard"
               PROVE  /\ base[w] < Len(log)
                      /\ Orphaned \/ \A i \in base[w] + 1..Len(log) : log[i].by # w
    BY DEF ConflictsAreOthers
  <2>1. /\ base[w] = token[w] /\ token[w] \in Nat /\ Len(log) \in Nat
        /\ token[w] <= Len(log) /\ SnapshotOffset \in Nat /\ faults \in Nat
    BY LogTypes DEF OthersInv, OthersParts, BaseIsToken
  <2>2. token[w] # Len(log)
    BY DEF OthersInv, CommitInv, CommitParts, Loyal, LoyalAt, Live
  <2>3. CASE Seen(w)
    BY <2>1, <2>2, <2>3 DEF Seen
  <2>4. CASE CutOff(w)
    <3>1. \A v \in Worlds : pc[v] # "flush"
      <4> SUFFICES ASSUME NEW v \in Worlds, pc[v] = "flush" PROVE FALSE
        OBVIOUS
      <4>1. token[v] = Len(log)
        BY DEF OthersInv, CommitInv, CommitParts, FlushHolds
      <4>2. log[Len(log)].by = v
        BY <2>4, <4>1 DEF OthersInv, CommitInv, CommitParts, GapHasOneOwner, CutOff
      <4> QED
        BY <2>4, <4>1, <4>2 DEF CutOff
    <3>2. faults > 0
      BY <2>1, <2>4, <3>1 DEF OthersInv, OthersParts, ClosingUnlessFault, GapClosing, CutOff
    <3> QED
      BY <2>1, <2>2, <2>4, <3>1, <3>2 DEF Orphaned, CutOff
  <2> QED
    BY <2>3, <2>4 DEF OthersInv, OthersParts, OwnSeen, Live
<1> QED
  BY <1>1, <1>2, <1>3, PTL DEF Spec
-----------------------------------------------------------------------------
(* With faults the project still keeps the promise of DurableProject: what *)
(* state.json lacks is of one instance (GapOfOne), which alone can commit  *)
(* (GapHasOneOwner), on the effect of the whole log (Loyal).               *)

SerialInv == OthersInv /\ Numbered

\* What state.json lacks lies in the log above the snapshot's offset.
LEMMA UnpublishedAbove ==
    ASSUME SerialInv
    PROVE  /\ Durable!Committed = Effects(Len(log))
           /\ \A f \in Durable!Unpublished :
                 \E i \in 1..Len(log) : SnapshotOffset < i /\ log[i] = f
<1> USE DEF SerialInv, OthersInv
<1>1. /\ log \in Seq(Exec) /\ Len(log) \in Nat
      /\ SnapshotOffset \in Nat /\ SnapshotOffset <= Len(log)
  BY LogTypes
<1>2. \A i \in 1..Len(log) : log[i] \in Exec
  BY <1>1, ElementOfSeq
<1>3. \A e \in Effects(Len(log)) : e.action \in Actions
  BY <1>2 DEF Effects, Exec
<1>4. Durable!Committed = Effects(Len(log))
  BY <1>3 DEF Durable!Committed, Durable!CommittedBy, Effects
<1>5. Published = Effects(SnapshotOffset)
  BY <1>1 DEF CommitInv, CommitParts, SnapshotIsPrefix, Published, SnapshotOffset, Effects
<1>6. ASSUME NEW f \in Effects(Len(log)) \ Published
      PROVE  \E i \in 1..Len(log) : SnapshotOffset < i /\ log[i] = f
  <2>1. PICK i \in 1..Len(log) : log[i] = f
    BY <1>6 DEF Effects
  <2>2. i \notin 1..SnapshotOffset
    BY <1>5, <1>6, <2>1 DEF Effects
  <2>3. SnapshotOffset < i
    BY <1>1, <2>2
  <2> QED
    BY <2>1, <2>3
<1> QED
  BY <1>4, <1>6 DEF Durable!Unpublished

\* Every step is a commit by who may, a publication of everything, or nothing.
LEMMA DurableRefinement ==
    ASSUME SerialInv, [Next]_vars
    PROVE  [Durable!Next]_(Durable!vars)
<1> USE DEF SerialInv, OthersInv
<1>1. /\ log \in Seq(Exec) /\ Len(log) \in Nat /\ done \in [Worlds -> Nat]
      /\ Durable!Committed = Effects(Len(log))
  BY LogTypes, UnpublishedAbove
<1>2. CASE \E w \in Worlds : AppendWins(w)
  <2>1. PICK w \in Worlds : AppendWins(w)
    BY <1>2
  <2>2. /\ token[w] = Len(log) /\ pc[w] = "append" /\ log' = Append(log, call[w])
        /\ snapshot' = snapshot
    BY <2>1 DEF AppendWins, Goto, docs
  <2>3. call[w] \in Exec /\ call[w].by = w /\ call[w].nth = done[w] + 1
    BY <2>2 DEF CommitInv, TypeInv, TypeOK, Calling
  <2>4. ASSUME NEW f \in Durable!Unpublished PROVE f.by = call[w].by
    <3>1. PICK i \in 1..Len(log) : SnapshotOffset < i /\ log[i] = f
      BY UnpublishedAbove
    <3>2. f.by = log[Len(log)].by
      BY <3>1 DEF OthersParts, GapOfOne
    <3>3. SnapshotOffset < Len(log)
      BY <1>1, <3>1, LogTypes
    <3>4. log[Len(log)].by = w
      BY <2>2, <3>3 DEF CommitInv, CommitParts, GapHasOneOwner
    <3> QED
      BY <2>3, <3>2, <3>4
  <2>5. call[w] \notin Effects(Len(log))
    <3> SUFFICES ASSUME NEW i \in 1..Len(log), log[i] = call[w] PROVE FALSE
      BY DEF Effects
    <3>1. done[w] + 1 <= done[w] /\ done[w] \in Nat
      BY <1>1, <2>3 DEF Numbered
    <3> QED
      BY <3>1
  <2>6. Durable!Allowed(call[w])
    BY <1>1, <2>2 DEF Durable!Allowed, CommitInv, CommitParts, Loyal, LoyalAt, Live, Shown
  <2>7. call[w].action \in Actions
    BY <2>3 DEF Exec
  <2>8. Durable!Commit(call[w])
    BY <1>1, <2>2, <2>4, <2>5, <2>6, <2>7 DEF Durable!Commit, Published
  <2> QED
    BY <2>3, <2>8 DEF Durable!Next, Durable!Promised
<1>3. CASE \E w \in Worlds : Flush(w)
  <2>1. PICK w \in Worlds : Flush(w)
    BY <1>3
  <2>2. /\ pc[w] = "flush" /\ log' = log
        /\ snapshot' = [state |-> mem[w], last_offset |-> token[w]]
    BY <2>1 DEF Flush, Goto
  <2>3. token[w] = Len(log)
    BY <2>2 DEF CommitInv, CommitParts, FlushHolds
  <2>4. mem[w] = Effects(Len(log))
    BY <2>2, <2>3 DEF CommitInv, CommitParts, Loyal, LoyalAt, Live
  <2>5. snapshot' # NoDoc
    <3>1. mem[w] \in SUBSET Exec /\ token[w] \in Nat
      BY DEF CommitInv, TypeInv, TypeOK
    <3> QED
      BY <2>2, <3>1, NoDocApart
  <2>6. Published' = Durable!Committed
    BY <1>1, <2>2, <2>4, <2>5 DEF Published
  <2> QED
    BY <2>2, <2>6 DEF Durable!Next, Durable!Promised, Durable!Publish
<1>4. CASE ~ \E w \in Worlds : AppendWins(w) \/ Flush(w)
  <2>1. log' = log /\ snapshot' = snapshot
    BY <1>4, LogSteps, SnapshotSteps
  <2> QED
    BY <2>1 DEF Durable!vars, Published
<1> QED
  BY <1>2, <1>3, <1>4

\* A project starts with actions only.
LEMMA SeedActions == \A i \in 1..Len(Seeds) : Seeds[i].action \in Actions
<1>1. \A i \in 1..Len(Seeds) : Seeds[i] \in Exec
  BY SeedsOK, ElementOfSeq
<1> QED
  BY <1>1 DEF Exec

\* Whatever crashes or fails to be written, actions commit serially, each on
\* all that was committed before it, and no two instances' commits are missing
\* from state.json at once.
THEOREM Durability ==
    ASSUME CanRollBack PROVE Spec => ImplementsDurableProject
<1>1. Init => Durable!Init
  <2> SUFFICES ASSUME Init PROVE Durable!Init
    OBVIOUS
  <2>1. OthersInv /\ log = Seeds /\ \A i \in 1..Len(Seeds) : Seeds[i].action \in Actions
    BY OthersInit, SeedActions DEF Init
  <2>2. Durable!Committed = {Seeds[i] : i \in 1..Len(Seeds)}
    BY <2>1 DEF Durable!Committed, Durable!CommittedBy
  <2>3. CASE Seeds = <<>>
    BY <2>1, <2>2, <2>3 DEF Init, Durable!Init, Published
  <2>4. CASE Seeds # <<>>
    <3>1. snapshot # NoDoc
      BY <2>1, <2>4 DEF OthersInv, CommitInv, CommitParts, SeedsFlushed
    <3> QED
      BY <2>1, <2>2, <2>4, <3>1 DEF Init, Durable!Init, Published
  <2> QED
    BY <2>3, <2>4
<1>2. Init => SerialInv
  BY OthersInit, AtomicInit DEF SerialInv, AtomicInv
<1>3. SerialInv /\ [Next]_vars => SerialInv'
  BY OthersStep, NumberedStep DEF SerialInv, OthersInv
<1>4. SerialInv /\ [Next]_vars => [Durable!Next]_(Durable!vars)
  BY DurableRefinement
<1> QED
  BY <1>1, <1>2, <1>3, <1>4, PTL DEF Spec, ImplementsDurableProject, Durable!Spec

\* The theorems about DurableProject, read for the project.
Assured == INSTANCE DurableProofs
           WITH history <- log, published <- Published, forced <- FALSE

\* An action that is allowed once is committed once, whatever happens.
THEOREM OnceIsOnce ==
    ASSUME CanRollBack PROVE Spec => []OnceOnly
<1>1. Assured!SeedsAllowed
  BY SeedsOK, ActionSets, SeedActions DEF Assured!SeedsAllowed
<1>2. Assured!Spec => [](Assured!OnlyOnce /\ Assured!PublishedIsPast /\ Assured!OneAuthor)
  BY <1>1, Assured!PromiseKept
<1>3. Durable!Init => Assured!Init
  BY DEF Durable!Init, Assured!Init, Durable!Committed, Assured!Committed,
     Durable!CommittedBy, Assured!CommittedBy
<1>4. [Durable!Next]_(Durable!vars) => [Assured!Next]_(Assured!vars)
  BY DEF Durable!Next, Durable!vars, Durable!Promised, Durable!Note, Durable!Publish,
     Durable!Commit, Durable!Allowed, Durable!Unpublished, Durable!Committed,
     Durable!CommittedBy, Assured!Next, Assured!vars, Assured!Promised, Assured!Note,
     Assured!Publish, Assured!Commit, Assured!Allowed, Assured!Unpublished,
     Assured!Committed, Assured!CommittedBy
<1>5. Assured!OnlyOnce => OnceOnly
  BY DEF Assured!OnlyOnce, OnceOnly
<1> QED
  BY <1>2, <1>3, <1>4, <1>5, Durability, PTL
     DEF ImplementsDurableProject, Durable!Spec, Assured!Spec
-----------------------------------------------------------------------------
(* summary.md is written from memory after state.json, and other flushes   *)
(* can come between: what is rendered is then old, but was the state once. *)

IsPast(state) == \E n \in 0..Len(log) : state = Effects(n)
SummaryInv ==
    CommitInv /\ SummaryIsPrefix /\ \A w \in Worlds : pc[w] = "summary" => IsPast(mem[w])

\* What the log once amounted to, it once amounted to for ever.
LEMMA PastStays ==
    ASSUME CommitInv, [Next]_vars, NEW state, IsPast(state) PROVE IsPast(state)'
<1>1. log \in Seq(Exec) /\ Len(log) \in Nat
  BY LogTypes
<1>2. CASE \E w \in Worlds : AppendWins(w)
  <2>1. PICK w \in Worlds : AppendWins(w)
    BY <1>2
  <2>2. log' = Append(log, call[w]) /\ call[w] \in Exec
    BY <2>1 DEF AppendWins, CommitInv, TypeInv, TypeOK
  <2>3. /\ Len(log') = Len(log) + 1
        /\ \A n \in 0..Len(log) : {log'[i] : i \in 1..n} = Effects(n)
    BY <1>1, <2>2, EffectsAppend
  <2>4. PICK n \in 0..Len(log) : state = Effects(n)
    BY DEF IsPast
  <2>5. n \in 0..Len(log') /\ state = {log'[i] : i \in 1..n}
    BY <1>1, <2>3, <2>4
  <2> QED
    BY <2>5 DEF IsPast, Effects
<1>3. CASE ~ \E w \in Worlds : AppendWins(w)
  BY <1>3, LogSteps DEF IsPast, Effects
<1> QED
  BY <1>2, <1>3

\* Whoever goes on to the summary has just published the whole log's effect.
LEMMA SummaryStep ==
    ASSUME CanRollBack, SummaryInv, [Next]_vars PROVE SummaryInv'
<1> USE DEF SummaryInv
<1>1. CommitInv' /\ pc \in [Worlds -> Stages] /\ Len(log) \in Nat
  BY CommitStep, LogTypes
<1>2. ASSUME NEW w \in Worlds, pc'[w] = "summary" PROVE IsPast(mem[w])' 
  <2>1. \/ pc[w] = "summary" /\ mem'[w] = mem[w]
        \/ Flush(w)
    <3>1. pc \in [Worlds -> Stages] /\ mem \in [Worlds -> SUBSET Exec]
      BY DEF CommitInv, TypeInv, TypeOK
    <3>2. CASE UNCHANGED vars
      BY <1>2, <3>2 DEF vars
    <3>3. ASSUME NEW v \in Worlds, v # w,
                 New(v) \/ Step(v) \/ WriteFails(v) \/ Crash(v)
                   \/ \E a \in Actions : Enter(v, a)
          PROVE  pc'[w] = pc[w] /\ mem'[w] = mem[w]
      <4>1. CASE New(v) \/ WriteFails(v) \/ Crash(v) \/ \E a \in Actions : Enter(v, a)
        BY <3>1, <3>3, <4>1 DEF New, WriteFails, Crash, Enter, Hydrate, Goto
      <4>2. CASE CatchUp(v) \/ NotAvailable(v) \/ Body(v) \/ BodyRaises(v) \/ Rollback(v)
                   \/ Discard(v)
        BY <3>1, <3>3, <4>2 DEF CatchUp, NotAvailable, Body, BodyRaises, Rollback, Discard,
           Hydrate, Goto
      <4>3. CASE AppendWins(v) \/ AppendLoses(v) \/ Flush(v) \/ WriteSummary(v)
                   \/ ReadAudit(v) \/ WriteAudit(v) \/ ReadActivity(v) \/ WriteActivity(v)
        BY <3>1, <3>3, <4>3 DEF AppendWins, AppendLoses, Flush, WriteSummary, ReadAudit,
           WriteAudit, ReadActivity, WriteActivity, Goto
      <4> QED
        BY <3>3, <4>1, <4>2, <4>3 DEF Step
    <3>4. CASE New(w) \/ Step(w) \/ WriteFails(w) \/ Crash(w) \/ \E a \in Actions : Enter(w, a)
      BY <1>2, <3>1, <3>4 DEF Step, New, WriteFails, Crash, Enter, CatchUp, NotAvailable, Body,
         BodyRaises, Rollback, Discard, AppendWins, AppendLoses, Flush, WriteSummary, ReadAudit,
         WriteAudit, ReadActivity, WriteActivity, Goto
    <3> QED
      BY <1>2, <3>2, <3>3, <3>4 DEF Next
  <2>2. CASE pc[w] = "summary" /\ mem'[w] = mem[w]
    <3>1. ASSUME NEW m, m = mem[w] PROVE IsPast(m)'
      BY <2>2, <3>1, PastStays
    <3> QED
      BY <2>2, <3>1 DEF IsPast
  <2>3. CASE Flush(w)
    <3>1. /\ pc[w] = "flush" /\ UNCHANGED <<log, mem>>
      BY <2>3 DEF Flush, Goto
    <3>2. mem[w] = Effects(Len(log))
      BY <3>1 DEF CommitInv, CommitParts, FlushHolds, Loyal, LoyalAt, Live
    <3> QED
      BY <1>1, <3>1, <3>2 DEF IsPast, Effects
  <2> QED
    BY <2>1, <2>2, <2>3
<1>3. SummaryIsPrefix'
  <2>1. summary' = summary \/ \E w \in Worlds : pc[w] = "summary" /\ summary' = mem[w]
    BY DEF Next, Step, vars, docs, local, New, Enter, CatchUp, NotAvailable, Body,
       BodyRaises, Rollback, AppendWins, AppendLoses, Discard, Flush, WriteSummary,
       ReadAudit, WriteAudit, ReadActivity, WriteActivity, WriteFails, Crash, Goto
  <2>2. IsPast(summary) /\ \A w \in Worlds : pc[w] = "summary" => IsPast(mem[w])
    BY DEF SummaryIsPrefix, IsPast
  <2>3. ASSUME NEW state, IsPast(state), summary' = state PROVE SummaryIsPrefix'
    BY <2>3, PastStays DEF SummaryIsPrefix, IsPast
  <2> QED
    BY <2>1, <2>2, <2>3
<1> QED
  BY <1>1, <1>2, <1>3

\* The summary that prompts take over in full is of a state the project was in.
THEOREM SummaryOfThePast ==
    ASSUME CanRollBack PROVE Spec => []SummaryIsPrefix
<1>1. Init => SummaryInv
  <2> SUFFICES ASSUME Init PROVE SummaryInv
    OBVIOUS
  <2>1. CommitInv /\ Len(log) \in Nat
    BY CommitInit, LogTypes
  <2>2. summary = Effects(Len(log)) /\ \A w \in Worlds : pc[w] # "summary"
    BY DEF Init, Effects
  <2> QED
    BY <2>1, <2>2 DEF SummaryInv, SummaryIsPrefix
<1>2. SummaryInv /\ [Next]_vars => SummaryInv'
  BY SummaryStep
<1> QED
  BY <1>1, <1>2, PTL DEF Spec, SummaryInv

-----------------------------------------------------------------------------
(* audit.jsonl and event_log.md never lie.  A line is written about a call *)
(* that is decided, and a decided call is never taken up again: the next   *)
(* one is numbered higher.  So whatever is read, held in a buffer and      *)
(* written back over other writers' lines, stays true of the log and free  *)
(* of the call that is still to write its line.                            *)

DecidedStages == {"rollback", "flush", "summary", "readAudit", "writeAudit",
                  "readActivity", "writeActivity"}
AuditStages == DecidedStages \ {"readActivity", "writeActivity"}

\* Calls whose line in audit.jsonl, and in event_log.md, is still to come.
AuditPending == {call[w] : w \in {v \in Worlds : pc[v] \in AuditStages}}
ActivityPending == {call[w] : w \in {v \in Worlds : pc[v] \in DecidedStages}}

In(e, l) == \E k \in 1..Len(l) : l[k] = e

\* A decided call knows how it ended, and if it committed, where.
DecidedCalls ==
    \A w \in Worlds : pc[w] \in DecidedStages =>
        /\ call[w].by = w /\ call[w].nth = done[w]
        /\ outcome[w] = "ok" <=> In(call[w], log)
        /\ outcome[w] = "ok" => token[w] \in 1..Len(log) /\ log[token[w]] = call[w]
        /\ pc[w] = "rollback" => outcome[w] = "error"

\* Text T of a document is true of log l: a line is OK if and only if it is of
\* an execution in l, no execution has two, all are of decided calls, and none
\* is of a call in P.
Good(T, P, l, d) ==
    /\ \A i \in 1..Len(T) : T[i].ok <=> In(T[i].exec, l)
    /\ \A i, j \in 1..Len(T) : T[i].exec = T[j].exec => i = j
    /\ \A i \in 1..Len(T) : /\ T[i].exec \in Exec /\ T[i].exec \notin P
                            /\ T[i].exec.nth <= d[T[i].exec.by]

\* The OK lines of T name the place of their execution in l.
Placed(T, l) ==
    \A i \in 1..Len(T) : T[i].ok => /\ T[i].offset \in 1..Len(l)
                                    /\ l[T[i].offset] = T[i].exec

HonestTexts ==
    /\ Good(audit, AuditPending, log, done) /\ Placed(audit, log)
    /\ \A w \in Worlds : pc[w] = "writeAudit" =>
          Good(buf[w], AuditPending, log, done) /\ Placed(buf[w], log)
    /\ Good(activity, ActivityPending, log, done)
    /\ \A w \in Worlds : pc[w] = "writeActivity" =>
          Good(buf[w], ActivityPending, log, done)
HonestInv == TypeInv /\ Numbered /\ DecidedCalls /\ HonestTexts

\* The types of documents and buffers, and of what a line is made of.
TextTypes ==
    /\ audit \in Seq(AuditEntry) /\ activity \in Seq(LogEntry)
    /\ buf \in [Worlds -> Seq(AuditEntry) \cup Seq(LogEntry)] /\ Buffered
LineTypes ==
    /\ pc \in [Worlds -> Stages] /\ call \in [Worlds -> Exec]
    /\ token \in [Worlds -> Nat] /\ done \in [Worlds -> Nat]

\* No step makes a text false: what it says stays true, and a call whose line
\* is to come from now on was not decided before.
TextsLast ==
    /\ \A T : Good(T, AuditPending, log, done) => Good(T, AuditPending', log', done')
    /\ \A T : Good(T, ActivityPending, log, done) =>
                 Good(T, ActivityPending', log', done')
    /\ \A T : Placed(T, log) => Placed(T, log')

\* How log l and counts d go on to m and e, and pending calls P to Q: no call
\* that was decided is committed or taken up anew.
Onward(l, m, d, e, P, Q) ==
    /\ Len(l) \in Nat /\ Len(m) \in Nat /\ Len(l) <= Len(m)
    /\ \A k \in 1..Len(l) : m[k] = l[k]
    /\ \A k \in 1..Len(m) : k \in 1..Len(l) \/ m[k].nth > d[m[k].by]
    /\ \A w \in Worlds : d[w] \in Nat /\ e[w] \in Nat /\ d[w] <= e[w]
    /\ \A x \in Q : x \in P \/ x.nth > d[x.by]

\* A text that is true stays true.
LEMMA GoodStays ==
    ASSUME NEW T, NEW P, NEW Q, NEW l, NEW m, NEW d, NEW e,
           Onward(l, m, d, e, P, Q), Good(T, P, l, d)
    PROVE  Good(T, Q, m, e)
<1>1. ASSUME NEW i \in 1..Len(T)
      PROVE  T[i].exec \in Exec /\ T[i].exec.by \in Worlds /\ T[i].exec.nth \in Nat
             /\ T[i].exec.nth <= d[T[i].exec.by] /\ T[i].exec \notin P
  BY Bounds DEF Good, Exec
<1>2. \A w \in Worlds : d[w] \in Nat /\ e[w] \in Nat /\ d[w] <= e[w]
  BY DEF Onward
<1>3. ASSUME NEW i \in 1..Len(T)
      PROVE  T[i].exec \notin Q /\ T[i].exec.nth <= e[T[i].exec.by]
  BY <1>1, <1>2 DEF Onward
<1>4. ASSUME NEW i \in 1..Len(T) PROVE In(T[i].exec, m) <=> In(T[i].exec, l)
  <2>1. ASSUME NEW k \in 1..Len(m), m[k] = T[i].exec PROVE In(T[i].exec, l)
    <3>1. ~(m[k].nth > d[m[k].by])
      BY <1>1, <1>2, <2>1
    <3>2. k \in 1..Len(l) /\ m[k] = l[k]
      BY <3>1 DEF Onward
    <3> QED
      BY <2>1, <3>2 DEF In
  <2>2. ASSUME NEW k \in 1..Len(l), l[k] = T[i].exec PROVE In(T[i].exec, m)
    <3>1. k \in 1..Len(m) /\ m[k] = l[k]
      BY DEF Onward
    <3> QED
      BY <2>2, <3>1 DEF In
  <2> QED
    BY <2>1, <2>2 DEF In
<1> QED
  BY <1>1, <1>3, <1>4 DEF Good

LEMMA PlacedStays ==
    ASSUME NEW T, NEW P, NEW Q, NEW l, NEW m, NEW d, NEW e,
           Onward(l, m, d, e, P, Q), Placed(T, l)
    PROVE  Placed(T, m)
BY DEF Onward, Placed

\* A line about a decided call of w, that was pending and is no more, can be
\* added to a true text.
LEMMA LineAdded ==
    ASSUME NEW L, NEW T \in Seq(L), NEW x \in L, NEW P, NEW Q, NEW l, NEW d,
           Good(T, P, l, d), Q \subseteq P,
           x.exec \in P \ Q, x.exec \in Exec, x.exec.nth <= d[x.exec.by],
           x.ok <=> In(x.exec, l)
    PROVE  Good(Append(T, x), Q, l, d)
<1>1. /\ Len(Append(T, x)) = Len(T) + 1 /\ Len(T) \in Nat
      /\ Append(T, x)[Len(T) + 1] = x
      /\ \A i \in 1..Len(T) : Append(T, x)[i] = T[i]
  BY AppendProperties
<1>2. \A i \in 1..Len(T) + 1 : i \in 1..Len(T) \/ i = Len(T) + 1
  BY <1>1
<1>3. \A i \in 1..Len(T) : T[i].exec # x.exec
  BY DEF Good
<1>4. ASSUME NEW i \in 1..Len(T) + 1
      PROVE  Append(T, x)[i].ok <=> In(Append(T, x)[i].exec, l)
  BY <1>1, <1>2 DEF Good
<1>5. ASSUME NEW i \in 1..Len(T) + 1, NEW j \in 1..Len(T) + 1,
             Append(T, x)[i].exec = Append(T, x)[j].exec
      PROVE  i = j
  BY <1>1, <1>2, <1>3, <1>5 DEF Good
<1>6. ASSUME NEW i \in 1..Len(T) + 1
      PROVE  /\ Append(T, x)[i].exec \in Exec /\ Append(T, x)[i].exec \notin Q
             /\ Append(T, x)[i].exec.nth <= d[Append(T, x)[i].exec.by]
  BY <1>1, <1>2 DEF Good
<1> QED
  BY <1>1, <1>4, <1>5, <1>6 DEF Good

\* Steps that decide no call.
LEMMA UndecidingSteps ==
    ASSUME TypeInv, [Next]_vars,
           ~ \E w \in Worlds : AppendWins(w) \/ BodyRaises(w)
    PROVE  /\ log' = log
           /\ \A w \in Worlds : pc'[w] \in DecidedStages =>
                 /\ pc[w] \in DecidedStages /\ call'[w] = call[w]
                 /\ outcome'[w] = outcome[w]
                 /\ pc[w] = "rollback" \/ token'[w] = token[w]
                 /\ pc'[w] \in AuditStages => pc[w] \in AuditStages
                 /\ pc'[w] = "rollback" => pc[w] = "rollback"
                 /\ done'[w] = done[w]
<1>1. /\ pc \in [Worlds -> Stages] /\ token \in [Worlds -> Nat]
      /\ call \in [Worlds -> Exec] /\ done \in [Worlds -> 0..MaxCalls]
      /\ outcome \in [Worlds -> {"none", "ok", "unavailable", "error", "conflict"}]
  BY DEF TypeInv, TypeOK
<1> USE <1>1 DEF DecidedStages, AuditStages
<1>2. CASE UNCHANGED vars
  BY <1>2 DEF vars, docs, local
<1>3. ASSUME NEW w \in Worlds, NEW a \in Actions, Enter(w, a)
      PROVE  /\ log' = log
             /\ \A v \in Worlds \ {w} : /\ pc'[v] = pc[v] /\ call'[v] = call[v]
                   /\ outcome'[v] = outcome[v] /\ token'[v] = token[v]
                   /\ done'[v] = done[v]
             /\ pc'[w] \notin DecidedStages
  BY <1>3 DEF Enter, docs
<1>4. ASSUME NEW w \in Worlds,
             \/ New(w) \/ CatchUp(w) \/ Discard(w) \/ NotAvailable(w) \/ Body(w)
             \/ AppendLoses(w) \/ WriteActivity(w) \/ WriteFails(w) \/ Crash(w)
      PROVE  /\ log' = log
             /\ \A v \in Worlds \ {w} : /\ pc'[v] = pc[v] /\ call'[v] = call[v]
                   /\ outcome'[v] = outcome[v] /\ token'[v] = token[v]
                   /\ done'[v] = done[v]
             /\ pc'[w] \notin DecidedStages
  BY <1>4 DEF New, CatchUp, Discard, NotAvailable, Body, AppendLoses, WriteActivity,
     WriteFails, Crash, Goto, docs, local, Hydrate
<1>5. ASSUME NEW w \in Worlds,
             \/ Rollback(w) \/ Flush(w) \/ WriteSummary(w) \/ ReadAudit(w)
             \/ WriteAudit(w) \/ ReadActivity(w)
      PROVE  /\ log' = log /\ UNCHANGED <<call, outcome, done>>
             /\ \A v \in Worlds \ {w} : pc'[v] = pc[v] /\ token'[v] = token[v]
             /\ pc[w] \in DecidedStages /\ pc'[w] # "rollback"
             /\ pc[w] = "rollback" \/ token'[w] = token[w]
             /\ pc'[w] \in AuditStages => pc[w] \in AuditStages
  BY <1>5 DEF Rollback, Flush, WriteSummary, ReadAudit, WriteAudit, ReadActivity,
     Goto, docs, local, Hydrate
<1> QED
  BY <1>2, <1>3, <1>4, <1>5 DEF Next, Step

\* What deciding a call leaves of the others, and of this one.
LEMMA DecidingStep ==
    ASSUME TypeInv, NEW w \in Worlds, AppendWins(w) \/ BodyRaises(w)
    PROVE  /\ call' = call /\ done'[w] = done[w] + 1
           /\ call[w].by = w /\ call[w].nth = done[w] + 1
           /\ pc'[w] = IF AppendWins(w) THEN "flush" ELSE "rollback"
           /\ outcome'[w] = IF AppendWins(w) THEN "ok" ELSE "error"
           /\ AppendWins(w) => /\ log' = Append(log, call[w])
                               /\ token'[w] = Len(log) + 1
           /\ ~AppendWins(w) => log' = log
           /\ \A v \in Worlds \ {w} : /\ pc'[v] = pc[v] /\ outcome'[v] = outcome[v]
                                      /\ token'[v] = token[v] /\ done'[v] = done[v]
<1>1. /\ pc \in [Worlds -> Stages] /\ token \in [Worlds -> Nat]
      /\ done \in [Worlds -> 0..MaxCalls]
      /\ outcome \in [Worlds -> {"none", "ok", "unavailable", "error", "conflict"}]
  BY DEF TypeInv, TypeOK
<1>2. call[w].by = w /\ call[w].nth = done[w] + 1
  BY DEF AppendWins, BodyRaises, Goto, TypeInv, Calling
<1>3. CASE AppendWins(w)
  BY <1>1, <1>2, <1>3 DEF AppendWins, Goto
<1>4. CASE ~AppendWins(w)
  BY <1>1, <1>2, <1>4 DEF BodyRaises, Goto
<1> QED
  BY <1>3, <1>4

\* Every step carries texts onward, and keeps decided calls as they ended.
LEMMA OnwardStep ==
    ASSUME HonestInv, [Next]_vars
    PROVE  /\ Onward(log, log', done, done', AuditPending, AuditPending')
           /\ Onward(log, log', done, done', ActivityPending, ActivityPending')
           /\ Numbered' /\ DecidedCalls'
<1> USE DEF HonestInv
<1>1. /\ log \in Seq(Exec) /\ Len(log) \in Nat /\ done \in [Worlds -> Nat]
      /\ call \in [Worlds -> Exec] /\ \A w \in Worlds : call[w].by \in Worlds
      /\ \A k \in 1..Len(log) : log[k].by \in Worlds /\ log[k].nth \in Nat
  <2>1. \A k \in 1..Len(log) : log[k] \in Exec
    BY ElementOfSeq DEF TypeInv, TypeOK
  <2>2. \A e \in Exec : e.by \in Worlds /\ e.nth \in Nat
    BY Bounds DEF Exec
  <2>3. /\ log \in Seq(Exec) /\ done \in [Worlds -> Nat] /\ call \in [Worlds -> Exec]
    BY Bounds DEF TypeInv, TypeOK
  <2>4. Len(log) \in Nat
    BY <2>3, LenProperties
  <2>5. \A w \in Worlds : call[w].by \in Worlds
    BY <2>2, <2>3
  <2> QED
    BY <2>1, <2>2, <2>3, <2>4, <2>5
<1>2. done' \in [Worlds -> Nat] /\ \A w \in Worlds : done[w] <= done'[w]
  BY TypeStep, DoneSteps, Bounds DEF TypeInv, TypeOK
<1>3. CASE \E w \in Worlds : AppendWins(w) \/ BodyRaises(w)
  <2>1. PICK w \in Worlds : AppendWins(w) \/ BodyRaises(w)
    BY <1>3
  <2>2. /\ call' = call /\ done'[w] = done[w] + 1
        /\ call[w].by = w /\ call[w].nth = done[w] + 1
        /\ pc'[w] = IF AppendWins(w) THEN "flush" ELSE "rollback"
        /\ outcome'[w] = IF AppendWins(w) THEN "ok" ELSE "error"
        /\ AppendWins(w) => /\ log' = Append(log, call[w])
                            /\ token'[w] = Len(log) + 1
        /\ ~AppendWins(w) => log' = log
        /\ \A v \in Worlds \ {w} : /\ pc'[v] = pc[v] /\ outcome'[v] = outcome[v]
                                   /\ token'[v] = token[v] /\ done'[v] = done[v]
    BY <2>1, DecidingStep
  <2>3. AppendWins(w) => /\ Len(log') = Len(log) + 1 /\ log'[Len(log) + 1] = call[w]
                         /\ \A k \in 1..Len(log) : log'[k] = log[k]
    <3>1. call[w] \in Exec
      BY <1>1
    <3>2. /\ Len(Append(log, call[w])) = Len(log) + 1
          /\ Append(log, call[w])[Len(log) + 1] = call[w]
          /\ \A k \in 1..Len(log) : Append(log, call[w])[k] = log[k]
      BY <1>1, <3>1, AppendProperties
    <3> QED
      BY <2>2, <3>2
  <2>4. /\ Len(log') \in Nat /\ Len(log) <= Len(log')
        /\ \A k \in 1..Len(log) : log'[k] = log[k]
        /\ \A k \in 1..Len(log') : k \in 1..Len(log) \/ log'[k] = call[w]
    BY <1>1, <2>2, <2>3
  <2>5. \A k \in 1..Len(log') : k \in 1..Len(log) \/ log'[k].nth > done[log'[k].by]
    BY <1>1, <2>2, <2>4
  <2>6. \A x \in AuditPending' : x \in AuditPending \/ x = call[w]
    BY <2>2 DEF AuditPending
  <2>7. \A x \in ActivityPending' : x \in ActivityPending \/ x = call[w]
    BY <2>2 DEF ActivityPending
  <2>8. call[w].nth > done[call[w].by]
    BY <1>1, <2>2
  <2>9. Numbered'
    <3> SUFFICES ASSUME NEW k \in 1..Len(log') PROVE log'[k].nth <= done'[log'[k].by]
      BY DEF Numbered
    <3>1. CASE k \in 1..Len(log)
      <4>1. log[k].nth <= done[log[k].by] /\ done[log[k].by] <= done'[log[k].by]
        BY <1>1, <1>2, <3>1 DEF Numbered
      <4>2. log'[k] = log[k] /\ log[k].nth \in Nat /\ done[log[k].by] \in Nat
            /\ done'[log[k].by] \in Nat
        BY <1>1, <1>2, <2>4, <3>1
      <4> QED
        BY <4>1, <4>2
    <3>2. CASE k \notin 1..Len(log)
      BY <1>1, <1>2, <2>2, <2>4, <3>2
    <3> QED
      BY <3>1, <3>2
  <2>10. DecidedCalls'
    <3> SUFFICES ASSUME NEW v \in Worlds, pc'[v] \in DecidedStages
                 PROVE  /\ call'[v].by = v /\ call'[v].nth = done'[v]
                        /\ outcome'[v] = "ok" <=> In(call'[v], log')
                        /\ outcome'[v] = "ok" =>
                              token'[v] \in 1..Len(log') /\ log'[token'[v]] = call'[v]
                        /\ pc'[v] = "rollback" => outcome'[v] = "error"
      BY DEF DecidedCalls
    <3>1. CASE v = w /\ AppendWins(w)
      <4>1. Len(log) + 1 \in 1..Len(log')
        BY <1>1, <2>3, <3>1
      <4>2. In(call[w], log')
        BY <2>3, <3>1, <4>1 DEF In
      <4> QED
        BY <2>2, <2>3, <3>1, <4>1, <4>2
    <3>2. CASE v = w /\ ~AppendWins(w)
      <4>1. ~In(call[w], log)
        <5> SUFFICES ASSUME NEW k \in 1..Len(log), log[k] = call[w] PROVE FALSE
          BY DEF In
        <5>1. log[k].nth <= done[log[k].by]
          BY DEF Numbered
        <5> QED
          BY <1>1, <2>2, <5>1
      <4> QED
        BY <2>2, <3>2, <4>1
    <3>3. CASE v # w
      <4>1. /\ call[v].by = v /\ call[v].nth = done[v]
            /\ outcome[v] = "ok" <=> In(call[v], log)
            /\ outcome[v] = "ok" => token[v] \in 1..Len(log) /\ log[token[v]] = call[v]
            /\ pc[v] = "rollback" => outcome[v] = "error"
        BY <2>2, <3>3 DEF DecidedCalls
      <4>2. call[v] # call[w]
        BY <2>2, <3>3, <4>1
      <4>3. In(call[v], log') <=> In(call[v], log)
        <5>1. 1..Len(log) \subseteq 1..Len(log')
          BY <1>1, <2>4
        <5> QED
          BY <2>4, <4>2, <5>1 DEF In
      <4>4. outcome[v] = "ok" => token[v] \in 1..Len(log') /\ log'[token[v]] = call[v]
        BY <1>1, <2>4, <4>1
      <4> QED
        BY <2>2, <3>3, <4>1, <4>3, <4>4
    <3> QED
      BY <3>1, <3>2, <3>3
  <2> QED
    BY <1>1, <1>2, <2>4, <2>5, <2>6, <2>7, <2>8, <2>9, <2>10 DEF Onward
<1>4. CASE ~ \E w \in Worlds : AppendWins(w) \/ BodyRaises(w)
  <2>1. /\ log' = log
        /\ \A w \in Worlds : pc'[w] \in DecidedStages =>
              /\ pc[w] \in DecidedStages /\ call'[w] = call[w]
              /\ outcome'[w] = outcome[w]
              /\ pc[w] = "rollback" \/ token'[w] = token[w]
              /\ pc'[w] \in AuditStages => pc[w] \in AuditStages
              /\ pc'[w] = "rollback" => pc[w] = "rollback"
              /\ done'[w] = done[w]
    BY <1>4, UndecidingSteps
  <2>2. \A x \in AuditPending' : x \in AuditPending
    BY <2>1 DEF AuditPending, AuditStages
  <2>3. \A x \in ActivityPending' : x \in ActivityPending
    BY <2>1 DEF ActivityPending
  <2>4. Numbered'
    <3> SUFFICES ASSUME NEW k \in 1..Len(log) PROVE log[k].nth <= done'[log[k].by]
      BY <2>1 DEF Numbered
    <3>1. log[k].nth <= done[log[k].by] /\ done[log[k].by] <= done'[log[k].by]
      BY <1>1, <1>2 DEF Numbered
    <3>2. log[k].nth \in Nat /\ done[log[k].by] \in Nat /\ done'[log[k].by] \in Nat
      BY <1>1, <1>2
    <3> QED
      BY <3>1, <3>2
  <2>5. DecidedCalls'
    BY <2>1 DEF DecidedCalls, In
  <2> QED
    BY <1>1, <1>2, <2>1, <2>2, <2>3, <2>4, <2>5 DEF Onward
<1> QED
  BY <1>3, <1>4

\* Steps that write neither of the two documents, nor read one.
LEMMA DocSteps ==
    ASSUME TypeInv, [Next]_vars,
           ~ \E w \in Worlds : ReadAudit(w) \/ WriteAudit(w) \/ ReadActivity(w)
                               \/ WriteActivity(w)
    PROVE  /\ UNCHANGED <<audit, activity>>
           /\ \A w \in Worlds : pc'[w] \in {"writeAudit", "writeActivity"} =>
                 pc[w] = pc'[w] /\ buf'[w] = buf[w]
<1>1. /\ pc \in [Worlds -> Stages]
      /\ buf \in [Worlds -> Seq(AuditEntry) \cup Seq(LogEntry)]
  BY DEF TypeInv, TypeOK
<1>2. CASE UNCHANGED vars
  BY <1>2 DEF vars, docs, local
<1>3. ASSUME NEW w \in Worlds, NEW a \in Actions, Enter(w, a)
      PROVE  /\ UNCHANGED <<audit, activity, buf>>
             /\ pc'[w] \notin {"writeAudit", "writeActivity"}
             /\ \A v \in Worlds \ {w} : pc'[v] = pc[v]
  BY <1>1, <1>3 DEF Enter, docs
<1>4. ASSUME NEW w \in Worlds,
             \/ New(w) \/ CatchUp(w) \/ NotAvailable(w) \/ Body(w) \/ BodyRaises(w)
             \/ Rollback(w) \/ AppendWins(w) \/ AppendLoses(w) \/ Discard(w)
             \/ Flush(w) \/ WriteSummary(w) \/ WriteFails(w) \/ Crash(w)
      PROVE  /\ UNCHANGED <<audit, activity>>
             /\ pc'[w] \notin {"writeAudit", "writeActivity"}
             /\ \A v \in Worlds \ {w} : pc'[v] = pc[v] /\ buf'[v] = buf[v]
  BY <1>1, <1>4 DEF New, CatchUp, NotAvailable, Body, BodyRaises, Rollback, AppendWins,
     AppendLoses, Discard, Flush, WriteSummary, WriteFails, Crash, Goto, docs, local
<1> QED
  BY <1>2, <1>3, <1>4 DEF Next, Step

\* A call with a line to come is of the world that is to write it.
LEMMA PendingOwn ==
    ASSUME DecidedCalls, NEW w \in Worlds, NEW v \in Worlds,
           pc[w] \in DecidedStages, pc[v] \in DecidedStages, call[v] = call[w]
    PROVE  v = w
BY DEF DecidedCalls

\* Texts stay true, and what is read or written now is.
LEMMA TextsStep ==
    ASSUME Silent = {}, TextTypes, LineTypes, DecidedCalls, HonestTexts, TextsLast,
           NEW u \in Worlds,
           ReadAudit(u) \/ WriteAudit(u) \/ ReadActivity(u) \/ WriteActivity(u)
    PROVE  HonestTexts' /\ TextTypes'
<1> USE DEF HonestTexts, TextTypes, Buffered
<1>1. /\ Good(audit, AuditPending', log', done') /\ Placed(audit, log')
      /\ Good(activity, ActivityPending', log', done')
  BY DEF TextsLast
<1>2. ASSUME NEW w \in Worlds, pc[w] = "writeAudit"
      PROVE  Good(buf[w], AuditPending', log', done') /\ Placed(buf[w], log')
  BY <1>2 DEF TextsLast
<1>3. ASSUME NEW w \in Worlds, pc[w] = "writeActivity"
      PROVE  Good(buf[w], ActivityPending', log', done')
  BY <1>3 DEF TextsLast
<1>4. /\ pc \in [Worlds -> Stages] /\ call \in [Worlds -> Exec]
      /\ buf \in [Worlds -> Seq(AuditEntry) \cup Seq(LogEntry)]
      /\ token \in [Worlds -> Nat] /\ done \in [Worlds -> Nat]
  BY DEF LineTypes
<1>5. ASSUME NEW w \in Worlds, ReadAudit(w) PROVE HonestTexts' /\ TextTypes'
  <2>1. /\ UNCHANGED <<audit, activity>> /\ buf' = [buf EXCEPT ![w] = audit]
        /\ pc[w] = "readAudit" /\ pc' = [pc EXCEPT ![w] = "writeAudit"]
    BY <1>5 DEF ReadAudit, Goto, docs
  <2> QED
    BY <1>1, <1>2, <1>3, <1>4, <2>1
<1>6. ASSUME NEW w \in Worlds, ReadActivity(w) PROVE HonestTexts' /\ TextTypes'
  <2>1. /\ UNCHANGED <<audit, activity>> /\ buf' = [buf EXCEPT ![w] = activity]
        /\ pc[w] = "readActivity" /\ pc' = [pc EXCEPT ![w] = "writeActivity"]
    BY <1>6 DEF ReadActivity, Goto, docs
  <2> QED
    BY <1>1, <1>2, <1>3, <1>4, <2>1
<1>7. ASSUME NEW w \in Worlds, WriteAudit(w) PROVE HonestTexts' /\ TextTypes'
  <2>1. /\ pc[w] = "writeAudit" /\ pc' = [pc EXCEPT ![w] = "readActivity"]
        /\ audit' = Append(buf[w], AuditLine(w))
        /\ UNCHANGED <<log, activity, call, buf, done>>
    BY <1>7 DEF WriteAudit, Goto, local
  <2>2. /\ call[w].by = w /\ call[w].nth = done[w]
        /\ outcome[w] = "ok" <=> In(call[w], log)
        /\ outcome[w] = "ok" => token[w] \in 1..Len(log) /\ log[token[w]] = call[w]
    BY <2>1 DEF DecidedCalls, DecidedStages
  <2>3. buf[w] \in Seq(AuditEntry) /\ AuditLine(w) \in AuditEntry
    BY <1>4, <2>1 DEF AuditLine, AuditEntry
  <2>4. AuditLine(w).exec = call[w] /\ AuditLine(w).offset = token[w]
        /\ (AuditLine(w).ok <=> In(AuditLine(w).exec, log))
    BY <2>2 DEF AuditLine
  <2>5. AuditPending' \subseteq AuditPending /\ call[w] \in AuditPending \ AuditPending'
    <3>1. call[w] \in AuditPending /\ AuditPending' \subseteq AuditPending
      BY <1>4, <2>1 DEF AuditPending, AuditStages, DecidedStages
    <3>2. ASSUME NEW v \in Worlds, pc'[v] \in AuditStages, call[v] = call[w] PROVE FALSE
      <4>1. v # w /\ pc[v] \in DecidedStages /\ pc[w] \in DecidedStages
        BY <1>4, <2>1, <3>2 DEF AuditStages, DecidedStages
      <4> QED
        BY <3>2, <4>1, PendingOwn
    <3> QED
      BY <2>1, <3>1, <3>2 DEF AuditPending
  <2>6. AuditLine(w).exec \in AuditPending \ AuditPending' /\ AuditLine(w).exec \in Exec
        /\ AuditLine(w).exec.nth <= done[AuditLine(w).exec.by]
    BY <1>4, <2>2, <2>4, <2>5
  <2> DEFINE x == AuditLine(w)
             Q == AuditPending'
  <2>7. Good(Append(buf[w], x), Q, log, done)
    <3>1. Good(buf[w], AuditPending, log, done)
      BY <2>1
    <3>2. x \in AuditEntry /\ Q \subseteq AuditPending /\ x.exec \in AuditPending \ Q
          /\ x.exec \in Exec /\ x.exec.nth <= done[x.exec.by] /\ (x.ok <=> In(x.exec, log))
      BY <2>3, <2>4, <2>5, <2>6
    <3> HIDE DEF x, Q
    <3> QED
      BY <2>3, <3>1, <3>2, LineAdded
  <2>8. Placed(Append(buf[w], x), log)
    <3>1. Placed(buf[w], log)
      BY <2>1
    <3>2. x.ok => x.offset \in 1..Len(log) /\ log[x.offset] = x.exec
      BY <2>2, <2>4 DEF AuditLine
    <3> HIDE DEF x
    <3>3. x \in AuditEntry
      BY <2>3 DEF x
    <3>4. /\ Len(Append(buf[w], x)) = Len(buf[w]) + 1 /\ Len(buf[w]) \in Nat
          /\ Append(buf[w], x)[Len(buf[w]) + 1] = x
          /\ \A i \in 1..Len(buf[w]) : Append(buf[w], x)[i] = buf[w][i]
      BY <2>3, <3>3, AppendProperties
    <3> QED
      BY <3>1, <3>2, <3>4 DEF Placed
  <2>9. Good(audit', AuditPending', log', done') /\ Placed(audit', log')
    BY <2>1, <2>7, <2>8
  <2>10. \A v \in Worlds : /\ buf'[v] = buf[v]
                           /\ pc'[v] = "writeAudit" => pc[v] = "writeAudit"
                           /\ pc'[v] = "writeActivity" => pc[v] = "writeActivity"
    BY <1>4, <2>1
  <2>11. TextTypes'
    <3>1. Append(buf[w], AuditLine(w)) \in Seq(AuditEntry)
      BY <2>3, AppendProperties
    <3> QED
      BY <2>1, <2>10, <3>1
  <2> QED
    BY <1>1, <1>2, <1>3, <2>1, <2>9, <2>10, <2>11
<1>8. ASSUME NEW w \in Worlds, WriteActivity(w) PROVE HonestTexts' /\ TextTypes'
  <2>1. /\ pc[w] = "writeActivity" /\ pc' = [pc EXCEPT ![w] = "idle"]
        /\ activity' = Append(buf[w], LogLine(w))
        /\ buf' = [buf EXCEPT ![w] = <<>>]
        /\ UNCHANGED <<log, audit, call, done>>
    BY <1>8 DEF WriteActivity, Goto
  <2>2. /\ call[w].by = w /\ call[w].nth = done[w]
        /\ outcome[w] = "ok" <=> In(call[w], log)
    BY <2>1 DEF DecidedCalls, DecidedStages
  <2>3. buf[w] \in Seq(LogEntry) /\ LogLine(w) \in LogEntry
    BY <1>4, <2>1 DEF LogLine, LogEntry
  <2>4. LogLine(w).exec = call[w] /\ (LogLine(w).ok <=> In(LogLine(w).exec, log))
    BY <2>2 DEF LogLine
  <2>5. ActivityPending' \subseteq ActivityPending
        /\ call[w] \in ActivityPending \ ActivityPending'
    <3>1. call[w] \in ActivityPending /\ ActivityPending' \subseteq ActivityPending
      BY <1>4, <2>1 DEF ActivityPending, DecidedStages
    <3>2. ASSUME NEW v \in Worlds, pc'[v] \in DecidedStages, call[v] = call[w] PROVE FALSE
      <4>1. v # w /\ pc[v] \in DecidedStages /\ pc[w] \in DecidedStages
        BY <1>4, <2>1, <3>2 DEF DecidedStages
      <4> QED
        BY <3>2, <4>1, PendingOwn
    <3> QED
      BY <2>1, <3>1, <3>2 DEF ActivityPending
  <2>6. LogLine(w).exec \in Exec /\ LogLine(w).exec.nth <= done[LogLine(w).exec.by]
    BY <1>4, <2>2, <2>4
  <2> DEFINE x == LogLine(w)
             Q == ActivityPending'
  <2>7. Good(Append(buf[w], x), Q, log, done)
    <3>1. Good(buf[w], ActivityPending, log, done)
      BY <2>1
    <3>2. x \in LogEntry /\ Q \subseteq ActivityPending /\ x.exec \in ActivityPending \ Q
          /\ x.exec \in Exec /\ x.exec.nth <= done[x.exec.by] /\ (x.ok <=> In(x.exec, log))
      BY <2>3, <2>4, <2>5, <2>6
    <3> HIDE DEF x, Q
    <3> QED
      BY <2>3, <3>1, <3>2, LineAdded
  <2>8. Good(activity', ActivityPending', log', done')
    BY <2>1, <2>7
  <2>9. \A v \in Worlds : /\ pc'[v] = "writeAudit" => pc[v] = "writeAudit" /\ buf'[v] = buf[v]
                          /\ pc'[v] = "writeActivity" =>
                                pc[v] = "writeActivity" /\ buf'[v] = buf[v]
    BY <1>4, <2>1
  <2>10. TextTypes'
    <3>1. Append(buf[w], LogLine(w)) \in Seq(LogEntry) /\ <<>> \in Seq(LogEntry)
      BY <2>3, AppendProperties
    <3> QED
      BY <2>1, <2>9, <3>1
  <2> QED
    BY <1>1, <1>2, <1>3, <2>1, <2>8, <2>9, <2>10
<1> QED
  BY <1>5, <1>6, <1>7, <1>8

\* What is neither read nor written stays true as well.
LEMMA TextsStay ==
    ASSUME TextTypes, HonestTexts, TextsLast, UNCHANGED <<audit, activity>>,
           buf' \in [Worlds -> Seq(AuditEntry) \cup Seq(LogEntry)],
           \A w \in Worlds : pc'[w] \in {"writeAudit", "writeActivity"} =>
              pc[w] = pc'[w] /\ buf'[w] = buf[w]
    PROVE  HonestTexts' /\ TextTypes'
<1>1. TextTypes'
  BY DEF TextTypes, Buffered
<1>2. HonestTexts'
  BY DEF HonestTexts, TextsLast
<1> QED
  BY <1>1, <1>2

\* Every step keeps both documents, and what is on its way into them, true.
LEMMA HonestStep ==
    ASSUME Silent = {}, HonestInv, [Next]_vars
    PROVE  HonestInv'
<1> USE DEF HonestInv
<1>1. /\ Onward(log, log', done, done', AuditPending, AuditPending')
      /\ Onward(log, log', done, done', ActivityPending, ActivityPending')
      /\ Numbered' /\ DecidedCalls'
  BY OnwardStep
<1>2. TypeInv /\ TypeInv'
  BY TypeStep
<1>3. TextsLast
  BY <1>1, GoodStays, PlacedStays DEF TextsLast
<1>4. TextTypes /\ LineTypes
  BY <1>2, Bounds DEF TypeInv, TypeOK, TextTypes, LineTypes
<1>5. ASSUME NEW w \in Worlds,
             ReadAudit(w) \/ WriteAudit(w) \/ ReadActivity(w) \/ WriteActivity(w)
      PROVE  HonestTexts'
  BY <1>3, <1>4, <1>5, TextsStep
<1>6. CASE ~ \E w \in Worlds : ReadAudit(w) \/ WriteAudit(w) \/ ReadActivity(w)
                               \/ WriteActivity(w)
  <2>1. /\ UNCHANGED <<audit, activity>>
        /\ \A w \in Worlds : pc'[w] \in {"writeAudit", "writeActivity"} =>
              pc[w] = pc'[w] /\ buf'[w] = buf[w]
    BY <1>2, <1>6, DocSteps
  <2>2. buf' \in [Worlds -> Seq(AuditEntry) \cup Seq(LogEntry)]
    BY <1>2 DEF TypeInv, TypeOK
  <2> QED
    BY <1>1, <1>2, <1>3, <1>4, <2>1, <2>2, TextsStay
<1> QED
  BY <1>1, <1>2, <1>5, <1>6

\* An execution happens once, also among those the project starts with.
SeedsDiffer == \A i, j \in 1..Len(Seeds) : Seeds[i] = Seeds[j] => i = j

\* The documents of an old project are true.
LEMMA HonestInit ==
    ASSUME SeedsDiffer PROVE Init => HonestInv
<1> SUFFICES ASSUME Init PROVE HonestInv
  OBVIOUS
<1>1. TypeInv
  BY TypeInit
<1>2. Len(Seeds) \in Nat /\ \A i \in 1..Len(Seeds) : /\ Seeds[i] \in Exec
                                                   /\ Seeds[i].nth = 0
                                                   /\ Seeds[i].by \in Worlds
  <2>1. Len(Seeds) \in Nat /\ \A i \in 1..Len(Seeds) : Seeds[i] \in Exec
    BY SeedsType, ElementOfSeq
  <2>2. \A i \in 1..Len(Seeds) : Seeds[i].nth = 0
    BY SeedsOK
  <2> QED
    BY <2>1, <2>2 DEF Exec
<1>3. log = Seeds /\ audit = SeedAudit /\ activity = SeedActivity
      /\ done = [w \in Worlds |-> 0] /\ pc = [w \in Worlds |-> "absent"]
  BY DEF Init
<1>4. AuditPending = {} /\ ActivityPending = {}
  BY <1>3 DEF AuditPending, ActivityPending, AuditStages, DecidedStages
<1>5. Numbered /\ DecidedCalls
  BY <1>2, <1>3 DEF Numbered, DecidedCalls, DecidedStages
<1>6. /\ Len(audit) = Len(Seeds)
      /\ \A i \in 1..Len(Seeds) : /\ audit[i].exec = Seeds[i] /\ audit[i].ok = TRUE
                                  /\ audit[i].offset = i
  BY <1>2, <1>3 DEF SeedAudit
<1>7. /\ Len(activity) = Len(Seeds)
      /\ \A i \in 1..Len(Seeds) : activity[i].exec = Seeds[i] /\ activity[i].ok = TRUE
  BY <1>2, <1>3 DEF SeedActivity
<1>8. Good(audit, {}, Seeds, done) /\ Placed(audit, Seeds)
  BY <1>2, <1>3, <1>6 DEF Good, Placed, In, SeedsDiffer
<1>9. Good(activity, {}, Seeds, done)
  BY <1>2, <1>3, <1>7 DEF Good, In, SeedsDiffer
<1> QED
  BY <1>1, <1>3, <1>4, <1>5, <1>8, <1>9 DEF HonestInv, HonestTexts

\* Through races, crashes and failing writes, an OK line of audit.jsonl or
\* event_log.md is of an execution in the log, at the offset it gives, a
\* FAILED line of one that is not, and no call has two.  Exceptions are
\* assumed to have a message (Silent = {}): event_log.md takes those without
\* for successes.
THEOREM AuditNeverLies ==
    ASSUME SeedsDiffer, Silent = {} PROVE Spec => []AuditHonest
<1>1. Init => HonestInv
  BY HonestInit
<1>2. HonestInv /\ [Next]_vars => HonestInv'
  BY HonestStep
<1>3. HonestInv => AuditHonest
  <2> SUFFICES ASSUME HonestInv PROVE AuditHonest
    OBVIOUS
  <2>1. \A e : In(e, log) <=> e \in Effects(Len(log))
    BY DEF In, Effects
  <2> QED
    BY <2>1 DEF HonestInv, HonestTexts, Good, Placed, AuditHonest, HonestLines
<1> QED
  BY <1>1, <1>2, <1>3, PTL DEF Spec
=============================================================================
