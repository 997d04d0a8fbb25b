--------------------------- MODULE RuntimeProofs -----------------------------
(* Proofs about Runtime, for any runs, direct callers, caps and budgets.   *)
EXTENDS Runtime, WorldProofs, FiniteSetTheorems

-----------------------------------------------------------------------------
(* Type correctness.                                                       *)

Outcomes == {"none", "ok", "unavailable", "error", "conflict"}
Endings  == {"none", "answer", "abandoned", "blocked", "exhausted", "error"}

Tally == [turns : 0..MaxIterations, streak : 0..ContinueStreakCap,
          recovers : 0..RecoverCap, actions : Nat, consults : Nat]

Message == [kind : {"assistant"}, calls : Nat]
      \cup [kind : {"note"}]
      \cup [kind : {"tool"}, result : Results]
      \cup [kind : {"tool"}, result : Outcomes \cup {"consulted"},
            exec : Exec \cup Consult]

\* The types of World's variables, with consults in the log and every offset
\* inside it.
WorldTypes ==
    /\ log \in Seq(Exec \cup Consult)
    /\ snapshot # NoDoc =>
          snapshot \in Snapshot /\ snapshot.last_offset \in 1..Len(log)
    /\ pc \in [Worlds -> Stages]
    /\ mem \in [Worlds -> SUBSET Exec]
    /\ token \in [Worlds -> Nat]
    /\ call \in [Worlds -> Exec]
    /\ base \in [Worlds -> Nat]
    /\ outcome \in [Worlds -> Outcomes]
    /\ done \in [Worlds -> 0..MaxCalls]
    /\ \A w \in Worlds :
          /\ token[w] <= Len(log) /\ base[w] <= Len(log)
          /\ pc[w] \in {"catchUp", "body", "append"} =>
                call[w].by = w /\ call[w].nth = done[w] + 1
          /\ pc[w] = "flush" => token[w] > 0

\* The types of the runs' variables.
RunTypes ==
    /\ stage \in [Runs -> Stage]
    /\ turn \in [Runs -> Seq(Tools)]
    /\ conv \in [Runs -> Seq(Message)]
    /\ tally \in [Runs -> Tally]
    /\ held \in [Runs -> Nat]
    /\ \A r \in Runs : held[r] <= Len(log)
    /\ final \in [Runs -> Endings]
    /\ overtaken \in BOOLEAN

\* Plans and replies of a conversation: while a turn is being worked off, the
\* replies it still owes are exactly the positions after the last message.
ToolReplies(c) == {i \in 1..Len(c) : c[i].kind = "tool"}
Plans(c)       == {i \in 1..Len(c) : c[i].kind = "assistant"}
OwedBy(c)      == UNION {i + 1..i + c[i].calls : i \in Plans(c)}

\* n replies are missing, at the end; each plan is answered before the next.
Owing(c, n) ==
    /\ ToolReplies(c) \cup (Len(c) + 1..Len(c) + n) = OwedBy(c)
    /\ \A i, j \in Plans(c) : i < j => i + c[i].calls < j
HasLastPlan(c) == \E i \in Plans(c) : \A j \in Plans(c) : j <= i

\* What stage a run is in goes with the rest of its state: the worker thread
\* only runs in "running", a call in progress is at the head of the turn, and
\* no run plans again once its recoveries are used up.
Staged(r) ==
    /\ stage[r] = "running" \/ pc[r] \in {"absent", "idle"}
    /\ stage[r] \in {"off", "plan"} => turn[r] = <<>>
    /\ stage[r] = "off" => conv[r] = <<>>
    /\ stage[r] \in {"call", "running", "resolving", "consulting", "recording"} =>
          turn[r] # <<>> /\ HasLastPlan(conv[r])
    /\ stage[r] \in {"running", "resolving"} => Head(turn[r]) \in Actions
    /\ stage[r] \in {"consulting", "recording"} => Head(turn[r]) \in Subagents
    /\ stage[r] \notin {"ending", "complete", "dead"} => tally[r].recovers < RecoverCap

RTypeInv == WorldTypes /\ RunTypes /\ \A r \in Runs : Staged(r)

\* Everything a world does on its own account.
WorldAct(w) == \/ New(w) \/ Step(w) \/ WriteFails(w) \/ Crash(w)
               \/ \E a \in Actions : Enter(w, a)

\* _hydrate keeps state and token in their types.
LEMMA RHydrateType ==
    ASSUME WorldTypes, NEW w \in Worlds, Hydrate(w)
    PROVE  /\ mem' \in [Worlds -> SUBSET Exec]
           /\ token' \in [Worlds -> Nat]
           /\ \A v \in Worlds : token'[v] <= Len(log)
           /\ \A v \in Worlds \ {w} : token'[v] = token[v] /\ mem'[v] = mem[v]
<1>1. CASE snapshot = NoDoc
  BY <1>1 DEF Hydrate, WorldTypes
<1>2. CASE snapshot # NoDoc
  <2>1. /\ snapshot.state \in SUBSET Exec /\ snapshot.last_offset \in Nat
        /\ snapshot.last_offset <= Len(log)
    BY <1>2 DEF WorldTypes, Snapshot
  <2> QED
    BY <1>2, <2>1 DEF Hydrate, WorldTypes
<1> QED
  BY <1>1, <1>2

\* A longer log still holds every offset, and what it held.
LEMMA LogGrows ==
    ASSUME WorldTypes, NEW e \in Exec \cup Consult, log' = Append(log, e)
    PROVE  /\ log' \in Seq(Exec \cup Consult)
           /\ Len(log) \in Nat /\ Len(log') = Len(log) + 1
           /\ log'[Len(log')] = e
           /\ \A i \in 1..Len(log) : log'[i] = log[i]
           /\ \A i \in 1..Len(log) : log[i] \in Exec \cup Consult
BY AppendProperties, ElementOfSeq DEF WorldTypes

\* What a world does keeps World's variables in their types.
LEMMA WorldTypesStep ==
    ASSUME WorldTypes, NEW w \in Worlds, WorldAct(w)
    PROVE  WorldTypes' /\ Len(log) <= Len(log')
<1> USE Bounds DEF WorldTypes, Stages, Outcomes
<1>0. Len(log) \in Nat
  OBVIOUS
<1>13. Len(log) <= Len(log')
  <2>1. log' = log \/ AppendWins(w)
    BY DEF WorldAct, Step, New, Enter, CatchUp, NotAvailable, Body, BodyRaises, Rollback,
       AppendLoses, Discard, Flush, WriteSummary, ReadAudit, WriteAudit, ReadActivity,
       WriteActivity, WriteFails, Crash
  <2>2. AppendWins(w) => Len(log') = Len(log) + 1
    BY LogGrows DEF AppendWins
  <2> QED
    BY <1>0, <2>1, <2>2
<1> SUFFICES WorldTypes'
  BY <1>13
<1>1. CASE New(w)
  <2>1. /\ mem' \in [Worlds -> SUBSET Exec] /\ token' \in [Worlds -> Nat]
        /\ \A v \in Worlds : token'[v] <= Len(log)
        /\ \A v \in Worlds \ {w} : token'[v] = token[v]
    <3>1. CASE snapshot = NoDoc
      <4>1. mem' = [mem EXCEPT ![w] = {}] /\ token' = [token EXCEPT ![w] = 0]
        BY <1>1, <3>1 DEF New
      <4>2. ASSUME NEW x \in SUBSET Exec
            PROVE  [mem EXCEPT ![w] = x] \in [Worlds -> SUBSET Exec]
        OBVIOUS
      <4>3. [mem EXCEPT ![w] = {}] \in [Worlds -> SUBSET Exec]
        BY <4>2
      <4> QED
        BY <1>0, <4>1, <4>3
    <3>2. CASE snapshot # NoDoc
      BY <1>1, <3>2, RHydrateType DEF New
    <3> QED
      BY <3>1, <3>2
  <2>2. /\ pc' = [pc EXCEPT ![w] = "idle"] /\ outcome' = [outcome EXCEPT ![w] = "none"]
        /\ UNCHANGED <<log, snapshot, call, base, done>>
    BY <1>1 DEF New, Goto, docs
  <2>3. pc' \in [Worlds -> Stages] /\ outcome' \in [Worlds -> Outcomes]
    BY <2>2
  <2>4. \A v \in Worlds : pc'[v] = "idle" \/ (pc'[v] = pc[v] /\ token'[v] = token[v])
    BY <1>1, <2>1, <2>2 DEF New
  <2>5. \A v \in Worlds :
          /\ token'[v] <= Len(log') /\ base'[v] <= Len(log')
          /\ pc'[v] \in {"catchUp", "body", "append"} =>
                call'[v].by = v /\ call'[v].nth = done'[v] + 1
          /\ pc'[v] = "flush" => token'[v] > 0
    BY <2>1, <2>2, <2>4
  <2>6. snapshot' # NoDoc =>
          snapshot' \in Snapshot /\ snapshot'.last_offset \in 1..Len(log')
    BY <2>2
  <2> QED
    BY <2>1, <2>2, <2>3, <2>5, <2>6
<1>2. ASSUME NEW a \in Actions, Enter(w, a) PROVE WorldTypes'
  <2> DEFINE e == [by |-> w, action |-> a, nth |-> done[w] + 1,
                   try |-> IF call[w].nth = done[w] + 1
                           THEN 1 - call[w].try ELSE 0]
  <2>1. call[w].try \in {0, 1}
    BY DEF Exec
  <2>2. done[w] + 1 \in 0..MaxCalls
    BY <1>2 DEF Enter
  <2>3. e \in Exec
    BY <2>1, <2>2 DEF Exec
  <2>4. e.by = w /\ e.nth = done[w] + 1
    OBVIOUS
  <2>5. call' = [call EXCEPT ![w] = e]
    BY <1>2 DEF Enter
  <2> HIDE DEF e
  <2>6. /\ pc' \in [Worlds -> Stages] /\ outcome' \in [Worlds -> Outcomes]
        /\ call' \in [Worlds -> Exec]
        /\ UNCHANGED <<log, snapshot, mem, token, base, done>>
    BY <1>2, <2>3, <2>5 DEF Enter, docs
  <2>7. /\ pc'[w] # "flush" /\ call'[w] = e
        /\ \A v \in Worlds \ {w} : pc'[v] = pc[v] /\ call'[v] = call[v]
    BY <1>2, <2>5 DEF Enter
  <2> QED
    BY <2>4, <2>6, <2>7
<1>3. CASE CatchUp(w) \/ Rollback(w) \/ Discard(w)
  <2>1. /\ mem' \in [Worlds -> SUBSET Exec] /\ token' \in [Worlds -> Nat]
        /\ \A v \in Worlds : token'[v] <= Len(log)
        /\ \A v \in Worlds \ {w} : token'[v] = token[v]
    BY <1>3, RHydrateType DEF CatchUp, Rollback, Discard
  <2>2. /\ pc' \in [Worlds -> Stages] /\ outcome' \in [Worlds -> Outcomes]
        /\ UNCHANGED <<log, snapshot, call, base, done>>
    BY <1>3 DEF CatchUp, Rollback, Discard, Goto, docs, local
  <2>3. /\ pc[w] = "catchUp" \/ pc'[w] \in {"readAudit", "idle"}
        /\ pc'[w] # "flush"
        /\ \A v \in Worlds \ {w} : pc'[v] = pc[v]
    BY <1>3 DEF CatchUp, Rollback, Discard, Goto
  <2> QED
    BY <2>1, <2>2, <2>3
<1>4. CASE NotAvailable(w)
  <2>1. done[w] + 1 \in 0..MaxCalls
    BY <1>4 DEF NotAvailable, Goto, Exec
  <2> QED
    BY <1>4, <2>1 DEF NotAvailable, Goto, docs
<1>5. CASE Body(w)
  BY <1>5 DEF Body, Goto, docs, local
<1>6. CASE BodyRaises(w)
  <2>1. done[w] + 1 \in 0..MaxCalls
    BY <1>6 DEF BodyRaises, Goto, Exec
  <2>2. mem' \in [Worlds -> SUBSET Exec]
    <3>1. mem[w] \cup {call[w]} \in SUBSET Exec
      OBVIOUS
    <3>2. mem' = mem \/ mem' = [mem EXCEPT ![w] = @ \cup {call[w]}]
      BY <1>6 DEF BodyRaises
    <3>3. ASSUME NEW x \in SUBSET Exec
          PROVE  [mem EXCEPT ![w] = x] \in [Worlds -> SUBSET Exec]
      OBVIOUS
    <3>4. [mem EXCEPT ![w] = @ \cup {call[w]}] \in [Worlds -> SUBSET Exec]
      BY <3>1, <3>3
    <3> QED
      BY <3>2, <3>4
  <2> QED
    BY <1>6, <2>1, <2>2 DEF BodyRaises, Goto, docs
<1>7. CASE AppendWins(w)
  <2>1. done[w] + 1 \in 0..MaxCalls
    BY <1>7 DEF AppendWins, Goto, Exec
  <2>2. log' \in Seq(Exec \cup Consult) /\ Len(log') = Len(log) + 1
    BY <1>7, LogGrows DEF AppendWins
  <2> QED
    BY <1>0, <1>7, <2>1, <2>2 DEF AppendWins, Goto, docs
<1>8. CASE AppendLoses(w)
  BY <1>8 DEF AppendLoses, Goto, docs
<1>9. CASE Flush(w)
  <2>1. snapshot' \in Snapshot /\ snapshot'.last_offset = token[w]
    BY <1>9 DEF Flush, Snapshot
  <2>2. token[w] \in 1..Len(log)
    BY <1>0, <1>9 DEF Flush, Goto
  <2> QED
    BY <1>9, <2>1, <2>2 DEF Flush, Goto, local
<1>10. CASE \/ WriteSummary(w) \/ ReadAudit(w) \/ WriteAudit(w)
            \/ ReadActivity(w) \/ WriteActivity(w)
  <2>1. /\ UNCHANGED <<log, snapshot, mem, token, call, base, outcome, done>>
        /\ \E q \in {"readAudit", "writeAudit", "readActivity", "writeActivity", "idle"} :
              pc' = [pc EXCEPT ![w] = q]
    BY <1>10 DEF WriteSummary, ReadAudit, WriteAudit, ReadActivity, WriteActivity,
       Goto, docs, local
  <2>2. PICK q \in Stages : /\ q \notin {"catchUp", "body", "append", "flush"}
                           /\ pc' = [pc EXCEPT ![w] = q]
    BY <2>1
  <2>3. /\ pc' \in [Worlds -> Stages]
        /\ \A v \in Worlds : pc'[v] = pc[v]
                            \/ pc'[v] \notin {"catchUp", "body", "append", "flush"}
    BY <2>2
  <2> QED
    BY <2>1, <2>3
<1>11. CASE WriteFails(w)
  BY <1>11 DEF WriteFails, docs
<1>12. CASE Crash(w)
  BY <1>12 DEF Crash, docs
<1> QED
  BY <1>1, <1>2, <1>3, <1>4, <1>5, <1>6, <1>7, <1>8, <1>9, <1>10, <1>11, <1>12
     DEF WorldAct, Step

\* Everything a run does, alone or through its world.
RunAct(r) == Trigger(r) \/ TriggerBlocked(r) \/ RunStep(r) \/ Escapes(r) \/ RunFault(r)

\* Nothing of another world, or of another run, is touched.
OtherWorldsStay(w) ==
    \A v \in Worlds \ {w} :
        /\ pc'[v] = pc[v] /\ mem'[v] = mem[v] /\ token'[v] = token[v]
        /\ call'[v] = call[v] /\ base'[v] = base[v]
        /\ outcome'[v] = outcome[v] /\ done'[v] = done[v]
OtherRunsStay(r) ==
    \A v \in Runs \ {r} :
        /\ stage'[v] = stage[v] /\ turn'[v] = turn[v] /\ conv'[v] = conv[v]
        /\ tally'[v] = tally[v] /\ held'[v] = held[v]

\* A world only touches its own entries.
LEMMA WorldLocal ==
    ASSUME WorldTypes, NEW w \in Worlds, WorldAct(w)
    PROVE  OtherWorldsStay(w)
<1> USE DEF WorldTypes, OtherWorldsStay
<1>1. ASSUME Hydrate(w) PROVE \A v \in Worlds \ {w} : mem'[v] = mem[v] /\ token'[v] = token[v]
  BY <1>1, RHydrateType
<1>2. CASE New(w)
  <2>1. \A v \in Worlds \ {w} : mem'[v] = mem[v] /\ token'[v] = token[v]
    BY <1>1, <1>2 DEF New
  <2> QED
    BY <1>2, <2>1 DEF New, Goto
<1>3. ASSUME NEW a \in Actions, Enter(w, a) PROVE OtherWorldsStay(w)
  BY <1>3 DEF Enter
<1>4. CASE CatchUp(w) \/ Rollback(w) \/ Discard(w)
  BY <1>1, <1>4 DEF CatchUp, Rollback, Discard, Goto, local
<1>5. CASE NotAvailable(w) \/ Body(w) \/ BodyRaises(w)
  BY <1>5 DEF NotAvailable, Body, BodyRaises, Goto, local
<1>6. CASE AppendWins(w) \/ AppendLoses(w) \/ Flush(w)
  BY <1>6 DEF AppendWins, AppendLoses, Flush, Goto, local
<1>7. CASE \/ WriteSummary(w) \/ ReadAudit(w) \/ WriteAudit(w)
           \/ ReadActivity(w) \/ WriteActivity(w) \/ WriteFails(w) \/ Crash(w)
  BY <1>7 DEF WriteSummary, ReadAudit, WriteAudit, ReadActivity, WriteActivity,
     WriteFails, Crash, Goto, local
<1> QED
  BY <1>2, <1>3, <1>4, <1>5, <1>6, <1>7 DEF WorldAct, Step

\* A run's thread is its world at work.
LEMMA RunWorldActs ==
    ASSUME NEW r \in Runs
    PROVE  /\ Trigger(r) => WorldAct(r)
           /\ CallAction(r) => Head(turn[r]) \in Actions /\ WorldAct(r)
           /\ Thread(r) => WorldAct(r)
           /\ RunFault(r) => WorldAct(r)
BY DEF Trigger, CallAction, Thread, RunFault, WorldAct

\* The steps of a run in which its world has no part.
LoopOnly(r) == \/ TriggerBlocked(r) \/ Exhausted(r) \/ CallOther(r) \/ CallBlocked(r)
               \/ Returned(r) \/ Ask(r) \/ ConsultBlocked(r) \/ ConsultSubagent(r)
               \/ ReadOffset(r) \/ ConsultRetried(r) \/ Finish(r) \/ Escapes(r)
LEMMA LoopOnlyStays ==
    ASSUME NEW r \in Runs, LoopOnly(r) PROVE UNCHANGED world
BY DEF LoopOnly, TriggerBlocked, Exhausted, CallOther, CallBlocked, Returned, Ask,
   ConsultBlocked, ConsultSubagent, ReadOffset, ConsultRetried, Finish, Escapes

\* The steps that settle a lost race.
Settles(r) == RetryUnasked(r) \/ Escalate(r) \/ Resolve(r)
LEMMA SettlesEffect ==
    ASSUME WorldTypes, NEW r \in Runs, Settles(r)
    PROVE  /\ Acknowledge(r)
           /\ UNCHANGED <<log, snapshot, pc, call, base, outcome, done, held>>
BY DEF Settles, RetryUnasked, Escalate, Resolve, docs, local

\* A run only touches its own entries, and its own world.
LEMMA RunLocal ==
    ASSUME RTypeInv, NEW r \in Runs, RunAct(r)
    PROVE  OtherWorldsStay(r) /\ OtherRunsStay(r)
<1> USE DEF RTypeInv
<1>0. r \in Worlds
  BY RunsAreWorlds
<1>1. OtherWorldsStay(r)
  <2>1. CASE Trigger(r) \/ CallAction(r) \/ Thread(r) \/ RunFault(r)
    BY <1>0, <2>1, RunWorldActs, WorldLocal
  <2>2. CASE LoopOnly(r)
    <3>1. UNCHANGED <<pc, mem, token, call, base, outcome, done>>
      BY <2>2, LoopOnlyStays DEF world, vars, local
    <3> QED
      BY <3>1 DEF OtherWorldsStay
  <2>3. CASE Plan(r)
    <3>1. Hydrate(r) /\ UNCHANGED <<pc, call, base, outcome, done>>
      BY <2>3 DEF Plan, local
    <3> QED
      BY <1>0, <3>1, RHydrateType DEF OtherWorldsStay
  <2>4. CASE Settles(r)
    <3>1. Acknowledge(r) /\ UNCHANGED <<pc, call, base, outcome, done>>
      BY <2>4, SettlesEffect
    <3> QED
      BY <3>1 DEF Acknowledge, OtherWorldsStay, WorldTypes
  <2>5. CASE ConsultRecorded(r)
    BY <2>5 DEF ConsultRecorded, OtherWorldsStay, local
  <2> QED
    BY <2>1, <2>2, <2>3, <2>4, <2>5 DEF RunAct, RunStep, LoopOnly, Settles
<1>2. OtherRunsStay(r)
  <2> USE DEF OtherRunsStay, RunTypes, Move, Leave, Count, Answered
  <2>1. CASE Trigger(r) \/ TriggerBlocked(r) \/ Exhausted(r) \/ Escapes(r) \/ RunFault(r)
    BY <2>1 DEF Trigger, TriggerBlocked, Exhausted, Escapes, RunFault
  <2>2. CASE Plan(r)
    BY <2>2 DEF Plan
  <2>3. CASE CallOther(r) \/ CallBlocked(r) \/ Returned(r)
    BY <2>3 DEF CallOther, CallBlocked, Returned
  <2>4. CASE CallAction(r) \/ Thread(r) \/ Ask(r) \/ ReadOffset(r) \/ Finish(r)
    BY <2>4 DEF CallAction, Thread, Charge, Ask, ReadOffset, Finish
  <2>5. CASE RetryUnasked(r) \/ Escalate(r) \/ Resolve(r)
    BY <2>5 DEF RetryUnasked, Escalate, Resolve, Continue, Recover, Abandon
  <2>6. CASE \/ ConsultBlocked(r) \/ ConsultSubagent(r)
             \/ ConsultRecorded(r) \/ ConsultRetried(r)
    BY <2>6 DEF ConsultBlocked, ConsultSubagent, ConsultRecorded, ConsultRetried
  <2> QED
    BY <2>1, <2>2, <2>3, <2>4, <2>5, <2>6 DEF RunAct, RunStep
<1> QED
  BY <1>1, <1>2

\* Every step keeps World's variables in their types, and the log only grows.
LEMMA WorldTypesKept ==
    ASSUME RTypeInv, [RNext]_rvars
    PROVE  WorldTypes' /\ Len(log) \in Nat /\ Len(log') \in Nat /\ Len(log) <= Len(log')
<1> USE DEF RTypeInv
<1>0. Len(log) \in Nat
  BY DEF WorldTypes
<1>1. ASSUME UNCHANGED world PROVE WorldTypes' /\ log' = log
  BY <1>1 DEF world, vars, docs, local, WorldTypes
<1>2. ASSUME NEW w \in Worlds, WorldAct(w) PROVE WorldTypes' /\ Len(log) <= Len(log')
  BY <1>2, WorldTypesStep
<1>3. ASSUME NEW r \in Runs, Plan(r) PROVE WorldTypes' /\ log' = log
  <2>1. Hydrate(r) /\ UNCHANGED <<log, snapshot, pc, call, base, outcome, done>>
    BY <1>3 DEF Plan, docs, local
  <2>2. stage[r] = "plan" /\ pc[r] # "flush"
    BY <1>3 DEF Plan, At, Staged
  <2>3. /\ mem' \in [Worlds -> SUBSET Exec] /\ token' \in [Worlds -> Nat]
        /\ \A v \in Worlds : token'[v] <= Len(log)
        /\ \A v \in Worlds \ {r} : token'[v] = token[v]
    BY <2>1, RHydrateType, RunsAreWorlds
  <2> QED
    BY <2>1, <2>2, <2>3 DEF WorldTypes
<1>4. ASSUME NEW r \in Runs, Settles(r) PROVE WorldTypes' /\ log' = log
  <2>1. /\ Acknowledge(r)
        /\ UNCHANGED <<log, snapshot, pc, call, base, outcome, done>>
    BY <1>4, SettlesEffect
  <2>2. pc[r] # "flush"
    BY <1>4 DEF Settles, RetryUnasked, Escalate, Resolve, Lost, At, Staged
  <2>3. held[r] \in Nat /\ held[r] <= Len(log)
    BY DEF RunTypes
  <2>4. /\ mem' \in [Worlds -> SUBSET Exec] /\ token' \in [Worlds -> Nat]
        /\ \A v \in Worlds : token'[v] <= Len(log)
        /\ \A v \in Worlds \ {r} : token'[v] = token[v]
    <3>1. snapshot # NoDoc => snapshot.state \in SUBSET Exec
      BY DEF WorldTypes, Snapshot
    <3> QED
      BY <2>1, <2>3, <3>1 DEF Acknowledge, WorldTypes
  <2> QED
    BY <2>1, <2>2, <2>4 DEF WorldTypes
<1>5. ASSUME NEW r \in Runs, ConsultRecorded(r)
      PROVE  WorldTypes' /\ Len(log) <= Len(log')
  <2>1. /\ log' = Append(log, ConsultEvent(r))
        /\ UNCHANGED <<snapshot, pc, mem, token, call, base, outcome, done>>
    BY <1>5 DEF ConsultRecorded, docs, local
  <2>2. ConsultEvent(r) \in Consult
    BY <1>5 DEF ConsultRecorded, At, Staged, ConsultEvent, Consult, RunTypes, Tally
  <2>3. log' \in Seq(Exec \cup Consult) /\ Len(log') = Len(log) + 1
    BY <2>1, <2>2, LogGrows
  <2> QED
    BY <1>0, <2>1, <2>3 DEF WorldTypes
<1>6. ASSUME NEW r \in Runs, RunAct(r) PROVE WorldTypes' /\ Len(log) <= Len(log')
  <2>1. r \in Worlds
    BY RunsAreWorlds
  <2>2. CASE Trigger(r) \/ CallAction(r) \/ Thread(r) \/ RunFault(r)
    BY <1>2, <2>1, <2>2, RunWorldActs
  <2>3. CASE LoopOnly(r)
    BY <1>0, <1>1, <2>3, LoopOnlyStays
  <2> QED
    BY <1>0, <1>3, <1>4, <1>5, <1>6, <2>2, <2>3 DEF RunAct, RunStep, LoopOnly, Settles
<1>7. ASSUME NEW w \in Worlds \ Runs, DirectStep(w)
      PROVE  WorldTypes' /\ Len(log) <= Len(log')
  BY <1>2, <1>7 DEF DirectStep, WorldAct
<1>8. WorldTypes' /\ Len(log) <= Len(log')
  BY <1>0, <1>1, <1>6, <1>7 DEF RNext, RunAct, rvars
<1> QED
  BY <1>0, <1>8 DEF WorldTypes

\* What the updates of a run's counters make of them.
Counts(n, t, recovers, actions, consults) ==
    /\ n \in Tally
    /\ n.recovers = t.recovers + recovers
    /\ n.actions = t.actions + actions /\ n.consults = t.consults + consults
LEMMA CounterEffect ==
    ASSUME NEW t \in Tally
    PROVE  /\ Counts([t EXCEPT !.streak = 0], t, 0, 0, 0)
           /\ Counts([t EXCEPT !.streak = IF @ < ContinueStreakCap THEN @ + 1 ELSE @], t, 0, 0, 0)
           /\ Counts([t EXCEPT !.actions = @ + 1], t, 0, 1, 0)
           /\ Counts([t EXCEPT !.consults = @ + 1], t, 0, 0, 1)
           /\ t.turns < MaxIterations => Counts([t EXCEPT !.turns = @ + 1], t, 0, 0, 0)
           /\ t.recovers < RecoverCap => Counts([t EXCEPT !.recovers = @ + 1], t, 1, 0, 0)
           /\ t.turns \in 0..MaxIterations /\ t.recovers \in 0..RecoverCap
           /\ t.actions \in Nat /\ t.consults \in Nat
<1> USE Caps DEF Counts, Tally
<1>1. Counts([t EXCEPT !.streak = 0], t, 0, 0, 0)
  OBVIOUS
<1>2. Counts([t EXCEPT !.streak = IF @ < ContinueStreakCap THEN @ + 1 ELSE @], t, 0, 0, 0)
  OBVIOUS
<1>3. /\ Counts([t EXCEPT !.actions = @ + 1], t, 0, 1, 0)
      /\ Counts([t EXCEPT !.consults = @ + 1], t, 0, 0, 1)
  OBVIOUS
<1>4. t.turns < MaxIterations => Counts([t EXCEPT !.turns = @ + 1], t, 0, 0, 0)
  OBVIOUS
<1>5. t.recovers < RecoverCap => Counts([t EXCEPT !.recovers = @ + 1], t, 1, 0, 0)
  OBVIOUS
<1>6. /\ t.turns \in 0..MaxIterations /\ t.recovers \in 0..RecoverCap
      /\ t.actions \in Nat /\ t.consults \in Nat
  OBVIOUS
<1> QED
  BY <1>1, <1>2, <1>3, <1>4, <1>5, <1>6

LEMMA CounterType ==
    ASSUME tally \in [Runs -> Tally], NEW r \in Runs
    PROVE  /\ tally[r] \in Tally /\ tally[r].recovers \in Nat
           /\ tally[r].actions \in Nat /\ tally[r].consults \in Nat
BY Caps DEF Tally

\* The same of the counters of all runs.
TallyMoves(u, r, recovers, actions, consults) ==
    u \in [Runs -> Tally] /\ Counts(u[r], tally[r], recovers, actions, consults)
LEMMA TallyEffect ==
    ASSUME tally \in [Runs -> Tally], NEW r \in Runs, NEW u
    PROVE  /\ u = tally => TallyMoves(u, r, 0, 0, 0)
           /\ u = [tally EXCEPT ![r].streak = 0] => TallyMoves(u, r, 0, 0, 0)
           /\ u = [tally EXCEPT ![r].streak = IF @ < ContinueStreakCap THEN @ + 1 ELSE @]
                 => TallyMoves(u, r, 0, 0, 0)
           /\ u = [tally EXCEPT ![r].actions = @ + 1] => TallyMoves(u, r, 0, 1, 0)
           /\ u = [tally EXCEPT ![r].consults = @ + 1] => TallyMoves(u, r, 0, 0, 1)
           /\ u = [tally EXCEPT ![r].turns = @ + 1] /\ tally[r].turns < MaxIterations
                 => TallyMoves(u, r, 0, 0, 0)
           /\ u = [tally EXCEPT ![r].recovers = @ + 1, ![r].streak = 0]
                  /\ tally[r].recovers < RecoverCap => TallyMoves(u, r, 1, 0, 0)
           /\ u = [tally EXCEPT ![r].streak = 0, ![r].actions =
                     IF ActionLimit = NoLimit THEN @ ELSE @ + 1]
                 => TallyMoves(u, r, 0, IF ActionLimit = NoLimit THEN 0 ELSE 1, 0)
<1> DEFINE t == tally[r]
<1>1. t \in Tally
  OBVIOUS
<1>2. ASSUME NEW n \in Tally, u = [tally EXCEPT ![r] = n]
      PROVE  u \in [Runs -> Tally] /\ u[r] = n
  BY <1>2
<1>3. ASSUME NEW n, NEW a, NEW b, NEW c, Counts(n, t, a, b, c), u = [tally EXCEPT ![r] = n]
      PROVE  TallyMoves(u, r, a, b, c)
  BY <1>2, <1>3 DEF TallyMoves, Counts
<1>4. u = tally => TallyMoves(u, r, 0, 0, 0)
  BY CounterType DEF TallyMoves, Counts
<1>5. ASSUME u = [tally EXCEPT ![r].streak = 0] PROVE TallyMoves(u, r, 0, 0, 0)
  <2>1. u = [tally EXCEPT ![r] = [t EXCEPT !.streak = 0]]
    BY <1>5
  <2> QED
    BY <1>1, <1>3, <2>1, CounterEffect
<1>6. ASSUME u = [tally EXCEPT ![r].streak = IF @ < ContinueStreakCap THEN @ + 1 ELSE @]
      PROVE  TallyMoves(u, r, 0, 0, 0)
  <2>1. u = [tally EXCEPT ![r] =
               [t EXCEPT !.streak = IF @ < ContinueStreakCap THEN @ + 1 ELSE @]]
    BY <1>6
  <2> QED
    BY <1>1, <1>3, <2>1, CounterEffect
<1>7. ASSUME u = [tally EXCEPT ![r].actions = @ + 1] PROVE TallyMoves(u, r, 0, 1, 0)
  <2>1. u = [tally EXCEPT ![r] = [t EXCEPT !.actions = @ + 1]]
    BY <1>7
  <2> QED
    BY <1>1, <1>3, <2>1, CounterEffect
<1>8. ASSUME u = [tally EXCEPT ![r].consults = @ + 1] PROVE TallyMoves(u, r, 0, 0, 1)
  <2>1. u = [tally EXCEPT ![r] = [t EXCEPT !.consults = @ + 1]]
    BY <1>8
  <2> QED
    BY <1>1, <1>3, <2>1, CounterEffect
<1>9. ASSUME u = [tally EXCEPT ![r].turns = @ + 1], t.turns < MaxIterations
      PROVE  TallyMoves(u, r, 0, 0, 0)
  <2>1. u = [tally EXCEPT ![r] = [t EXCEPT !.turns = @ + 1]]
    BY <1>9
  <2> QED
    BY <1>1, <1>3, <1>9, <2>1, CounterEffect
<1>10. ASSUME u = [tally EXCEPT ![r].recovers = @ + 1, ![r].streak = 0], t.recovers < RecoverCap
       PROVE  TallyMoves(u, r, 1, 0, 0)
  <2> DEFINE n == [t EXCEPT !.recovers = @ + 1]
  <2>1. u = [tally EXCEPT ![r] = [n EXCEPT !.streak = 0]]
    BY <1>10
  <2>2. Counts(n, t, 1, 0, 0)
    BY <1>1, <1>10, CounterEffect
  <2> HIDE DEF n
  <2>3. Counts([n EXCEPT !.streak = 0], n, 0, 0, 0)
    BY <2>2, CounterEffect DEF Counts
  <2>4. Counts([n EXCEPT !.streak = 0], t, 1, 0, 0)
    BY <1>1, <2>2, <2>3, CounterEffect DEF Counts
  <2> QED
    BY <1>3, <2>1, <2>4
<1>11. ASSUME u = [tally EXCEPT ![r].streak = 0, ![r].actions =
                     IF ActionLimit = NoLimit THEN @ ELSE @ + 1]
       PROVE  TallyMoves(u, r, 0, IF ActionLimit = NoLimit THEN 0 ELSE 1, 0)
  <2> DEFINE n == [t EXCEPT !.streak = 0]
  <2>1. Counts(n, t, 0, 0, 0)
    BY <1>1, CounterEffect
  <2>2. CASE ActionLimit = NoLimit
    <3>1. u = [tally EXCEPT ![r] = n]
      BY <1>1, <1>11, <2>2 DEF Tally
    <3> QED
      BY <1>3, <2>1, <2>2, <3>1
  <2>3. CASE ActionLimit # NoLimit
    <3>1. u = [tally EXCEPT ![r] = [n EXCEPT !.actions = @ + 1]]
      BY <1>11, <2>3
    <3> HIDE DEF n
    <3>2. Counts([n EXCEPT !.actions = @ + 1], n, 0, 1, 0)
      BY <2>1, CounterEffect DEF Counts
    <3>3. Counts([n EXCEPT !.actions = @ + 1], t, 0, 1, 0)
      BY <1>1, <2>1, <3>2, CounterType DEF Counts
    <3> QED
      BY <1>3, <2>3, <3>1, <3>3
  <2> QED
    BY <2>2, <2>3
<1> QED
  BY <1>4, <1>5, <1>6, <1>7, <1>8, <1>9, <1>10, <1>11

\* Messages that a reply, a note or a plan adds, and what is left of a turn.
LEMMA MessageType ==
    /\ \A c \in Seq(Message), m \in Message : Append(c, m) \in Seq(Message)
    /\ \A n \in Nat : PlanMsg(n) \in Message
    /\ NoteMsg \in Message
    /\ \A x \in Results : Reply(x) \in Message
    /\ \A r \in Runs : outcome[r] \in Outcomes /\ call[r] \in Exec => CallReply(r) \in Message
    /\ \A e \in Consult : ConsultReply(e) \in Message
BY DEF Message, PlanMsg, NoteMsg, Reply, CallReply, ConsultReply

\* A reply keeps turn, conversation and stage in their types.
LEMMA AnsweredType ==
    ASSUME RTypeInv, NEW r \in Runs, NEW m \in Message, Answered(r, m),
           stage[r] \in {"call", "running", "recording"}
    PROVE  /\ stage' \in [Runs -> Stage] /\ turn' \in [Runs -> Seq(Tools)]
           /\ conv' \in [Runs -> Seq(Message)]
           /\ turn[r] # <<>> /\ turn'[r] = Tail(turn[r])
           /\ Len(turn[r]) \in Nat /\ Len(turn'[r]) = Len(turn[r]) - 1
           /\ conv'[r] = Append(conv[r], m)
           /\ \/ stage'[r] = "plan" /\ turn'[r] = <<>>
              \/ stage'[r] = "call" /\ turn'[r] # <<>>
<1>1. /\ turn[r] \in Seq(Tools) /\ turn[r] # <<>> /\ conv[r] \in Seq(Message)
      /\ turn \in [Runs -> Seq(Tools)] /\ conv \in [Runs -> Seq(Message)]
      /\ stage \in [Runs -> Stage]
  BY DEF RTypeInv, RunTypes, Staged
<1>2. /\ Tail(turn[r]) \in Seq(Tools) /\ Len(Tail(turn[r])) = Len(turn[r]) - 1
      /\ Len(turn[r]) \in Nat
  BY <1>1, HeadTailProperties
<1>3. Tail(turn[r]) = <<>> <=> Len(turn[r]) = 1
  <2>1. Tail(turn[r]) = <<>> <=> Len(Tail(turn[r])) = 0
    BY <1>2, EmptySeq
  <2>2. Len(Tail(turn[r])) = 0 <=> Len(turn[r]) = 1
    BY <1>2
  <2> QED
    BY <2>1, <2>2
<1>4. Append(conv[r], m) \in Seq(Message)
  BY <1>1
<1>5. stage' = [stage EXCEPT ![r] = IF Len(turn[r]) = 1 THEN "plan" ELSE "call"]
  BY DEF Answered, Move
<1> QED
  BY <1>1, <1>2, <1>3, <1>4, <1>5 DEF Answered, Stage

\* What is left of a conversation after its last plan is dropped.
LEMMA DropTurnType ==
    ASSUME NEW c \in Seq(Message), HasLastPlan(c)
    PROVE  /\ DropTurn(c) \in Seq(Message)
           /\ \E a \in Plans(c) : /\ \A j \in Plans(c) : j <= a
                                 /\ DropTurn(c) = SubSeq(c, 1, a - 1)
<1> DEFINE Last(i) == c[i].kind = "assistant" /\ \A j \in i + 1..Len(c) : c[j].kind # "assistant"
<1> DEFINE a == CHOOSE i \in 1..Len(c) : Last(i)
<1>1. PICK b \in Plans(c) : \A j \in Plans(c) : j <= b
  BY DEF HasLastPlan
<1>2. Len(c) \in Nat /\ b \in 1..Len(c) /\ Last(b)
  BY <1>1 DEF Plans
<1>3. a \in 1..Len(c) /\ Last(a)
  BY <1>2
<1>4. a \in Plans(c) /\ \A j \in Plans(c) : j <= a
  BY <1>2, <1>3 DEF Plans
<1>5. DropTurn(c) = SubSeq(c, 1, a - 1)
  BY DEF DropTurn
<1> HIDE DEF a
<1>6. SubSeq(c, 1, a - 1) \in Seq(Message)
  BY <1>2, <1>3, SubSeqProperties
<1> QED
  BY <1>4, <1>5, <1>6

With(S, k) == S \cup {k}

\* What one more message does to plans and replies.
LEMMA AppendMessage ==
    ASSUME NEW c \in Seq(Message), NEW m \in Message, NEW d, d = Append(c, m)
    PROVE  /\ d \in Seq(Message) /\ Len(c) \in Nat /\ Len(d) = Len(c) + 1
           /\ d[Len(d)] = m /\ \A i \in 1..Len(c) : d[i] = c[i]
           /\ m.kind = "assistant" => Plans(d) = With(Plans(c), Len(d))
           /\ m.kind # "assistant" => Plans(d) = Plans(c)
           /\ m.kind = "tool" => ToolReplies(d) = With(ToolReplies(c), Len(d))
           /\ m.kind # "tool" => ToolReplies(d) = ToolReplies(c)
           /\ m.kind = "assistant" => HasLastPlan(d)
           /\ m.kind # "assistant" /\ HasLastPlan(c) => HasLastPlan(d)
<1>1. /\ d \in Seq(Message) /\ Len(c) \in Nat /\ Len(d) = Len(c) + 1
      /\ d[Len(d)] = m /\ \A i \in 1..Len(c) : d[i] = c[i]
  BY AppendProperties
<1>2. 1..Len(d) = 1..Len(c) \cup {Len(d)}
  BY <1>1
<1>3. /\ m.kind = "assistant" => Plans(d) = With(Plans(c), Len(d))
      /\ m.kind # "assistant" => Plans(d) = Plans(c)
  BY <1>1, <1>2 DEF Plans, With
<1>4. /\ m.kind = "tool" => ToolReplies(d) = With(ToolReplies(c), Len(d))
      /\ m.kind # "tool" => ToolReplies(d) = ToolReplies(c)
  BY <1>1, <1>2 DEF ToolReplies, With
<1>5. m.kind = "assistant" => HasLastPlan(d)
  BY <1>1, <1>3 DEF HasLastPlan, Plans, With
<1>6. m.kind # "assistant" /\ HasLastPlan(c) => HasLastPlan(d)
  BY <1>3 DEF HasLastPlan
<1> QED
  BY <1>1, <1>3, <1>4, <1>5, <1>6

\* A plan in the conversation is still there after one more message.
LEMMA PlanStays ==
    ASSUME NEW c \in Seq(Message), NEW m \in Message,
           m.kind = "assistant" \/ HasLastPlan(c)
    PROVE  HasLastPlan(Append(c, m))
BY AppendMessage

\* A step of a run keeps the runs' variables in their types, and its stage
\* goes with the rest.
LEMMA RunTypesStep ==
    ASSUME RTypeInv, NEW r \in Runs, RunAct(r),
           Len(log) \in Nat, Len(log') \in Nat, Len(log) <= Len(log')
    PROVE  RunTypes' /\ Staged(r)'
<1> USE DEF Move, Leave, At
<1>0. /\ r \in Worlds /\ pc \in [Worlds -> Stages] /\ call[r] \in Exec
      /\ outcome[r] \in Outcomes
  BY RunsAreWorlds DEF RTypeInv, WorldTypes
<1>1. Staged(r) /\ RunTypes
  BY DEF RTypeInv
<1>2. /\ stage \in [Runs -> Stage] /\ turn \in [Runs -> Seq(Tools)]
      /\ conv \in [Runs -> Seq(Message)] /\ tally \in [Runs -> Tally]
      /\ held \in [Runs -> Nat] /\ final \in [Runs -> Endings] /\ overtaken \in BOOLEAN
      /\ \A v \in Runs : held[v] <= Len(log')
  BY DEF RTypeInv, RunTypes
<1>3. ASSUME NEW m, Answered(r, m), m \in Message, m.kind = "tool",
             stage[r] \in {"call", "running", "recording"},
             NEW n, TallyMoves(tally', r, 0, n, 0) \/ TallyMoves(tally', r, 0, 0, n),
             UNCHANGED <<pc, held, final, overtaken>>, pc[r] \in {"absent", "idle"}
      PROVE  RunTypes' /\ Staged(r)'
  <2>1. /\ stage' \in [Runs -> Stage] /\ turn' \in [Runs -> Seq(Tools)]
        /\ conv' \in [Runs -> Seq(Message)]
        /\ \/ stage'[r] = "plan" /\ turn'[r] = <<>>
           \/ stage'[r] = "call" /\ turn'[r] # <<>>
        /\ conv'[r] = Append(conv[r], m)
    BY <1>3, AnsweredType
  <2>2. HasLastPlan(conv'[r])
    <3>1. HasLastPlan(conv[r]) /\ conv[r] \in Seq(Message)
      BY <1>1, <1>2, <1>3 DEF Staged
    <3> QED
      BY <1>3, <2>1, <3>1, PlanStays
  <2>3. tally' \in [Runs -> Tally] /\ tally'[r].recovers < RecoverCap
    <3>1. tally[r].recovers < RecoverCap /\ tally[r].recovers \in Nat
      BY <1>1, <1>2, <1>3, CounterType, Caps DEF Staged
    <3> QED
      BY <1>3, <3>1 DEF TallyMoves, Counts
  <2>4. RunTypes'
    BY <1>2, <1>3, <2>1, <2>3 DEF RunTypes
  <2>5. Staged(r)'
    BY <1>3, <2>1, <2>2, <2>3 DEF Staged
  <2> QED
    BY <2>4, <2>5
<1>4. CASE Trigger(r)
  <2>1. pc'[r] = "idle"
    BY <1>0, <1>4 DEF Trigger, New, Goto
  <2>2. RunTypes'
    BY <1>2, <1>4 DEF Trigger, RunTypes, Stage
  <2>3. Staged(r)'
    BY <1>1, <1>2, <1>4, <2>1 DEF Trigger, Staged
  <2> QED
    BY <2>2, <2>3
<1>5. CASE TriggerBlocked(r) \/ Exhausted(r) \/ Finish(r) \/ Ask(r) \/ Escapes(r)
  <2>1. pc' = pc
    BY <1>5 DEF TriggerBlocked, Exhausted, Finish, Ask, Escapes, world, vars
  <2>2. RunTypes'
    BY <1>2, <1>5 DEF TriggerBlocked, Exhausted, Finish, Ask, Escapes, RunTypes,
       Stage, Endings
  <2>3. Staged(r)'
    BY <1>1, <1>2, <1>5, <2>1 DEF TriggerBlocked, Exhausted, Finish, Ask, Escapes,
       Lost, Staged
  <2> QED
    BY <2>2, <2>3
<1>6. CASE Plan(r)
  <2>1. TallyMoves(tally', r, 0, 0, 0)
    BY <1>2, <1>6, TallyEffect DEF Plan, Count
  <2>2. /\ stage[r] = "plan" /\ tally[r].recovers < RecoverCap /\ tally[r].recovers \in Nat
        /\ UNCHANGED <<pc, held, overtaken>>
    BY <1>1, <1>2, <1>6, CounterType DEF Plan, Staged
  <2>3. tally' \in [Runs -> Tally] /\ tally'[r].recovers < RecoverCap
    BY <2>1, <2>2 DEF TallyMoves, Counts
  <2>4. ASSUME Leave(r, "answer"), conv' = [conv EXCEPT ![r] = Append(@, PlanMsg(0))],
               turn' = turn
        PROVE  RunTypes' /\ Staged(r)'
    <3>1. Append(conv[r], PlanMsg(0)) \in Seq(Message)
      BY <1>2, MessageType
    <3>2. RunTypes'
      BY <1>2, <2>2, <2>3, <2>4, <3>1 DEF RunTypes, Stage, Endings
    <3>3. Staged(r)'
      BY <1>1, <1>2, <2>2, <2>4 DEF Staged
    <3> QED
      BY <3>2, <3>3
  <2>5. ASSUME NEW n \in 1..MaxTurn, NEW calls \in [1..n -> Tools],
               Move(r, "call"), turn' = [turn EXCEPT ![r] = calls],
               conv' = [conv EXCEPT ![r] = Append(@, PlanMsg(n))], final' = final
        PROVE  RunTypes' /\ Staged(r)'
    <3>1. n \in Nat /\ n # 0 /\ conv[r] \in Seq(Message)
      BY <1>2, Caps
    <3>2. PlanMsg(n) \in Message /\ PlanMsg(n).kind = "assistant"
      BY <3>1, MessageType DEF PlanMsg
    <3>3. /\ Append(conv[r], PlanMsg(n)) \in Seq(Message)
          /\ HasLastPlan(Append(conv[r], PlanMsg(n)))
      BY <3>1, <3>2, PlanStays
    <3>4. calls \in Seq(Tools) /\ calls # <<>>
      BY <3>1
    <3>5. RunTypes'
      BY <1>2, <2>2, <2>3, <2>5, <3>3, <3>4 DEF RunTypes, Stage
    <3>6. Staged(r)'
      BY <1>1, <1>2, <2>2, <2>3, <2>5, <3>3, <3>4 DEF Staged
    <3> QED
      BY <3>5, <3>6
  <2> QED
    BY <1>6, <2>4, <2>5 DEF Plan
<1>7. CASE CallOther(r) \/ CallBlocked(r) \/ ConsultBlocked(r)
  <2>1. PICK x \in {"other", "blocked"} : Answered(r, Reply(x))
    BY <1>7 DEF CallOther, CallBlocked, ConsultBlocked
  <2>2. Reply(x) \in Message /\ Reply(x).kind = "tool"
    BY MessageType DEF Results, Reply
  <2>3. /\ stage[r] = "call" /\ pc[r] \in {"absent", "idle"}
        /\ UNCHANGED <<pc, held, final, overtaken>>
    BY <1>1, <1>7 DEF CallOther, CallBlocked, ConsultBlocked, world, vars, Staged
  <2>4. \E n : TallyMoves(tally', r, 0, n, 0) \/ TallyMoves(tally', r, 0, 0, n)
    BY <1>2, <1>7, TallyEffect DEF CallOther, CallBlocked, ConsultBlocked, Count
  <2> QED
    BY <1>3, <2>1, <2>2, <2>3, <2>4
<1>8. CASE Returned(r)
  <2>1. CallReply(r) \in Message /\ CallReply(r).kind = "tool"
    BY <1>0, MessageType DEF CallReply
  <2>2. TallyMoves(tally', r, 0, 0, 0)
    BY <1>2, <1>8, TallyEffect DEF Returned
  <2> QED
    BY <1>3, <1>8, <2>1, <2>2 DEF Returned, world, vars
<1>9. CASE ConsultRecorded(r)
  <2>1. ConsultEvent(r) \in Consult
    BY <1>1, <1>2, <1>9, CounterType DEF ConsultRecorded, Staged, ConsultEvent, Consult
  <2>2. ConsultReply(ConsultEvent(r)) \in Message /\ ConsultReply(ConsultEvent(r)).kind = "tool"
    BY <2>1, MessageType DEF ConsultReply
  <2>3. TallyMoves(tally', r, 0, 0, 0)
    BY <1>2, <1>9, TallyEffect DEF ConsultRecorded
  <2>4. stage[r] = "recording" /\ pc[r] \in {"absent", "idle"}
    BY <1>1, <1>9 DEF ConsultRecorded, Staged
  <2> QED
    BY <1>3, <1>9, <2>2, <2>3, <2>4 DEF ConsultRecorded
<1>10. CASE CallAction(r) \/ ConsultSubagent(r)
  <2>1. \E n : TallyMoves(tally', r, 0, n, 0) \/ TallyMoves(tally', r, 0, 0, n)
    BY <1>2, <1>10, TallyEffect DEF CallAction, ConsultSubagent, Charge, Count
  <2>2. /\ stage[r] = "call" /\ tally[r].recovers < RecoverCap /\ tally[r].recovers \in Nat
        /\ turn[r] # <<>> /\ HasLastPlan(conv[r]) /\ pc[r] \in {"absent", "idle"}
        /\ UNCHANGED <<turn, conv, held, final, overtaken>>
    BY <1>1, <1>2, <1>10, CounterType DEF CallAction, ConsultSubagent, Staged
  <2>3. tally' \in [Runs -> Tally] /\ tally'[r].recovers < RecoverCap
    BY <2>1, <2>2 DEF TallyMoves, Counts
  <2>4. \/ stage' = [stage EXCEPT ![r] = "running"] /\ Head(turn[r]) \in Actions
        \/ /\ stage' = [stage EXCEPT ![r] = "consulting"] /\ Head(turn[r]) \in Subagents
           /\ pc' = pc
    BY <1>10 DEF CallAction, ConsultSubagent, world, vars
  <2>5. RunTypes'
    BY <1>2, <2>2, <2>3, <2>4 DEF RunTypes, Stage
  <2>6. Staged(r)'
    BY <1>2, <2>2, <2>3, <2>4 DEF Staged
  <2> QED
    BY <2>5, <2>6
<1>11. CASE Thread(r)
  <2>1. /\ stage[r] = "running"
        /\ UNCHANGED <<stage, turn, conv, tally, final, overtaken>>
        /\ held' = [held EXCEPT ![r] = IF pc'[r] = "discard" THEN Len(log) ELSE @]
    BY <1>11 DEF Thread
  <2>2. held' \in [Runs -> Nat] /\ \A v \in Runs : held'[v] <= Len(log')
    BY <1>2, <2>1
  <2>3. RunTypes'
    BY <1>2, <2>1, <2>2 DEF RunTypes
  <2>4. Staged(r)'
    BY <1>1, <2>1 DEF Staged
  <2> QED
    BY <2>3, <2>4
<1>12. CASE Settles(r)
  <2>1. /\ pc' = pc /\ held' = held /\ pc[r] \in {"absent", "idle"}
        /\ stage[r] \in {"running", "resolving"} /\ overtaken' \in BOOLEAN
    BY <1>1, <1>2, <1>12 DEF Settles, RetryUnasked, Escalate, Resolve, Lost, Staged, Acknowledge
  <2>2. /\ tally[r].recovers < RecoverCap /\ tally[r].recovers \in Nat
        /\ turn[r] # <<>> /\ HasLastPlan(conv[r])
    BY <1>1, <1>2, <2>1, CounterType DEF Staged
  <2>3. ASSUME Continue(r) PROVE RunTypes' /\ Staged(r)'
    <3>1. TallyMoves(tally', r, 0, 0, 0)
      BY <1>2, <2>3, TallyEffect DEF Continue
    <3>2. tally' \in [Runs -> Tally] /\ tally'[r].recovers < RecoverCap
      BY <2>2, <3>1 DEF TallyMoves, Counts
    <3>3. RunTypes'
      BY <1>2, <2>1, <2>3, <3>2 DEF Continue, RunTypes, Stage
    <3>4. Staged(r)'
      BY <1>2, <2>1, <2>2, <2>3, <3>2 DEF Continue, Staged
    <3> QED
      BY <3>3, <3>4
  <2>4. ASSUME Recover(r) PROVE RunTypes' /\ Staged(r)'
    <3>1. TallyMoves(tally', r, 1, 0, 0)
      BY <1>2, <2>2, <2>4, TallyEffect DEF Recover
    <3>2. tally' \in [Runs -> Tally] /\ tally'[r].recovers = tally[r].recovers + 1
      BY <2>2, <3>1 DEF TallyMoves, Counts
    <3>3. <<>> \in Seq(Tools) /\ Append(DropTurn(conv[r]), NoteMsg) \in Seq(Message)
      BY <1>2, <2>2, DropTurnType, MessageType
    <3>4. /\ turn' = [turn EXCEPT ![r] = <<>>]
          /\ \/ Leave(r, "abandoned") /\ conv' = conv
             \/ /\ tally[r].recovers + 1 < RecoverCap
                /\ Move(r, "plan")
                /\ conv' = [conv EXCEPT ![r] = Append(DropTurn(@), NoteMsg)]
                /\ final' = final
      BY <2>2, <2>4, Caps DEF Recover
    <3>5. RunTypes'
      BY <1>2, <2>1, <3>2, <3>3, <3>4 DEF RunTypes, Stage, Endings
    <3>6. Staged(r)'
      BY <1>2, <2>1, <3>2, <3>4 DEF Staged
    <3> QED
      BY <3>5, <3>6
  <2>5. ASSUME Abandon(r) PROVE RunTypes' /\ Staged(r)'
    <3>1. RunTypes'
      BY <1>2, <2>1, <2>5 DEF Abandon, RunTypes, Stage, Endings
    <3>2. Staged(r)'
      BY <1>2, <2>1, <2>5 DEF Abandon, Staged
    <3> QED
      BY <3>1, <3>2
  <2> QED
    BY <1>12, <2>3, <2>4, <2>5 DEF Settles, RetryUnasked, Escalate, Resolve
<1>13. CASE ReadOffset(r) \/ ConsultRetried(r)
  <2>1. pc' = pc /\ stage[r] \in {"consulting", "recording"}
    BY <1>13 DEF ReadOffset, ConsultRetried, world, vars
  <2>2. held' \in [Runs -> Nat] /\ \A v \in Runs : held'[v] <= Len(log')
    BY <1>2, <1>13 DEF ReadOffset, ConsultRetried
  <2>3. RunTypes'
    BY <1>2, <1>13, <2>2 DEF ReadOffset, ConsultRetried, RunTypes, Stage
  <2>4. Staged(r)'
    BY <1>1, <1>2, <1>13, <2>1 DEF ReadOffset, ConsultRetried, Staged
  <2> QED
    BY <2>3, <2>4
<1>14. CASE RunFault(r)
  <2>1. pc'[r] \in {"absent", "idle"}
    BY <1>0, <1>14 DEF RunFault, WriteFails, Crash
  <2>2. RunTypes'
    BY <1>2, <1>14 DEF RunFault, RunTypes, Stage
  <2>3. Staged(r)'
    BY <1>1, <1>2, <1>14, <2>1 DEF RunFault, Staged
  <2> QED
    BY <2>2, <2>3
<1> QED
  BY <1>4, <1>5, <1>6, <1>7, <1>8, <1>9, <1>10, <1>11, <1>12, <1>13, <1>14
     DEF RunAct, RunStep, Settles

\* Every step keeps every variable in its type.
LEMMA RTypeStep ==
    ASSUME RTypeInv, [RNext]_rvars PROVE RTypeInv'
<1> USE DEF RTypeInv
<1>1. WorldTypes' /\ Len(log) \in Nat /\ Len(log') \in Nat /\ Len(log) <= Len(log')
  BY WorldTypesKept
<1>2. ASSUME UNCHANGED run, \A v \in Runs : pc'[v] = pc[v]
      PROVE  RunTypes' /\ \A v \in Runs : Staged(v)'
  <2>1. RunTypes'
    BY <1>1, <1>2 DEF run, RunTypes
  <2>2. \A v \in Runs : Staged(v)'
    BY <1>2 DEF run, Staged
  <2> QED
    BY <2>1, <2>2
<1>3. CASE UNCHANGED rvars
  BY <1>1, <1>2, <1>3 DEF rvars, world, vars
<1>4. ASSUME NEW r \in Runs, RunAct(r) PROVE RTypeInv'
  <2>1. RunTypes' /\ Staged(r)'
    BY <1>1, <1>4, RunTypesStep
  <2>2. OtherWorldsStay(r) /\ OtherRunsStay(r)
    BY <1>4, RunLocal
  <2>3. ASSUME NEW v \in Runs, v # r PROVE Staged(v)'
    BY <2>2, <2>3, RunsAreWorlds DEF OtherWorldsStay, OtherRunsStay, Staged
  <2> QED
    BY <1>1, <2>1, <2>3
<1>5. ASSUME NEW w \in Worlds \ Runs, DirectStep(w) PROVE RTypeInv'
  <2>1. UNCHANGED run /\ WorldAct(w)
    BY <1>5 DEF DirectStep, WorldAct
  <2>2. \A v \in Runs : pc'[v] = pc[v]
    BY <2>1, WorldLocal, RunsAreWorlds DEF OtherWorldsStay
  <2> QED
    BY <1>1, <1>2, <2>1, <2>2
<1> QED
  BY <1>3, <1>4, <1>5 DEF RNext, RunAct

\* The initial state has the types.
LEMMA RTypeInit == RInit => RTypeInv
<1> SUFFICES ASSUME RInit PROVE RTypeInv
  OBVIOUS
<1>1. /\ Seeds \in Seq(Exec) /\ Len(Seeds) \in Nat
      /\ \A i \in 1..Len(Seeds) : Seeds[i] \in Exec
      /\ Seeds # <<>> => Len(Seeds) \in 1..Len(Seeds)
  BY SeedsOK, ElementOfSeq, EmptySeq
<1>2. Seeds \in Seq(Exec \cup Consult)
  BY <1>1
<1>3. {Seeds[i] : i \in 1..Len(Seeds)} \in SUBSET Exec
  BY <1>1
<1>4. snapshot # NoDoc => snapshot \in Snapshot /\ snapshot.last_offset \in 1..Len(log)
  BY <1>1, <1>3 DEF RInit, Init, Snapshot
<1>5. \A w \in Worlds : NoCall(w) \in Exec
  <2>1. (CHOOSE a \in Actions : TRUE) \in Actions
    BY ActionSets
  <2> QED
    BY <2>1, Bounds DEF NoCall, Exec
<1>6. call \in [Worlds -> Exec]
  BY <1>5 DEF RInit, Init
<1>7. /\ pc = [w \in Worlds |-> "absent"] /\ mem = [w \in Worlds |-> {}]
      /\ token = [w \in Worlds |-> 0] /\ base = [w \in Worlds |-> 0]
      /\ outcome = [w \in Worlds |-> "none"] /\ done = [w \in Worlds |-> 0]
      /\ log = Seeds
  BY DEF RInit, Init
<1>8. WorldTypes
  BY <1>1, <1>2, <1>4, <1>6, <1>7, Bounds DEF WorldTypes, Stages, Outcomes
<1>9. tally \in [Runs -> Tally]
  BY Caps DEF RInit, Tally
<1>10. <<>> \in Seq(Tools) /\ <<>> \in Seq(Message)
  OBVIOUS
<1>11. RunTypes
  <2>1. /\ stage = [r \in Runs |-> "off"] /\ turn = [r \in Runs |-> <<>>]
        /\ conv = [r \in Runs |-> <<>>] /\ held = [r \in Runs |-> 0]
        /\ final = [r \in Runs |-> "none"] /\ overtaken = FALSE
    BY DEF RInit
  <2>2. turn \in [Runs -> Seq(Tools)] /\ conv \in [Runs -> Seq(Message)]
    BY <1>10, <2>1
  <2>3. stage \in [Runs -> Stage] /\ final \in [Runs -> Endings] /\ overtaken \in BOOLEAN
    BY <2>1 DEF Stage, Endings
  <2>4. held \in [Runs -> Nat] /\ \A r \in Runs : held[r] <= Len(log)
    BY <1>1, <1>7, <2>1
  <2> QED
    BY <1>9, <2>2, <2>3, <2>4 DEF RunTypes
<1>12. ASSUME NEW r \in Runs PROVE Staged(r)
  <2>1. stage[r] = "off" /\ turn[r] = <<>> /\ conv[r] = <<>> /\ tally[r].recovers = 0
    BY DEF RInit
  <2>2. pc[r] = "absent"
    BY <1>7, RunsAreWorlds
  <2> QED
    BY <2>1, <2>2, Caps DEF Staged
<1> QED
  BY <1>8, <1>11, <1>12 DEF RTypeInv

\* Every variable of the runtime model keeps its type in every behaviour.
THEOREM RTypeCorrect == RSpec => []RTypeOK
<1>1. RTypeInv => RTypeOK
  BY CounterEffect DEF RTypeInv, WorldTypes, RunTypes, RTypeOK, Snapshot, Tally, Endings
<1>2. RTypeInv /\ [RNext]_rvars => RTypeInv'
  BY RTypeStep
<1> QED
  BY <1>1, <1>2, RTypeInit, PTL DEF RSpec

-----------------------------------------------------------------------------
(* Budgets: what was charged covers what was committed and what still may. *)

\* The call under way may still commit; it has been charged.
Committing(r) == stage[r] = "running" /\ pc[r] \in {"catchUp", "body", "append"}
Charged(r) ==
    /\ ActionLimit # NoLimit =>
          /\ tally[r].actions <= ActionLimit
          /\ Cardinality(EventsOf(r, Actions)) + (IF Committing(r) THEN 1 ELSE 0)
                <= tally[r].actions
    /\ SubagentLimit # NoLimit => tally[r].consults <= SubagentLimit
    /\ Cardinality(EventsOf(r, Subagents))
          + (IF stage[r] \in {"consulting", "recording"} THEN 1 ELSE 0)
          <= tally[r].consults
BudgetInv == RTypeInv /\ \A r \in Runs : Charged(r)

\* The log only grows by an event of whoever takes the step.
LEMMA RunLog ==
    ASSUME RTypeInv, NEW r \in Runs, RunAct(r)
    PROVE  \/ log' = log
           \/ Thread(r) /\ AppendWins(r)
           \/ ConsultRecorded(r)
<1>1. WorldAct(r) => log' = log \/ AppendWins(r)
  BY DEF WorldAct, Step, New, Enter, CatchUp, NotAvailable, Body, BodyRaises, Rollback,
     AppendLoses, Discard, Flush, WriteSummary, ReadAudit, WriteAudit, ReadActivity,
     WriteActivity, WriteFails, Crash
<1>2. CASE Thread(r)
  BY <1>1, <1>2, RunWorldActs
<1>3. CASE Trigger(r) \/ CallAction(r) \/ RunFault(r)
  BY <1>3 DEF Trigger, New, CallAction, Enter, RunFault, WriteFails, Crash
<1>4. CASE LoopOnly(r) \/ Settles(r) \/ Plan(r)
  BY <1>4, LoopOnlyStays, SettlesEffect DEF RTypeInv, Plan, world, vars
<1> QED
  BY <1>2, <1>3, <1>4 DEF RunAct, RunStep, LoopOnly, Settles

LEMMA DirectLog ==
    ASSUME NEW w \in Worlds \ Runs, DirectStep(w)
    PROVE  UNCHANGED run /\ WorldAct(w) /\ (log' = log \/ AppendWins(w))
BY DEF DirectStep, WorldAct, Step, New, Enter, CatchUp, NotAvailable, Body, BodyRaises,
   Rollback, AppendLoses, Discard, Flush, WriteSummary, ReadAudit, WriteAudit,
   ReadActivity, WriteActivity, WriteFails, Crash

\* What an append appends: the actor's own action, or its consult.
LEMMA Appended ==
    ASSUME RTypeInv, NEW w \in Worlds
    PROVE  /\ AppendWins(w) => /\ log' = Append(log, call[w]) /\ call[w] \in Exec
                               /\ call[w].by = w /\ call[w].nth = done[w] + 1
                               /\ call[w].action \in Actions \ Subagents
           /\ w \in Runs /\ ConsultRecorded(w) =>
                               /\ log' = Append(log, ConsultEvent(w))
                               /\ ConsultEvent(w) \in Consult /\ ConsultEvent(w).by = w
                               /\ ConsultEvent(w).action \in Subagents \ Actions
<1>1. ASSUME AppendWins(w)
      PROVE  /\ log' = Append(log, call[w]) /\ call[w] \in Exec
             /\ call[w].by = w /\ call[w].nth = done[w] + 1
             /\ call[w].action \in Actions \ Subagents
  BY <1>1, ToolsApart DEF AppendWins, Goto, RTypeInv, WorldTypes, Exec
<1>2. ASSUME w \in Runs, ConsultRecorded(w)
      PROVE  /\ log' = Append(log, ConsultEvent(w))
             /\ ConsultEvent(w) \in Consult /\ ConsultEvent(w).by = w
             /\ ConsultEvent(w).action \in Subagents \ Actions
  BY <1>2, ToolsApart, CounterType
     DEF ConsultRecorded, At, RTypeInv, RunTypes, Staged, ConsultEvent, Consult
<1> QED
  BY <1>1, <1>2

\* The events of a run, counted, after one more event.
LEMMA EventsCounted ==
    ASSUME RTypeInv, NEW r \in Runs, NEW names
    PROVE  IsFiniteSet(EventsOf(r, names)) /\ Cardinality(EventsOf(r, names)) \in Nat
<1>1. Len(log) \in Nat
  BY DEF RTypeInv, WorldTypes
<1>2. IsFiniteSet(1..Len(log))
  BY <1>1, FS_Interval
<1>3. EventsOf(r, names) \subseteq 1..Len(log)
  BY DEF EventsOf
<1> QED
  BY <1>2, <1>3, FS_Subset, FS_CardinalityType

LEMMA EventsGrow ==
    ASSUME RTypeInv, NEW r \in Runs, NEW names, NEW e \in Exec \cup Consult,
           log' = Append(log, e)
    PROVE  /\ e.by # r \/ e.action \notin names =>
                Cardinality(EventsOf(r, names)') = Cardinality(EventsOf(r, names))
           /\ Cardinality(EventsOf(r, names)') \in Nat
           /\ Cardinality(EventsOf(r, names)') <= Cardinality(EventsOf(r, names)) + 1
<1>1. /\ Len(log) \in Nat /\ Len(log') = Len(log) + 1 /\ log'[Len(log')] = e
      /\ \A i \in 1..Len(log) : log'[i] = log[i]
  BY LogGrows DEF RTypeInv
<1>2. 1..Len(log') = 1..Len(log) \cup {Len(log')} /\ Len(log') \notin 1..Len(log)
  BY <1>1
<1>3. \/ EventsOf(r, names)' = EventsOf(r, names)
      \/ /\ EventsOf(r, names)' = EventsOf(r, names) \cup {Len(log')}
         /\ Len(log') \notin EventsOf(r, names)
         /\ e.by = r /\ e.action \in names
  BY <1>1, <1>2 DEF EventsOf
<1>4. IsFiniteSet(EventsOf(r, names)) /\ Cardinality(EventsOf(r, names)) \in Nat
  BY EventsCounted
<1> DEFINE old == EventsOf(r, names)
           new == EventsOf(r, names)'
<1> HIDE DEF old, new
<1>5. new = old \/ (new = old \cup {Len(log')} /\ Len(log') \notin old)
  BY <1>3 DEF old, new
<1>6. new = old \/ Cardinality(new) = Cardinality(old) + 1
  BY <1>4, <1>5, FS_AddElement DEF old
<1>7. Cardinality(old) \in Nat
  BY <1>4 DEF old
<1>8. e.by # r \/ e.action \notin names => new = old
  BY <1>3 DEF old, new
<1>9. Cardinality(new) \in Nat /\ Cardinality(new) <= Cardinality(old) + 1
  BY <1>6, <1>7
<1> QED
  BY <1>8, <1>9 DEF old, new

\* A step that leaves the log alone charges before it lets anything commit.
LEMMA ChargedBefore ==
    ASSUME BudgetInv, NEW r \in Runs, log' = log,
           NEW x, NEW a \in Nat, NEW c \in Nat, TallyMoves(tally', r, x, a, c),
           Committing(r)' => Committing(r) \/ a > 0 \/ ActionLimit = NoLimit,
           stage'[r] \in {"consulting", "recording"} =>
              stage[r] \in {"consulting", "recording"} \/ c > 0,
           a > 0 => a = 1 /\ WithinLimit(tally[r].actions, ActionLimit),
           c > 0 => c = 1 /\ WithinLimit(tally[r].consults, SubagentLimit)
    PROVE  Charged(r)'
<1>1. /\ tally[r].actions \in Nat /\ tally[r].consults \in Nat
      /\ tally'[r].actions = tally[r].actions + a
      /\ tally'[r].consults = tally[r].consults + c
  BY CounterType DEF BudgetInv, RTypeInv, RunTypes, TallyMoves, Counts
<1>2. /\ EventsOf(r, Actions)' = EventsOf(r, Actions)
      /\ EventsOf(r, Subagents)' = EventsOf(r, Subagents)
  BY DEF EventsOf
<1>3. Cardinality(EventsOf(r, Actions)) \in Nat /\ Cardinality(EventsOf(r, Subagents)) \in Nat
  BY EventsCounted DEF BudgetInv
<1>4. /\ ActionLimit # NoLimit => ActionLimit \in Nat
      /\ SubagentLimit # NoLimit => SubagentLimit \in Nat
  BY Caps DEF Limits
<1>5. Charged(r)
  BY DEF BudgetInv
<1>6. ActionLimit # NoLimit =>
        /\ tally'[r].actions <= ActionLimit
        /\ Cardinality(EventsOf(r, Actions)) + (IF Committing(r)' THEN 1 ELSE 0)
              <= tally'[r].actions
  BY <1>1, <1>3, <1>4, <1>5 DEF Charged, WithinLimit
<1>7. SubagentLimit # NoLimit => tally'[r].consults <= SubagentLimit
  BY <1>1, <1>4, <1>5 DEF Charged, WithinLimit
<1>8. Cardinality(EventsOf(r, Subagents))
        + (IF stage'[r] \in {"consulting", "recording"} THEN 1 ELSE 0) <= tally'[r].consults
  BY <1>1, <1>3, <1>5 DEF Charged
<1> QED
  BY <1>2, <1>6, <1>7, <1>8 DEF Charged

\* The world of a run only gets ready to commit after the call was paid for.
LEMMA CommittingStays ==
    ASSUME NEW r \in Runs, pc \in [Worlds -> Stages], r \in Worlds, Step(r),
           pc'[r] \in {"catchUp", "body", "append"}
    PROVE  pc[r] \in {"catchUp", "body", "append"}
BY DEF Step, CatchUp, NotAvailable, Body, BodyRaises, Rollback, AppendWins, AppendLoses,
   Discard, Flush, WriteSummary, ReadAudit, WriteAudit, ReadActivity, WriteActivity, Goto

\* A step of a run keeps what it was charged ahead of what it commits.
LEMMA ChargedStep ==
    ASSUME BudgetInv, NEW r \in Runs, RunAct(r) PROVE Charged(r)'
<1> USE DEF At, Move, Leave
<1>0. /\ RTypeInv /\ r \in Worlds /\ pc \in [Worlds -> Stages] /\ stage \in [Runs -> Stage]
      /\ tally \in [Runs -> Tally] /\ Staged(r) /\ Charged(r)
      /\ 0 \in Nat /\ 1 \in Nat
  BY RunsAreWorlds DEF BudgetInv, RTypeInv, WorldTypes, RunTypes
<1>1. ASSUME log' = log, \/ tally' = tally
                         \/ TallyMoves(tally', r, 0, 0, 0) \/ TallyMoves(tally', r, 1, 0, 0),
             Committing(r)' => Committing(r),
             stage'[r] \in {"consulting", "recording"} =>
                stage[r] \in {"consulting", "recording"}
      PROVE  Charged(r)'
  <2>1. \E x : TallyMoves(tally', r, x, 0, 0)
    BY <1>0, <1>1, TallyEffect
  <2> QED
    BY <1>0, <1>1, <2>1, ChargedBefore
<1>2. CASE Trigger(r)
  <2>1. log' = log /\ tally' = tally /\ stage'[r] = "plan"
    BY <1>0, <1>2 DEF Trigger, New
  <2> QED
    BY <1>0, <1>1, <2>1 DEF Committing
<1>3. CASE TriggerBlocked(r) \/ Exhausted(r) \/ Escapes(r) \/ Finish(r) \/ Ask(r)
           \/ ReadOffset(r) \/ ConsultRetried(r)
  <2>1. log' = log /\ tally' = tally
    BY <1>3 DEF TriggerBlocked, Exhausted, Escapes, Finish, Ask, ReadOffset, ConsultRetried,
       world, vars
  <2>2. /\ stage'[r] \in {"complete", "ending", "resolving", "recording", "consulting"}
        /\ stage'[r] \in {"recording", "consulting"} =>
              stage[r] \in {"consulting", "recording"}
    BY <1>0, <1>3 DEF TriggerBlocked, Exhausted, Escapes, Finish, Ask, ReadOffset, ConsultRetried
  <2> QED
    BY <1>0, <1>1, <2>1, <2>2 DEF Committing
<1>4. CASE Plan(r)
  <2>1. TallyMoves(tally', r, 0, 0, 0)
    BY <1>0, <1>4, TallyEffect DEF Plan, Count
  <2>2. log' = log /\ stage'[r] \in {"ending", "call"}
    BY <1>0, <1>4 DEF Plan
  <2> QED
    BY <1>1, <2>1, <2>2 DEF Committing
<1>5. CASE CallOther(r) \/ Returned(r)
  <2>1. TallyMoves(tally', r, 0, 0, 0)
    BY <1>0, <1>5, TallyEffect DEF CallOther, Returned
  <2>2. log' = log /\ stage'[r] \in {"plan", "call"}
    BY <1>0, <1>5 DEF CallOther, Returned, Answered, world, vars
  <2> QED
    BY <1>1, <2>1, <2>2 DEF Committing
<1>6. CASE CallBlocked(r)
  <2>1. log' = log /\ stage'[r] \in {"plan", "call"}
    BY <1>0, <1>6 DEF CallBlocked, Answered, world, vars
  <2>2. CASE tally' = [tally EXCEPT ![r].streak = 0]
    <3>1. TallyMoves(tally', r, 0, 0, 0)
      BY <1>0, <2>2, TallyEffect
    <3> QED
      BY <1>1, <2>1, <3>1 DEF Committing
  <2>3. CASE /\ WithinLimit(tally[r].actions, ActionLimit)
             /\ tally' = [tally EXCEPT ![r].streak = 0, ![r].actions =
                            IF ActionLimit = NoLimit THEN @ ELSE @ + 1]
    <3>1. TallyMoves(tally', r, 0, IF ActionLimit = NoLimit THEN 0 ELSE 1, 0)
      BY <1>0, <2>3, TallyEffect
    <3>2. ~ Committing(r)' /\ stage'[r] \notin {"consulting", "recording"}
      BY <2>1 DEF Committing
    <3>3. CASE TallyMoves(tally', r, 0, 0, 0)
      BY <1>1, <2>1, <3>2, <3>3
    <3>4. CASE TallyMoves(tally', r, 0, 1, 0)
      <4>1. BudgetInv /\ log' = log /\ WithinLimit(tally[r].actions, ActionLimit)
        BY <2>1, <2>3
      <4> QED
        BY <1>0, <3>2, <3>4, <4>1, ChargedBefore
    <3> QED
      BY <3>1, <3>3, <3>4
  <2> QED
    BY <1>6, <2>2, <2>3 DEF CallBlocked
<1>7. CASE CallAction(r)
  <2>1. log' = log /\ stage'[r] = "running" /\ WithinLimit(tally[r].actions, ActionLimit)
    BY <1>0, <1>7 DEF CallAction, Enter
  <2>2. \/ ActionLimit = NoLimit /\ TallyMoves(tally', r, 0, 0, 0)
        \/ TallyMoves(tally', r, 0, 1, 0)
    BY <1>0, <1>7, TallyEffect DEF CallAction, Charge, Count
  <2> QED
    BY <1>0, <2>1, <2>2, ChargedBefore
<1>8. CASE Thread(r)
  <2>1. stage[r] = "running" /\ stage' = stage /\ tally' = tally /\ Step(r)
    BY <1>8 DEF Thread
  <2>2. CASE log' = log
    <3>1. Committing(r)' => Committing(r)
      BY <1>0, <2>1, CommittingStays DEF Committing
    <3> QED
      BY <1>0, <1>1, <2>1, <2>2, <3>1
  <2>3. CASE AppendWins(r)
    <3>1. /\ call[r] \in Exec /\ log' = Append(log, call[r]) /\ call[r].action \notin Subagents
      BY <1>0, <2>3, Appended
    <3>2. /\ Cardinality(EventsOf(r, Subagents)') = Cardinality(EventsOf(r, Subagents))
          /\ Cardinality(EventsOf(r, Actions)') <= Cardinality(EventsOf(r, Actions)) + 1
      BY <1>0, <3>1, EventsGrow
    <3>3. Committing(r) /\ ~ Committing(r)'
      BY <1>0, <2>1, <2>3 DEF Committing, AppendWins, Goto
    <3>4. /\ Cardinality(EventsOf(r, Actions)) \in Nat
          /\ Cardinality(EventsOf(r, Actions)') \in Nat
          /\ tally[r].actions \in Nat
      BY <1>0, <3>1, EventsGrow, EventsCounted, CounterType
    <3> QED
      BY <1>0, <2>1, <3>2, <3>3, <3>4 DEF Charged
  <2> QED
    BY <1>0, <1>8, <2>2, <2>3, RunLog DEF RunAct, RunStep, Thread, ConsultRecorded
<1>9. CASE Settles(r)
  <2>1. log' = log
    BY <1>0, <1>9, SettlesEffect DEF RTypeInv
  <2>2. /\ stage[r] \in {"running", "resolving"}
        /\ Continue(r) \/ Recover(r) \/ Abandon(r)
    BY <1>9 DEF Settles, RetryUnasked, Escalate, Resolve, Lost
  <2>3. stage'[r] \in {"call", "plan", "ending"}
    BY <1>0, <2>2 DEF Continue, Recover, Abandon
  <2>4. /\ \/ TallyMoves(tally', r, 0, 0, 0) \/ TallyMoves(tally', r, 1, 0, 0)
        /\ tally' \in [Runs -> Tally]
    <3>1. tally[r].recovers < RecoverCap
      BY <1>0, <2>2 DEF Staged
    <3> QED
      BY <1>0, <2>2, <3>1, TallyEffect DEF Continue, Recover, Abandon, TallyMoves
  <2> QED
    BY <1>1, <2>1, <2>3, <2>4 DEF Committing
<1>10. CASE ConsultBlocked(r) \/ ConsultSubagent(r)
  <2>1. log' = log /\ stage[r] = "call" /\ stage'[r] \in {"plan", "call", "consulting"}
    BY <1>0, <1>10 DEF ConsultBlocked, ConsultSubagent, Answered, world, vars
  <2>2. \/ TallyMoves(tally', r, 0, 0, 0) /\ stage'[r] # "consulting"
        \/ /\ TallyMoves(tally', r, 0, 0, 1)
           /\ WithinLimit(tally[r].consults, SubagentLimit)
    BY <1>0, <1>10, TallyEffect DEF ConsultBlocked, ConsultSubagent, Count, Answered
  <2>3. ~ Committing(r)'
    BY <2>1 DEF Committing
  <2> QED
    BY <1>0, <2>1, <2>2, <2>3, ChargedBefore
<1>11. CASE ConsultRecorded(r)
  <2>1. /\ stage[r] = "recording" /\ stage'[r] \in {"plan", "call"} /\ tally' = tally
    BY <1>0, <1>11 DEF ConsultRecorded, Answered
  <2>2. /\ ConsultEvent(r) \in Consult /\ log' = Append(log, ConsultEvent(r))
        /\ ConsultEvent(r).action \notin Actions
    BY <1>0, <1>11, Appended
  <2>3. /\ Cardinality(EventsOf(r, Actions)') = Cardinality(EventsOf(r, Actions))
        /\ Cardinality(EventsOf(r, Subagents)') <= Cardinality(EventsOf(r, Subagents)) + 1
    BY <1>0, <2>2, EventsGrow
  <2>4. /\ Cardinality(EventsOf(r, Subagents)) \in Nat
        /\ Cardinality(EventsOf(r, Subagents)') \in Nat
        /\ Cardinality(EventsOf(r, Actions)) \in Nat
        /\ tally[r].actions \in Nat /\ tally[r].consults \in Nat
    BY <1>0, <2>2, EventsGrow, EventsCounted, CounterType
  <2> QED
    BY <1>0, <2>1, <2>3, <2>4 DEF Charged, Committing
<1>12. CASE RunFault(r)
  <2>1. log' = log /\ tally' = tally /\ pc'[r] \in {"idle", "absent"}
    BY <1>0, <1>12 DEF RunFault, WriteFails, Crash
  <2>2. stage'[r] = stage[r] \/ stage'[r] = "dead"
    BY <1>0, <1>12 DEF RunFault
  <2> QED
    BY <1>0, <1>1, <2>1, <2>2 DEF Committing
<1> QED
  BY <1>2, <1>3, <1>4, <1>5, <1>6, <1>7, <1>8, <1>9, <1>10, <1>11, <1>12
     DEF RunAct, RunStep, Settles

\* Every step keeps every run's charges ahead of its commits.
LEMMA BudgetStep ==
    ASSUME BudgetInv, [RNext]_rvars PROVE BudgetInv'
<1>0. /\ RTypeInv /\ RTypeInv' /\ RunTypes /\ tally \in [Runs -> Tally]
      /\ \A r \in Runs : Charged(r)
  BY RTypeStep DEF BudgetInv, RTypeInv, RunTypes
\* A run that takes no part in the step.
<1>1. ASSUME NEW v \in Runs, stage'[v] = stage[v], tally'[v] = tally[v], pc'[v] = pc[v],
             \/ log' = log
             \/ \E e \in Exec \cup Consult : log' = Append(log, e) /\ e.by # v
      PROVE  Charged(v)'
  <2>1. /\ Cardinality(EventsOf(v, Actions)') = Cardinality(EventsOf(v, Actions))
        /\ Cardinality(EventsOf(v, Subagents)') = Cardinality(EventsOf(v, Subagents))
    <3>1. CASE log' = log
      BY <3>1 DEF EventsOf
    <3>2. CASE log' # log
      BY <1>0, <1>1, <3>2, EventsGrow
    <3> QED
      BY <3>1, <3>2
  <2> QED
    BY <1>0, <1>1, <2>1 DEF Charged, Committing
<1>2. CASE UNCHANGED rvars
  BY <1>0, <1>1, <1>2 DEF BudgetInv, rvars, world, vars, run
<1>3. ASSUME NEW r \in Runs, RunAct(r) PROVE \A v \in Runs : Charged(v)'
  <2>1. OtherWorldsStay(r) /\ OtherRunsStay(r) /\ r \in Worlds
    BY <1>0, <1>3, RunLocal, RunsAreWorlds
  <2>2. \/ log' = log
        \/ \E e \in Exec \cup Consult : log' = Append(log, e) /\ e.by = r
    BY <1>0, <1>3, <2>1, RunLog, Appended
  <2>3. ASSUME NEW v \in Runs, v # r PROVE Charged(v)'
    BY <1>1, <2>1, <2>2, <2>3, RunsAreWorlds DEF OtherWorldsStay, OtherRunsStay
  <2> QED
    BY <1>3, <2>3, ChargedStep
<1>4. ASSUME NEW w \in Worlds \ Runs, DirectStep(w) PROVE \A v \in Runs : Charged(v)'
  <2>1. UNCHANGED run /\ WorldAct(w) /\ (log' = log \/ AppendWins(w))
    BY <1>4, DirectLog
  <2>2. OtherWorldsStay(w)
    BY <1>0, <2>1, WorldLocal DEF RTypeInv
  <2>3. \/ log' = log
        \/ \E e \in Exec \cup Consult : log' = Append(log, e) /\ e.by = w
    BY <1>0, <2>1, Appended
  <2> QED
    BY <1>1, <2>1, <2>2, <2>3, RunsAreWorlds DEF run, OtherWorldsStay
<1> QED
  BY <1>0, <1>2, <1>3, <1>4 DEF BudgetInv, RNext, RunAct

\* Nothing is charged, and only the seeds are in the log, when it all begins.
LEMMA BudgetInit == RInit => BudgetInv
<1> SUFFICES ASSUME RInit PROVE BudgetInv
  OBVIOUS
<1>1. RTypeInv
  BY RTypeInit
<1>2. /\ log = Seeds /\ stage = [r \in Runs |-> "off"]
      /\ \A r \in Runs : tally[r].actions = 0 /\ tally[r].consults = 0
  BY DEF RInit, Init
<1>3. ASSUME NEW r \in Runs, NEW names PROVE EventsOf(r, names) = {}
  BY <1>2, SeedsOK DEF EventsOf
<1>4. Cardinality({}) = 0
  BY FS_EmptySet
<1>5. /\ ActionLimit # NoLimit => 0 <= ActionLimit
      /\ SubagentLimit # NoLimit => 0 <= SubagentLimit
  BY Caps DEF Limits
<1>6. ASSUME NEW r \in Runs PROVE Charged(r)
  <2>1. /\ EventsOf(r, Actions) = {} /\ EventsOf(r, Subagents) = {}
        /\ tally[r].actions = 0 /\ tally[r].consults = 0
        /\ stage[r] = "off"
    BY <1>2, <1>3
  <2> QED
    BY <1>4, <1>5, <2>1 DEF Charged, Committing
<1> QED
  BY <1>1, <1>6 DEF BudgetInv

\* No run gets more actions or consults into the log than its budget allows,
\* whatever is retried, replanned or asked again.
THEOREM BudgetKept == RSpec => []WithinBudget
<1>1. BudgetInv => WithinBudget
  <2> SUFFICES ASSUME BudgetInv, NEW r \in Runs
               PROVE  /\ ActionLimit # NoLimit => Cardinality(EventsOf(r, Actions)) <= ActionLimit
                      /\ SubagentLimit # NoLimit =>
                           Cardinality(EventsOf(r, Subagents)) <= SubagentLimit
    BY DEF WithinBudget
  <2>1. /\ Cardinality(EventsOf(r, Actions)) \in Nat
        /\ Cardinality(EventsOf(r, Subagents)) \in Nat
        /\ tally[r].actions \in Nat /\ tally[r].consults \in Nat
    BY EventsCounted, CounterType DEF BudgetInv, RTypeInv, RunTypes
  <2>2. /\ ActionLimit # NoLimit => ActionLimit \in Nat
        /\ SubagentLimit # NoLimit => SubagentLimit \in Nat
    BY Caps DEF Limits
  <2> QED
    BY <2>1, <2>2 DEF BudgetInv, Charged
<1>2. BudgetInv /\ [RNext]_rvars => BudgetInv'
  BY BudgetStep
<1> QED
  BY <1>1, <1>2, BudgetInit, PTL DEF RSpec

-----------------------------------------------------------------------------
(* The conversation.                                                       *)

ConversationInv ==
    /\ RTypeInv
    /\ \A r \in Runs :
          stage[r] \in {"off", "plan", "call", "running", "resolving",
                        "consulting", "recording"} => Owing(conv[r], Len(turn[r]))

\* A position is owed by one of the plans, or by none.
LEMMA OwedPositions ==
    ASSUME NEW c \in Seq(Message)
    PROVE  /\ Len(c) \in Nat
           /\ \A i \in Plans(c) : i \in 1..Len(c) /\ c[i].calls \in Nat
           /\ \A k : k \in OwedBy(c) <=> \E i \in Plans(c) : k \in i + 1..i + c[i].calls
           /\ \A k : k \in ToolReplies(c) <=> k \in 1..Len(c) /\ c[k].kind = "tool"
<1>1. \A i \in 1..Len(c) : c[i] \in Message
  BY ElementOfSeq
<1>2. \A i \in Plans(c) : i \in 1..Len(c) /\ c[i].calls \in Nat
  BY <1>1 DEF Plans, Message
<1>3. \A k : k \in OwedBy(c) <=> \E i \in Plans(c) : k \in i + 1..i + c[i].calls
  BY DEF OwedBy
<1> QED
  BY <1>2, <1>3 DEF ToolReplies

\* A new plan owes its replies, once all earlier ones are in.
LEMMA OwingPlan ==
    ASSUME NEW c \in Seq(Message), Owing(c, 0), NEW n \in Nat
    PROVE  Owing(Append(c, PlanMsg(n)), n)
<1> DEFINE d == Append(c, PlanMsg(n))
           m == PlanMsg(n)
<1>0. d = Append(c, m) /\ m = PlanMsg(n)
  OBVIOUS
<1> HIDE DEF d, m
<1>1. m \in Message /\ m.kind = "assistant" /\ m.calls = n
  BY <1>0, MessageType DEF PlanMsg
<1>2. /\ d \in Seq(Message) /\ Len(c) \in Nat /\ Len(d) = Len(c) + 1
      /\ d[Len(d)] = m /\ \A i \in 1..Len(c) : d[i] = c[i]
      /\ Plans(d) = With(Plans(c), Len(d)) /\ ToolReplies(d) = ToolReplies(c)
  <2>1. d \in Seq(Message) /\ Len(c) \in Nat /\ Len(d) = Len(c) + 1
    BY <1>0, <1>1, AppendMessage
  <2>2. d[Len(d)] = m
    BY <1>0, <1>1, AppendMessage
  <2>3. \A i \in 1..Len(c) : d[i] = c[i]
    BY <1>0, <1>1, AppendMessage
  <2>4. Plans(d) = With(Plans(c), Len(d)) /\ ToolReplies(d) = ToolReplies(c)
    <3>1. 1..Len(d) = 1..Len(c) \cup {Len(d)}
      BY <2>1
    <3>2. m.kind = "assistant" /\ m.kind # "tool"
      BY <1>1
    <3>3. Plans(d) = With(Plans(c), Len(d))
      BY <2>1, <2>2, <2>3, <3>1, <3>2 DEF Plans, With
    <3>4. ToolReplies(d) = ToolReplies(c)
      BY <2>1, <2>2, <2>3, <3>1, <3>2 DEF ToolReplies
    <3> QED
      BY <3>3, <3>4
  <2> QED
    BY <2>1, <2>2, <2>3, <2>4
<1>3. \A i \in Plans(c) : i \in 1..Len(c) /\ c[i].calls \in Nat /\ d[i].calls = c[i].calls
  BY <1>2, OwedPositions
<1>4. ToolReplies(c) = OwedBy(c)
  <2>1. Len(c) + 1..Len(c) + 0 = {}
    BY <1>2
  <2> QED
    BY <2>1 DEF Owing
<1>5. \A i \in Plans(c) : i + c[i].calls < Len(d)
  <2> SUFFICES ASSUME NEW i \in Plans(c) PROVE i + c[i].calls < Len(d)
    OBVIOUS
  <2>1. CASE c[i].calls = 0
    BY <1>2, <1>3, <2>1
  <2>2. CASE c[i].calls # 0
    <3>1. i + c[i].calls \in i + 1..i + c[i].calls
      BY <1>3, <2>2
    <3>2. i + c[i].calls \in ToolReplies(c)
      BY <1>4, <3>1, OwedPositions
    <3> QED
      BY <1>2, <3>2, OwedPositions
  <2> QED
    BY <2>1, <2>2
<1>6. OwedBy(d) = OwedBy(c) \cup (Len(d) + 1..Len(d) + n)
  BY <1>1, <1>2, <1>3 DEF OwedBy, With
<1>7. \A i, j \in Plans(d) : i < j => i + d[i].calls < j
  BY <1>2, <1>3, <1>5 DEF Owing, With
<1>8. Owing(d, n)
  BY <1>2, <1>4, <1>6, <1>7 DEF Owing
<1> QED
  BY <1>0, <1>8

\* A reply is the next one owed.
LEMMA OwingReply ==
    ASSUME NEW c \in Seq(Message), NEW n \in Nat, Owing(c, n + 1),
           NEW m \in Message, m.kind = "tool"
    PROVE  Owing(Append(c, m), n)
<1> DEFINE d == Append(c, m)
<1>0. d = Append(c, m)
  OBVIOUS
<1> HIDE DEF d
<1>1. /\ d \in Seq(Message) /\ Len(c) \in Nat /\ Len(d) = Len(c) + 1
      /\ \A i \in 1..Len(c) : d[i] = c[i]
      /\ Plans(d) = Plans(c) /\ ToolReplies(d) = With(ToolReplies(c), Len(d))
  <2>1. d \in Seq(Message) /\ Len(c) \in Nat /\ Len(d) = Len(c) + 1
    BY <1>0, AppendMessage
  <2>2. \A i \in 1..Len(c) : d[i] = c[i]
    BY <1>0, AppendMessage
  <2>3. Plans(d) = Plans(c) /\ ToolReplies(d) = With(ToolReplies(c), Len(d))
    BY <1>0, AppendMessage
  <2> QED
    BY <2>1, <2>2, <2>3
<1>2. \A i \in Plans(c) : d[i].calls = c[i].calls
  BY <1>1, OwedPositions
<1>3. OwedBy(d) = OwedBy(c)
  BY <1>1, <1>2 DEF OwedBy
<1>4. Len(c) + 1..Len(c) + (n + 1) = {Len(d)} \cup (Len(d) + 1..Len(d) + n)
  BY <1>1
<1>5. Owing(d, n)
  BY <1>1, <1>2, <1>3, <1>4 DEF Owing, With
<1> QED
  BY <1>0, <1>5

\* A turn that is dropped takes its plan and its replies along; the note that
\* is left instead is owed by nobody.
LEMMA OwingDropped ==
    ASSUME NEW c \in Seq(Message), NEW n \in Nat, Owing(c, n), HasLastPlan(c)
    PROVE  Owing(Append(DropTurn(c), NoteMsg), 0)
<1>1. PICK a \in Plans(c) : /\ \A j \in Plans(c) : j <= a
                            /\ DropTurn(c) = SubSeq(c, 1, a - 1)
  BY DropTurnType
<1> DEFINE b == DropTurn(c)
           m == NoteMsg
           d == Append(b, m)
<1>2. Len(c) \in Nat /\ a \in 1..Len(c) /\ b \in Seq(Message)
  BY <1>1, OwedPositions, DropTurnType
<1>3. Len(b) = a - 1 /\ \A i \in 1..a - 1 : b[i] = c[i]
  BY <1>1, <1>2, SubSeqProperties
<1>4. m \in Message /\ m.kind = "note" /\ d = Append(b, m)
  BY MessageType DEF NoteMsg
<1> HIDE DEF b, m, d
<1>5. /\ d \in Seq(Message) /\ Len(d) = a /\ \A i \in 1..a - 1 : d[i] = c[i]
      /\ Plans(d) = Plans(b) /\ ToolReplies(d) = ToolReplies(b)
  <2>1. d \in Seq(Message) /\ Len(d) = Len(b) + 1
    BY <1>2, <1>4, AppendMessage
  <2>2. \A i \in 1..Len(b) : d[i] = b[i]
    BY <1>2, <1>4, AppendMessage
  <2>3. Plans(d) = Plans(b) /\ ToolReplies(d) = ToolReplies(b)
    BY <1>2, <1>4, AppendMessage
  <2> QED
    BY <1>2, <1>3, <2>1, <2>2, <2>3
<1>6. Plans(b) = Plans(c) \ {a}
  BY <1>1, <1>2, <1>3 DEF Plans
<1>7. ToolReplies(b) = {k \in ToolReplies(c) : k < a}
  BY <1>2, <1>3 DEF ToolReplies
<1>8. \A i \in Plans(d) : /\ i \in Plans(c) /\ i < a /\ i + c[i].calls < a
                          /\ i \in 1..Len(c) /\ c[i].calls \in Nat /\ d[i].calls = c[i].calls
  BY <1>1, <1>2, <1>5, <1>6, OwedPositions DEF Owing
<1>9. OwedBy(d) = {k \in OwedBy(c) : k < a}
  <2>1. ASSUME NEW k \in OwedBy(d) PROVE k \in OwedBy(c) /\ k < a
    <3>1. PICK i \in Plans(d) : k \in i + 1..i + d[i].calls
      BY <1>5, OwedPositions
    <3>2. /\ i \in Plans(c) /\ i \in Nat /\ i + c[i].calls < a
          /\ c[i].calls \in Nat /\ d[i].calls = c[i].calls
      BY <1>8
    <3>3. k \in i + 1..i + c[i].calls /\ k < a
      BY <1>2, <3>1, <3>2
    <3> QED
      BY <3>2, <3>3, OwedPositions
  <2>2. ASSUME NEW k \in OwedBy(c), k < a PROVE k \in OwedBy(d)
    <3>1. PICK i \in Plans(c) : k \in i + 1..i + c[i].calls
      BY <2>2, OwedPositions
    <3>2. i \in Plans(d)
      <4>1. c[i].calls \in Nat /\ i \in Nat /\ k \in Nat /\ i < k
        BY <1>2, <3>1, OwedPositions
      <4>2. i # a
        BY <1>2, <2>2, <4>1
      <4> QED
        BY <1>5, <1>6, <4>2
    <3> QED
      BY <1>5, <1>8, <3>1, <3>2, OwedPositions
  <2> QED
    BY <2>1, <2>2
<1>10. {k \in ToolReplies(c) : k < a} = {k \in OwedBy(c) : k < a}
  BY <1>2, OwedPositions DEF Owing
<1>11. Owing(d, 0)
  <2>1. Len(d) + 1..Len(d) + 0 = {}
    BY <1>2, <1>5
  <2> QED
    BY <1>5, <1>7, <1>8, <1>9, <1>10, <2>1 DEF Owing
<1> QED
  BY <1>11 DEF b, m, d

\* The stages in which a conversation is kept.
Working == {"off", "plan", "call", "running", "resolving", "consulting", "recording"}

\* A step of a run leaves its conversation with exactly the replies missing that
\* its turn still owes.
LEMMA ConversationStep ==
    ASSUME ConversationInv, NEW r \in Runs, RunAct(r), stage'[r] \in Working
    PROVE  Owing(conv'[r], Len(turn'[r]))
<1> USE DEF At, Move, Leave
<1>0. /\ RTypeInv /\ stage \in [Runs -> Stage] /\ turn \in [Runs -> Seq(Tools)]
      /\ conv \in [Runs -> Seq(Message)] /\ Staged(r) /\ r \in Worlds
      /\ stage[r] \in Working => Owing(conv[r], Len(turn[r]))
      /\ conv[r] \in Seq(Message) /\ turn[r] \in Seq(Tools) /\ Len(turn[r]) \in Nat
  BY RunsAreWorlds DEF ConversationInv, RTypeInv, RunTypes, Working
<1>1. ASSUME UNCHANGED <<turn, conv>>, stage[r] \in Working
      PROVE  Owing(conv'[r], Len(turn'[r]))
  BY <1>0, <1>1
<1>2. ASSUME NEW m \in Message, m.kind = "tool", Answered(r, m),
             stage[r] \in {"call", "running", "recording"}
      PROVE  Owing(conv'[r], Len(turn'[r]))
  <2>1. /\ conv'[r] = Append(conv[r], m) /\ turn[r] # <<>>
        /\ Len(turn'[r]) = Len(turn[r]) - 1
    BY <1>0, <1>2, AnsweredType
  <2>2. Len(turn[r]) - 1 \in Nat /\ (Len(turn[r]) - 1) + 1 = Len(turn[r])
    BY <1>0, <2>1, EmptySeq
  <2>3. Owing(conv[r], (Len(turn[r]) - 1) + 1)
    BY <1>0, <1>2, <2>2 DEF Working
  <2>4. Owing(Append(conv[r], m), Len(turn[r]) - 1)
    BY <1>0, <1>2, <2>2, <2>3, OwingReply
  <2> QED
    BY <2>1, <2>4
<1>3. CASE Trigger(r) \/ Thread(r) \/ CallAction(r) \/ Ask(r) \/ ConsultSubagent(r)
           \/ ReadOffset(r) \/ ConsultRetried(r)
  BY <1>1, <1>3 DEF Trigger, Thread, CallAction, Ask, Lost, ConsultSubagent, ReadOffset,
     ConsultRetried, Working
<1>4. CASE TriggerBlocked(r) \/ Exhausted(r) \/ Escapes(r) \/ Finish(r)
  BY <1>0, <1>4 DEF TriggerBlocked, Exhausted, Escapes, Finish, Working
<1>5. CASE Plan(r)
  <2>1. PICK n \in 1..MaxTurn : \E calls \in [1..n -> Tools] :
            /\ turn' = [turn EXCEPT ![r] = calls]
            /\ conv' = [conv EXCEPT ![r] = Append(@, PlanMsg(n))]
    BY <1>0, <1>5 DEF Plan, Working
  <2>2. n \in Nat /\ Len(turn'[r]) = n /\ conv'[r] = Append(conv[r], PlanMsg(n))
    BY <1>0, <2>1, Caps
  <2>3. Owing(conv[r], 0)
    <3>1. turn[r] = <<>> /\ stage[r] = "plan"
      BY <1>0, <1>5 DEF Plan, Staged
    <3> QED
      BY <1>0, <3>1 DEF Working
  <2> QED
    BY <1>0, <2>2, <2>3, OwingPlan
<1>6. CASE CallOther(r) \/ CallBlocked(r) \/ ConsultBlocked(r)
  <2>1. PICK x \in {"other", "blocked"} : Answered(r, Reply(x))
    BY <1>6 DEF CallOther, CallBlocked, ConsultBlocked
  <2>2. Reply(x) \in Message /\ Reply(x).kind = "tool"
    BY MessageType DEF Results, Reply
  <2>3. stage[r] = "call"
    BY <1>6 DEF CallOther, CallBlocked, ConsultBlocked
  <2> QED
    BY <1>2, <2>1, <2>2, <2>3
<1>7. CASE Returned(r)
  <2>1. CallReply(r) \in Message /\ CallReply(r).kind = "tool"
    BY <1>0, MessageType DEF CallReply, RTypeInv, WorldTypes
  <2> QED
    BY <1>2, <1>7, <2>1 DEF Returned
<1>8. CASE ConsultRecorded(r)
  <2>1. ConsultReply(ConsultEvent(r)) \in Message /\ ConsultReply(ConsultEvent(r)).kind = "tool"
    BY <1>0, <1>8, Appended, MessageType DEF ConsultReply
  <2> QED
    BY <1>2, <1>8, <2>1 DEF ConsultRecorded
<1>9. CASE Settles(r)
  <2>1. stage[r] \in {"running", "resolving"} /\ (Continue(r) \/ Recover(r) \/ Abandon(r))
    BY <1>9 DEF Settles, RetryUnasked, Escalate, Resolve, Lost
  <2>2. CASE Continue(r)
    BY <1>1, <2>1, <2>2 DEF Continue, Working
  <2>3. CASE Recover(r)
    <3>1. turn'[r] = <<>> /\ conv'[r] = Append(DropTurn(conv[r]), NoteMsg)
      BY <1>0, <2>3 DEF Recover, Working
    <3>2. HasLastPlan(conv[r]) /\ Owing(conv[r], Len(turn[r]))
      BY <1>0, <2>1 DEF Staged, Working
    <3>3. Owing(Append(DropTurn(conv[r]), NoteMsg), 0)
      BY <1>0, <3>2, OwingDropped
    <3> QED
      BY <3>1, <3>3
  <2>4. CASE Abandon(r)
    BY <1>0, <2>4 DEF Abandon, Working
  <2> QED
    BY <2>1, <2>2, <2>3, <2>4
<1>10. CASE RunFault(r)
  BY <1>0, <1>1, <1>10 DEF RunFault, Working
<1> QED
  BY <1>3, <1>4, <1>5, <1>6, <1>7, <1>8, <1>9, <1>10 DEF RunAct, RunStep, Settles

\* Whenever the model is called, every plan is followed by a reply to each of
\* its tool calls, and no reply is without one.
THEOREM ConversationsWellFormed == RSpec => []ConversationWellFormed
<1>1. RInit => ConversationInv
  <2> SUFFICES ASSUME RInit PROVE ConversationInv
    OBVIOUS
  <2>1. \A r \in Runs : conv[r] = <<>> /\ turn[r] = <<>>
    BY DEF RInit
  <2>2. Owing(<<>>, 0)
    BY DEF Owing, ToolReplies, Plans, OwedBy
  <2> QED
    BY <2>1, <2>2, RTypeInit DEF ConversationInv
<1>2. ConversationInv /\ [RNext]_rvars => ConversationInv'
  <2> SUFFICES ASSUME ConversationInv, [RNext]_rvars PROVE ConversationInv'
    OBVIOUS
  <2>1. RTypeInv /\ RTypeInv'
    BY RTypeStep DEF ConversationInv
  <2>2. ASSUME NEW v \in Runs, stage'[v] = stage[v], turn'[v] = turn[v], conv'[v] = conv[v],
               stage'[v] \in Working
        PROVE  Owing(conv'[v], Len(turn'[v]))
    BY <2>2 DEF ConversationInv, Working
  <2>3. CASE UNCHANGED run
    BY <2>1, <2>2, <2>3 DEF run, ConversationInv, Working
  <2>4. ASSUME NEW r \in Runs, RunAct(r), NEW v \in Runs, stage'[v] \in Working
        PROVE  Owing(conv'[v], Len(turn'[v]))
    BY <2>1, <2>2, <2>4, ConversationStep, RunLocal DEF OtherRunsStay
  <2> QED
    BY <2>1, <2>3, <2>4 DEF ConversationInv, Working, RNext, RunAct, rvars, DirectStep
<1>3. ConversationInv => ConversationWellFormed
  <2> SUFFICES ASSUME ConversationInv, NEW r \in Runs, stage[r] = "plan"
               PROVE  ToolReplies(conv[r]) = OwedBy(conv[r])
    BY DEF ConversationWellFormed, ToolReplies, OwedBy, Plans
  <2>1. turn[r] = <<>> /\ conv[r] \in Seq(Message)
    BY DEF ConversationInv, RTypeInv, RunTypes, Staged
  <2>2. Owing(conv[r], 0) /\ Len(conv[r]) \in Nat
    BY <2>1 DEF ConversationInv
  <2>3. Len(conv[r]) + 1..Len(conv[r]) + 0 = {}
    BY <2>2
  <2> QED
    BY <2>2, <2>3 DEF Owing
<1> QED
  BY <1>1, <1>2, <1>3, PTL DEF RSpec

-----------------------------------------------------------------------------
(* Stale commits: World's argument, with consults in the log, until a token *)
(* has been forced past an action.                                         *)

\* Reflected, of a log that is given.
ReflectedIn(l, n) == {e \in {l[i] : i \in 1..n} : e.action \in Actions}

\* No claim while a failed or lost mutation is still in memory.
LoyalRun(w) ==
    pc[w] \notin {"absent", "rollback", "discard"} /\ token[w] = Len(log) =>
        mem[w] = IF pc[w] = "append" THEN ReflectedIn(log, Len(log)) \cup {call[w]}
                 ELSE ReflectedIn(log, Len(log))

\* A world about to flush holds its own event, newer than state.json, and
\* nothing but consults have come after it.
FlushPending(w) ==
    pc[w] = "flush" =>
        /\ snapshot.last_offset < token[w]
        /\ mem[w] = ReflectedIn(log, token[w])
        /\ log[token[w]].by = w /\ log[token[w]].action \in Actions
        /\ \A i \in token[w] + 1..Len(log) : log[i].action \notin Actions

\* Actions that state.json lacks are the events of whoever can still commit.
OwnsMissing(w) ==
    pc[w] # "absent" /\ token[w] = Len(log) =>
        \A i \in snapshot.last_offset + 1..Len(log) :
            log[i].action \in Actions => log[i].by = w

OneFlusher == \A v, w \in Worlds : pc[v] = "flush" /\ pc[w] = "flush" => v = w

CurrentParts ==
    /\ snapshot.state = ReflectedIn(log, snapshot.last_offset)
    /\ \A w \in Worlds : LoyalRun(w) /\ FlushPending(w) /\ OwnsMissing(w)
    /\ OneFlusher
CurrentInv == RTypeInv /\ snapshot # NoDoc /\ (~overtaken => CurrentParts)

\* What one more event does to the actions that are reflected.
LEMMA ReflectedGrows ==
    ASSUME WorldTypes, NEW e \in Exec \cup Consult, log' = Append(log, e)
    PROVE  /\ Len(log) \in Nat /\ Len(log') = Len(log) + 1 /\ log'[Len(log) + 1] = e
           /\ \A i \in 1..Len(log) : log'[i] = log[i]
           /\ \A n \in 0..Len(log) : ReflectedIn(log', n) = ReflectedIn(log, n)
           /\ e.action \in Actions =>
                ReflectedIn(log', Len(log')) = ReflectedIn(log, Len(log)) \cup {e}
<1>1. /\ Len(log) \in Nat /\ Len(log') = Len(log) + 1 /\ log'[Len(log) + 1] = e
      /\ \A i \in 1..Len(log) : log'[i] = log[i]
  BY LogGrows
<1>2. ASSUME NEW n \in 0..Len(log) PROVE ReflectedIn(log', n) = ReflectedIn(log, n)
  <2>1. {log'[i] : i \in 1..n} = {log[i] : i \in 1..n}
    BY <1>1
  <2> QED
    BY <2>1 DEF ReflectedIn
<1>3. {log'[i] : i \in 1..Len(log')} = {log[i] : i \in 1..Len(log)} \cup {e}
  BY <1>1
<1>4. e.action \in Actions =>
        ReflectedIn(log', Len(log')) = ReflectedIn(log, Len(log)) \cup {e}
  BY <1>3 DEF ReflectedIn
<1> QED
  BY <1>1, <1>2, <1>4

\* A step of w that writes neither log nor state.json keeps the argument if it
\* keeps it for w.
LEMMA CurrentQuiet ==
    ASSUME RTypeInv, CurrentParts, NEW w \in Worlds, UNCHANGED <<log, snapshot>>,
           OtherWorldsStay(w), pc'[w] # "flush", LoyalRun(w)', OwnsMissing(w)'
    PROVE  CurrentParts'
<1> USE DEF OtherWorldsStay
<1>1. ASSUME NEW v \in Worlds, v # w
      PROVE  LoyalRun(v)' /\ FlushPending(v)' /\ OwnsMissing(v)'
  <2>1. LoyalRun(v) /\ FlushPending(v) /\ OwnsMissing(v)
    BY DEF CurrentParts
  <2>2. LoyalRun(v)'
    BY <1>1, <2>1 DEF LoyalRun
  <2>3. FlushPending(v)'
    BY <1>1, <2>1 DEF FlushPending
  <2>4. OwnsMissing(v)'
    BY <1>1, <2>1 DEF OwnsMissing
  <2> QED
    BY <2>2, <2>3, <2>4
<1>2. FlushPending(w)'
  BY DEF FlushPending
<1>3. OneFlusher'
  BY DEF OneFlusher, CurrentParts
<1> QED
  BY <1>1, <1>2, <1>3 DEF CurrentParts

\* _hydrate gives a world what state.json reflects, or leaves it behind.
LEMMA CurrentHydrate ==
    ASSUME RTypeInv, CurrentParts, snapshot # NoDoc, NEW w \in Worlds, Hydrate(w),
           UNCHANGED <<log, snapshot, call>>, pc'[w] \notin {"append", "flush"},
           \A v \in Worlds \ {w} :
              pc'[v] = pc[v] /\ base'[v] = base[v] /\ outcome'[v] = outcome[v] /\ done'[v] = done[v]
    PROVE  CurrentParts'
<1>1. /\ mem' = [mem EXCEPT ![w] = snapshot.state]
      /\ token' = [token EXCEPT ![w] = snapshot.last_offset]
      /\ mem \in [Worlds -> SUBSET Exec] /\ token \in [Worlds -> Nat]
  BY DEF Hydrate, RTypeInv, WorldTypes
<1>2. snapshot.last_offset \in Nat /\ Len(log) \in Nat
  BY DEF RTypeInv, WorldTypes
<1>3. OtherWorldsStay(w)
  BY <1>1 DEF OtherWorldsStay
<1>4. mem'[w] = ReflectedIn(log, snapshot.last_offset) /\ token'[w] = snapshot.last_offset
  BY <1>1 DEF CurrentParts
<1>5. LoyalRun(w)'
  BY <1>4 DEF LoyalRun
<1>6. OwnsMissing(w)'
  BY <1>2, <1>4 DEF OwnsMissing
<1> QED
  BY <1>3, <1>5, <1>6, CurrentQuiet

\* Nobody else is about to flush when an append wins; the winner is the owner
\* of what state.json lacks.
LEMMA CurrentAppend ==
    ASSUME RTypeInv, CurrentParts, snapshot # NoDoc, NEW w \in Worlds, AppendWins(w)
    PROVE  CurrentParts'
<1>1. /\ token[w] = Len(log) /\ pc[w] = "append"
      /\ pc' = [pc EXCEPT ![w] = "flush"] /\ token' = [token EXCEPT ![w] = Len(log) + 1]
      /\ UNCHANGED <<snapshot, mem, call>>
  BY DEF AppendWins, Goto, docs
<1>2. /\ pc \in [Worlds -> Stages] /\ token \in [Worlds -> Nat]
      /\ \A v \in Worlds : token[v] <= Len(log)
      /\ snapshot.last_offset \in 1..Len(log)
  BY DEF RTypeInv, WorldTypes
<1>3. /\ log' = Append(log, call[w]) /\ call[w] \in Exec \cup Consult
      /\ call[w].by = w /\ call[w].action \in Actions
  BY Appended
<1>4. /\ Len(log) \in Nat /\ Len(log') = Len(log) + 1 /\ log'[Len(log) + 1] = call[w]
      /\ \A i \in 1..Len(log) : log'[i] = log[i]
      /\ \A n \in 0..Len(log) : ReflectedIn(log', n) = ReflectedIn(log, n)
      /\ ReflectedIn(log', Len(log')) = ReflectedIn(log, Len(log)) \cup {call[w]}
  BY <1>3, ReflectedGrows DEF RTypeInv
<1>5. /\ pc'[w] = "flush" /\ token'[w] = Len(log') /\ mem'[w] = mem[w]
      /\ \A v \in Worlds \ {w} : pc'[v] = pc[v] /\ token'[v] = token[v] /\ token'[v] < Len(log')
  BY <1>1, <1>2, <1>4
<1>6. mem[w] = ReflectedIn(log, Len(log)) \cup {call[w]}
  BY <1>1 DEF CurrentParts, LoyalRun
<1>7. ASSUME NEW v \in Worlds, pc[v] = "flush" PROVE FALSE
  <2>1. /\ snapshot.last_offset < token[v]
        /\ log[token[v]].by = v /\ log[token[v]].action \in Actions
    BY <1>7 DEF CurrentParts, FlushPending
  <2>2. token[v] \in snapshot.last_offset + 1..Len(log)
    BY <1>2, <2>1
  <2>3. log[token[v]].by = w
    BY <1>1, <2>1, <2>2 DEF CurrentParts, OwnsMissing
  <2> QED
    BY <1>1, <1>7, <2>1, <2>3
<1>8. ASSUME NEW v \in Worlds, v # w PROVE LoyalRun(v)' /\ FlushPending(v)' /\ OwnsMissing(v)'
  BY <1>4, <1>5, <1>7, <1>8 DEF LoyalRun, FlushPending, OwnsMissing
<1>9. LoyalRun(w)'
  BY <1>4, <1>5, <1>6 DEF LoyalRun
<1>10. FlushPending(w)'
  BY <1>1, <1>2, <1>3, <1>4, <1>5, <1>6 DEF FlushPending
<1>11. OwnsMissing(w)'
  <2>1. \A i \in snapshot.last_offset + 1..Len(log) :
           log[i].action \in Actions => log[i].by = w
    BY <1>1 DEF CurrentParts, OwnsMissing
  <2>2. ASSUME NEW i \in snapshot.last_offset + 1..Len(log'), log'[i].action \in Actions
        PROVE  log'[i].by = w
    <3>1. CASE i = Len(log) + 1
      BY <1>3, <1>4, <3>1
    <3>2. CASE i # Len(log) + 1
      <4>1. i \in snapshot.last_offset + 1..Len(log) /\ i \in 1..Len(log)
        BY <1>2, <1>4, <3>2
      <4> QED
        BY <1>4, <2>1, <2>2, <4>1
    <3> QED
      BY <3>1, <3>2
  <2> QED
    BY <1>1, <2>2 DEF OwnsMissing
<1>12. OneFlusher'
  BY <1>5, <1>7 DEF OneFlusher
<1>13. (snapshot.state = ReflectedIn(log, snapshot.last_offset))'
  BY <1>1, <1>2, <1>4 DEF CurrentParts
<1> QED
  BY <1>8, <1>9, <1>10, <1>11, <1>12, <1>13 DEF CurrentParts

\* A consult leaves everybody's token behind.
LEMMA CurrentConsult ==
    ASSUME RTypeInv, CurrentParts, snapshot # NoDoc, NEW r \in Runs, ConsultRecorded(r)
    PROVE  CurrentParts'
<1>1. /\ log' = Append(log, ConsultEvent(r)) /\ ConsultEvent(r) \in Exec \cup Consult
      /\ ConsultEvent(r).action \notin Actions
      /\ UNCHANGED <<snapshot, pc, mem, token, call>>
  BY RunsAreWorlds, Appended DEF ConsultRecorded, docs, local
<1>2. /\ Len(log) \in Nat /\ Len(log') = Len(log) + 1
      /\ log'[Len(log) + 1] = ConsultEvent(r)
      /\ \A i \in 1..Len(log) : log'[i] = log[i]
      /\ \A n \in 0..Len(log) : ReflectedIn(log', n) = ReflectedIn(log, n)
  BY <1>1, ReflectedGrows DEF RTypeInv
<1>3. /\ snapshot.last_offset \in 1..Len(log)
      /\ \A v \in Worlds : token[v] \in Nat /\ token[v] <= Len(log)
  BY DEF RTypeInv, WorldTypes
<1>4. ASSUME NEW v \in Worlds PROVE LoyalRun(v)' /\ OwnsMissing(v)'
  BY <1>1, <1>2, <1>3 DEF LoyalRun, OwnsMissing
<1>5. ASSUME NEW v \in Worlds PROVE FlushPending(v)'
  <2> SUFFICES ASSUME pc[v] = "flush"
               PROVE  /\ snapshot.last_offset < token[v]
                      /\ mem[v] = ReflectedIn(log', token[v])
                      /\ log'[token[v]].by = v /\ log'[token[v]].action \in Actions
                      /\ \A i \in token[v] + 1..Len(log') : log'[i].action \notin Actions
    BY <1>1 DEF FlushPending
  <2>1. /\ snapshot.last_offset < token[v] /\ mem[v] = ReflectedIn(log, token[v])
        /\ log[token[v]].by = v /\ log[token[v]].action \in Actions
        /\ \A i \in token[v] + 1..Len(log) : log[i].action \notin Actions
    BY DEF CurrentParts, FlushPending
  <2>2. token[v] \in 1..Len(log)
    BY <1>3, <2>1
  <2>3. ASSUME NEW i \in token[v] + 1..Len(log') PROVE log'[i].action \notin Actions
    <3>1. (i \in token[v] + 1..Len(log) /\ i \in 1..Len(log)) \/ i = Len(log) + 1
      BY <1>2, <2>2
    <3> QED
      BY <1>1, <1>2, <2>1, <3>1
  <2> QED
    BY <1>2, <2>1, <2>2, <2>3
<1>6. OneFlusher'
  BY <1>1 DEF CurrentParts, OneFlusher
<1>7. (snapshot.state = ReflectedIn(log, snapshot.last_offset))'
  BY <1>1, <1>2, <1>3 DEF CurrentParts
<1> QED
  BY <1>4, <1>5, <1>6, <1>7 DEF CurrentParts

\* The flush is of a newer prefix than the one state.json had.
LEMMA CurrentFlush ==
    ASSUME RTypeInv, CurrentParts, snapshot # NoDoc, NEW w \in Worlds, Flush(w)
    PROVE  CurrentParts'
<1>1. /\ pc[w] = "flush" /\ pc' = [pc EXCEPT ![w] = "summary"]
      /\ snapshot' = [state |-> mem[w], last_offset |-> token[w]]
      /\ UNCHANGED <<log, mem, token, call>>
  BY DEF Flush, Goto, local
<1>2. /\ pc \in [Worlds -> Stages] /\ token[w] \in Nat /\ Len(log) \in Nat
      /\ snapshot.last_offset \in Nat
  BY DEF RTypeInv, WorldTypes
<1>3. snapshot.last_offset < token[w] /\ mem[w] = ReflectedIn(log, token[w])
  BY <1>1 DEF CurrentParts, FlushPending
<1>4. snapshot'.state = mem[w] /\ snapshot'.last_offset = token[w]
  BY <1>1
<1>5. pc'[w] = "summary" /\ \A v \in Worlds \ {w} : pc'[v] = pc[v]
  BY <1>1, <1>2
<1>6. \A v \in Worlds : pc'[v] # "flush"
  BY <1>1, <1>5 DEF CurrentParts, OneFlusher
<1>7. ASSUME NEW v \in Worlds PROVE LoyalRun(v)'
  <2>1. LoyalRun(v)
    BY DEF CurrentParts
  <2> QED
    BY <1>1, <1>5, <2>1 DEF LoyalRun
<1>8. ASSUME NEW v \in Worlds PROVE OwnsMissing(v)'
  <2>1. OwnsMissing(v) /\ (pc'[v] # "absent" => pc[v] # "absent")
    BY <1>1, <1>5 DEF CurrentParts
  <2>2. \A i \in token[w] + 1..Len(log) : i \in snapshot.last_offset + 1..Len(log)
    BY <1>2, <1>3
  <2> QED
    BY <1>1, <1>4, <2>1, <2>2 DEF OwnsMissing
<1> QED
  BY <1>1, <1>3, <1>4, <1>6, <1>7, <1>8 DEF CurrentParts, FlushPending, OneFlusher

\* What a world does of its own accord keeps the argument.
LEMMA CurrentWorld ==
    ASSUME RTypeInv, CurrentParts, snapshot # NoDoc, NEW w \in Worlds, WorldAct(w)
    PROVE  CurrentParts'
<1>0. /\ pc \in [Worlds -> Stages] /\ mem \in [Worlds -> SUBSET Exec]
      /\ token \in [Worlds -> Nat] /\ OtherWorldsStay(w)
      /\ LoyalRun(w) /\ OwnsMissing(w)
  BY WorldLocal DEF RTypeInv, WorldTypes, CurrentParts
\* Memory, token and log stay: what was loyal and owned is so still.
<1>2. ASSUME UNCHANGED <<log, snapshot, mem, token, call>>,
             pc'[w] \notin {"flush", "append"}, pc'[w] # "absent" => pc[w] # "absent",
             pc'[w] \in {"absent", "rollback", "discard"} \/
                pc[w] \notin {"absent", "rollback", "discard", "append"}
      PROVE  CurrentParts'
  <2>1. LoyalRun(w)'
    BY <1>0, <1>2 DEF LoyalRun
  <2>2. OwnsMissing(w)'
    BY <1>0, <1>2 DEF OwnsMissing
  <2> QED
    BY <1>0, <1>2, <2>1, <2>2, CurrentQuiet
<1>3. CASE New(w) \/ CatchUp(w) \/ Rollback(w) \/ Discard(w)
  <2>1. /\ Hydrate(w) /\ UNCHANGED <<log, snapshot, call>> /\ pc'[w] \notin {"append", "flush"}
    BY <1>0, <1>3 DEF New, CatchUp, Rollback, Discard, Goto, docs, local
  <2> QED
    BY <1>0, <2>1, CurrentHydrate DEF OtherWorldsStay
<1>4. ASSUME NEW a \in Actions, Enter(w, a) PROVE CurrentParts'
  <2>1. /\ UNCHANGED <<log, snapshot, mem, token>> /\ pc[w] = "idle"
        /\ pc'[w] \in {"catchUp", "body"}
    BY <1>0, <1>4 DEF Enter, docs
  <2>2. LoyalRun(w)' /\ OwnsMissing(w)'
    BY <1>0, <2>1 DEF LoyalRun, OwnsMissing
  <2> QED
    BY <1>0, <2>1, <2>2, CurrentQuiet
<1>5. CASE Body(w)
  <2>1. /\ UNCHANGED <<log, snapshot, token, call>> /\ pc[w] = "body" /\ pc'[w] = "append"
        /\ mem'[w] = mem[w] \cup {call[w]}
    BY <1>0, <1>5 DEF Body, Goto, docs, local
  <2>2. LoyalRun(w)' /\ OwnsMissing(w)'
    BY <1>0, <2>1 DEF LoyalRun, OwnsMissing
  <2> QED
    BY <1>0, <2>1, <2>2, CurrentQuiet
<1>6. CASE BodyRaises(w)
  <2>1. UNCHANGED <<log, snapshot, token, call>> /\ pc[w] = "body" /\ pc'[w] = "rollback"
    BY <1>0, <1>6 DEF BodyRaises, Goto, docs
  <2>2. LoyalRun(w)' /\ OwnsMissing(w)'
    BY <1>0, <2>1 DEF LoyalRun, OwnsMissing
  <2> QED
    BY <1>0, <2>1, <2>2, CurrentQuiet
<1>7. CASE NotAvailable(w) \/ AppendLoses(w) \/ WriteSummary(w) \/ ReadAudit(w)
           \/ WriteAudit(w) \/ ReadActivity(w) \/ WriteActivity(w) \/ WriteFails(w) \/ Crash(w)
  <2>1. UNCHANGED <<log, snapshot, mem, token, call>>
    BY <1>7 DEF NotAvailable, AppendLoses, WriteSummary, ReadAudit, WriteAudit,
       ReadActivity, WriteActivity, WriteFails, Crash, docs, local
  <2>2. /\ pc'[w] \notin {"flush", "append"} /\ (pc'[w] # "absent" => pc[w] # "absent")
        /\ \/ pc'[w] \in {"absent", "rollback", "discard"}
           \/ pc[w] \notin {"absent", "rollback", "discard", "append"}
    BY <1>0, <1>7 DEF NotAvailable, AppendLoses, WriteSummary, ReadAudit, WriteAudit,
       ReadActivity, WriteActivity, WriteFails, Crash, Goto
  <2> QED
    BY <1>2, <2>1, <2>2
<1> QED
  BY <1>3, <1>4, <1>5, <1>6, <1>7, CurrentAppend, CurrentFlush DEF WorldAct, Step

\* A token forced to a conflict's offset is as good as a hydrated one if it
\* passes over no action that state.json lacks.
LEMMA CurrentSettled ==
    ASSUME RTypeInv, CurrentParts, snapshot # NoDoc, NEW r \in Runs, Settles(r), ~ overtaken'
    PROVE  CurrentParts'
<1>1. /\ Acknowledge(r) /\ UNCHANGED <<log, snapshot, pc, call, base, outcome, done>>
      /\ r \in Worlds
  BY SettlesEffect, RunsAreWorlds DEF RTypeInv
<1>2. /\ mem' = [mem EXCEPT ![r] = snapshot.state] /\ token' = [token EXCEPT ![r] = held[r]]
      /\ mem \in [Worlds -> SUBSET Exec] /\ token \in [Worlds -> Nat]
      /\ \A i \in snapshot.last_offset + 1..held[r] : log[i].action \notin Actions
  BY <1>1 DEF Acknowledge, SnapshotOffset, RTypeInv, WorldTypes
<1>3. /\ snapshot.last_offset \in 1..Len(log) /\ Len(log) \in Nat
  BY DEF RTypeInv, WorldTypes
<1>4. pc[r] \in {"absent", "idle"}
  BY DEF RTypeInv, Staged, Settles, RetryUnasked, Escalate, Resolve, Lost, At
<1>5. mem'[r] = ReflectedIn(log, snapshot.last_offset) /\ token'[r] = held[r]
  BY <1>1, <1>2 DEF CurrentParts
<1>6. held[r] = Len(log) =>
        ReflectedIn(log, snapshot.last_offset) = ReflectedIn(log, Len(log))
  <2> SUFFICES ASSUME held[r] = Len(log)
               PROVE  ReflectedIn(log, snapshot.last_offset) = ReflectedIn(log, Len(log))
    OBVIOUS
  <2>1. \A i \in 1..Len(log) : i \in 1..snapshot.last_offset \/ log[i].action \notin Actions
    BY <1>2, <1>3
  <2>2. \A i \in 1..snapshot.last_offset : i \in 1..Len(log)
    BY <1>3
  <2> QED
    BY <2>1, <2>2 DEF ReflectedIn
<1>7. LoyalRun(r)'
  BY <1>1, <1>4, <1>5, <1>6 DEF LoyalRun
<1>8. OwnsMissing(r)'
  BY <1>1, <1>2, <1>5 DEF OwnsMissing
<1>9. OtherWorldsStay(r)
  BY <1>1, <1>2 DEF OtherWorldsStay
<1> QED
  BY <1>1, <1>4, <1>7, <1>8, <1>9, CurrentQuiet

\* Every step keeps the argument, until a token is forced past an action.
LEMMA CurrentStep ==
    ASSUME CurrentInv, [RNext]_rvars PROVE CurrentInv'
<1>1. RTypeInv /\ RTypeInv' /\ snapshot # NoDoc
  BY RTypeStep DEF CurrentInv
<1>2. ASSUME UNCHANGED world, overtaken' = overtaken PROVE CurrentInv'
  <2>1. CurrentParts => CurrentParts'
    BY <1>2 DEF world, vars, docs, local, CurrentParts, LoyalRun, FlushPending,
       OwnsMissing, OneFlusher
  <2> QED
    BY <1>1, <1>2, <2>1 DEF world, vars, docs, CurrentInv
<1>3. ASSUME NEW w \in Worlds, WorldAct(w), overtaken' = overtaken PROVE CurrentInv'
  <2>1. snapshot' # NoDoc
    <3>1. snapshot' = snapshot \/ Flush(w)
      BY <1>3 DEF WorldAct, Step, New, Enter, CatchUp, NotAvailable, Body, BodyRaises,
         Rollback, AppendWins, AppendLoses, Discard, WriteSummary, ReadAudit, WriteAudit,
         ReadActivity, WriteActivity, WriteFails, Crash, docs
    <3>2. Flush(w) => snapshot' \in [state : SUBSET Exec, last_offset : Nat]
      BY <1>1 DEF Flush, RTypeInv, WorldTypes
    <3> QED
      BY <1>1, <3>1, <3>2, NoDocApart
  <2> QED
    BY <1>1, <1>3, <2>1, CurrentWorld DEF CurrentInv
<1>4. ASSUME NEW r \in Runs, RunAct(r) PROVE CurrentInv'
  <2>0. r \in Worlds
    BY RunsAreWorlds
  <2>1. CASE Trigger(r) \/ CallAction(r) \/ Thread(r) \/ RunFault(r)
    <3>1. WorldAct(r) /\ overtaken' = overtaken
      BY <2>1, RunWorldActs DEF Trigger, CallAction, Thread, RunFault
    <3> QED
      BY <1>3, <2>0, <3>1
  <2>2. CASE LoopOnly(r)
    <3>1. UNCHANGED world /\ overtaken' = overtaken
      BY <2>2, LoopOnlyStays DEF LoopOnly, TriggerBlocked, Exhausted, CallOther, CallBlocked,
         Returned, Ask, ConsultBlocked, ConsultSubagent, ReadOffset, ConsultRetried, Finish,
         Escapes
    <3> QED
      BY <1>2, <3>1
  <2>3. CASE Plan(r)
    <3>1. /\ Hydrate(r) /\ UNCHANGED <<log, snapshot, call, pc, base, outcome, done>>
          /\ overtaken' = overtaken /\ pc[r] \in {"absent", "idle"}
      BY <1>1, <2>3 DEF Plan, docs, local, RTypeInv, Staged, At
    <3>2. CurrentParts => CurrentParts'
      BY <1>1, <2>0, <3>1, CurrentHydrate
    <3> QED
      BY <1>1, <3>1, <3>2 DEF CurrentInv
  <2>4. CASE Settles(r)
    <3>1. snapshot' = snapshot /\ (~ overtaken' => ~ overtaken)
      BY <1>1, <2>4, SettlesEffect DEF RTypeInv, RunTypes, Acknowledge
    <3> QED
      BY <1>1, <2>4, <3>1, CurrentSettled DEF CurrentInv
  <2>5. CASE ConsultRecorded(r)
    <3>1. snapshot' = snapshot /\ overtaken' = overtaken
      BY <2>5 DEF ConsultRecorded, docs
    <3> QED
      BY <1>1, <2>5, <3>1, CurrentConsult DEF CurrentInv
  <2> QED
    BY <1>4, <2>1, <2>2, <2>3, <2>4, <2>5 DEF RunAct, RunStep, LoopOnly, Settles
<1>5. ASSUME NEW w \in Worlds \ Runs, DirectStep(w) PROVE CurrentInv'
  BY <1>3, <1>5, DirectLog DEF run
<1>6. CASE UNCHANGED rvars
  BY <1>2, <1>6 DEF rvars, run
<1> QED
  BY <1>4, <1>5, <1>6 DEF RNext, RunAct

\* Between append and flush lies a won append, whoever's world it is.
LEMMA WhoCommits ==
    ASSUME RTypeInv, [RNext]_rvars, NEW w \in Worlds, pc[w] = "append", pc'[w] = "flush"
    PROVE  AppendWins(w)
<1>1. pc \in [Worlds -> Stages]
  BY DEF RTypeInv, WorldTypes
<1>2. WorldAct(w)
  <2>1. ASSUME NEW v \in Worlds, WorldAct(v), v # w PROVE FALSE
    BY <1>1, <2>1, WorldLocal DEF RTypeInv, OtherWorldsStay
  <2>2. ASSUME NEW r \in Runs, RunAct(r) PROVE WorldAct(w)
    <3>1. r \in Worlds /\ r = w
      BY <2>2, RunLocal, RunsAreWorlds DEF OtherWorldsStay
    <3>2. stage[r] = "running"
      BY <3>1 DEF RTypeInv, Staged
    <3>3. pc' # pc
      OBVIOUS
    <3>4. ~ LoopOnly(r) /\ ~ Settles(r) /\ ~ Plan(r) /\ ~ ConsultRecorded(r)
      BY <3>3, LoopOnlyStays, SettlesEffect
         DEF RTypeInv, world, vars, Plan, ConsultRecorded
    <3> QED
      BY <2>2, <3>1, <3>4, RunWorldActs DEF RunAct, RunStep, LoopOnly, Settles
  <2>3. ASSUME NEW v \in Worlds \ Runs, DirectStep(v) PROVE WorldAct(w)
    BY <2>1, <2>3, DirectLog
  <2>4. ~ UNCHANGED rvars
    BY DEF rvars, world, vars
  <2> QED
    BY <2>2, <2>3, <2>4 DEF RNext, RunAct
<1> QED
  BY <1>1, <1>2 DEF WorldAct, Step, New, Enter, CatchUp, NotAvailable, Body, BodyRaises,
     Rollback, AppendLoses, Discard, Flush, WriteSummary, ReadAudit, WriteAudit,
     ReadActivity, WriteActivity, WriteFails, Crash, Goto

\* A project that has a snapshot starts with a current one.
LEMMA CurrentInit ==
    ASSUME Seeds # <<>>, RInit PROVE CurrentInv
<1>1. /\ log = Seeds /\ pc = [w \in Worlds |-> "absent"]
      /\ snapshot = [state |-> {Seeds[i] : i \in 1..Len(Seeds)}, last_offset |-> Len(Seeds)]
  BY DEF RInit, Init
<1>2. \A i \in 1..Len(Seeds) : Seeds[i] \in Exec
  BY SeedsOK, ElementOfSeq
<1>3. snapshot # NoDoc
  <2>1. snapshot \in [state : SUBSET Exec, last_offset : Nat]
    BY <1>1, <1>2, SeedsOK
  <2> QED
    BY <2>1, NoDocApart
<1>4. snapshot.state = ReflectedIn(log, snapshot.last_offset)
  BY <1>1, <1>2 DEF ReflectedIn, Exec
<1>5. CurrentParts
  BY <1>1, <1>4 DEF CurrentParts, LoyalRun, FlushPending, OwnsMissing, OneFlusher
<1> QED
  BY <1>3, <1>5, RTypeInit DEF CurrentInv

\* In a project that has a snapshot, an action commits on a state other than
\* the log's only after some run has forced its token past an action that
\* state.json lacked.  (Without a snapshot a failed body's changes survive.)
THEOREM StaleOnlyAfterOvertaking ==
    ASSUME Seeds # <<>> PROVE RSpec => StaleOnlyByOvertaking
<1> DEFINE Current ==
      \A w \in Worlds :
         pc[w] = "append" /\ pc'[w] = "flush" /\ ~overtaken =>
             mem[w] = Reflected(Len(log)) \cup {call[w]}
<1>1. RInit => CurrentInv
  BY CurrentInit
<1>2. CurrentInv /\ [RNext]_rvars => CurrentInv'
  BY CurrentStep
<1>3. CurrentInv /\ [RNext]_rvars => [Current]_rvars
  <2> SUFFICES ASSUME CurrentInv, [RNext]_rvars, NEW w \in Worlds,
                      pc[w] = "append", pc'[w] = "flush", ~overtaken
               PROVE  mem[w] = Reflected(Len(log)) \cup {call[w]}
    BY DEF Current
  <2>1. RTypeInv /\ CurrentParts /\ pc \in [Worlds -> Stages]
    BY DEF CurrentInv, RTypeInv, WorldTypes
  <2>2. token[w] = Len(log)
    BY <2>1, WhoCommits DEF AppendWins
  <2> QED
    BY <2>1, <2>2 DEF CurrentParts, LoyalRun, ReflectedIn, Reflected, Effects
<1> QED
  BY <1>1, <1>2, <1>3, PTL DEF RSpec, StaleOnlyByOvertaking

-----------------------------------------------------------------------------
(* Lost races: the interval a conflict reports is known while it is settled. *)

ConflictHeld ==
    \A r \in Runs :
        /\ pc[r] = "discard" \/ Lost(r) \/ stage[r] = "resolving" => base[r] <= held[r]
        /\ pc[r] \notin {"absent", "idle"} => outcome[r] # "conflict"
SettlingInv == RTypeInv /\ ConflictHeld

\* While a lost race is being settled its interval ends where the loop looked.
LEMMA ConflictHeldStep ==
    ASSUME SettlingInv, NEW r \in Runs, RunAct(r)
    PROVE  /\ pc'[r] = "discard" \/ Lost(r)' \/ stage'[r] = "resolving" => base'[r] <= held'[r]
           /\ pc'[r] \notin {"absent", "idle"} => outcome'[r] # "conflict"
<1> USE DEF At, Move, Leave, Lost
<1>0. /\ RTypeInv /\ r \in Worlds /\ stage \in [Runs -> Stage] /\ held \in [Runs -> Nat]
      /\ pc \in [Worlds -> Stages] /\ base \in [Worlds -> Nat] /\ outcome \in [Worlds -> Outcomes]
      /\ token[r] <= Len(log) /\ Staged(r)
      /\ pc[r] = "discard" \/ Lost(r) \/ stage[r] = "resolving" => base[r] <= held[r]
      /\ pc[r] \notin {"absent", "idle"} => outcome[r] # "conflict"
  BY RunsAreWorlds DEF SettlingInv, ConflictHeld, RTypeInv, WorldTypes, RunTypes
<1>1. ASSUME UNCHANGED <<pc, base, outcome>>, pc[r] \in {"absent", "idle"},
             stage'[r] \notin {"running", "resolving"}
      PROVE  /\ pc'[r] = "discard" \/ Lost(r)' \/ stage'[r] = "resolving" => base'[r] <= held'[r]
             /\ pc'[r] \notin {"absent", "idle"} => outcome'[r] # "conflict"
  BY <1>1
<1>2. CASE Trigger(r)
  BY <1>0, <1>2 DEF Trigger, New, Goto
<1>3. CASE LoopOnly(r) /\ ~ Ask(r)
  <2>1. UNCHANGED <<pc, base, outcome>>
    BY <1>3, LoopOnlyStays DEF world, vars, local
  <2>2. stage'[r] \notin {"running", "resolving"}
    BY <1>0, <1>3 DEF LoopOnly, TriggerBlocked, Exhausted, CallOther, CallBlocked, Returned,
       ConsultBlocked, ConsultSubagent, ReadOffset, ConsultRetried, Finish, Escapes, Answered
  <2>3. pc[r] \in {"absent", "idle"}
    BY <1>0, <1>3 DEF Staged, LoopOnly, TriggerBlocked, Exhausted, CallOther, CallBlocked,
       Returned, ConsultBlocked, ConsultSubagent, ReadOffset, ConsultRetried, Finish, Escapes
  <2> QED
    BY <1>1, <2>1, <2>2, <2>3
<1>4. CASE Ask(r)
  <2>1. UNCHANGED <<pc, base, outcome, held>> /\ Lost(r)
    BY <1>4 DEF Ask, world, vars, local
  <2> QED
    BY <1>0, <2>1
<1>5. CASE Plan(r) \/ ConsultRecorded(r)
  <2>1. /\ UNCHANGED <<pc, base, outcome>> /\ stage[r] \in {"plan", "recording"}
        /\ stage'[r] \notin {"running", "resolving"}
    BY <1>0, <1>5 DEF Plan, ConsultRecorded, Answered, local
  <2> QED
    BY <1>0, <1>1, <2>1 DEF Staged
<1>6. CASE CallAction(r)
  BY <1>0, <1>6 DEF CallAction, Enter
<1>7. CASE Settles(r)
  <2>1. /\ UNCHANGED <<pc, base, outcome>> /\ stage[r] \in {"running", "resolving"}
        /\ pc[r] \in {"absent", "idle"}
    BY <1>0, <1>7, SettlesEffect DEF RTypeInv, Settles, RetryUnasked, Escalate, Resolve, Staged
  <2>2. stage'[r] \notin {"running", "resolving"}
    BY <1>0, <1>7 DEF Settles, RetryUnasked, Escalate, Resolve, Continue, Recover, Abandon
  <2> QED
    BY <1>1, <2>1, <2>2
<1>8. CASE RunFault(r)
  BY <1>0, <1>8 DEF RunFault, WriteFails, Crash
<1>9. CASE Thread(r)
  <2>1. /\ stage' = stage /\ Step(r) /\ stage[r] = "running"
        /\ held'[r] = IF pc'[r] = "discard" THEN Len(log) ELSE held[r]
    BY <1>0, <1>9 DEF Thread
  <2>2. CASE AppendLoses(r)
    BY <1>0, <2>1, <2>2 DEF AppendLoses, Goto
  <2>3. CASE Discard(r)
    BY <1>0, <2>1, <2>3 DEF Discard, Goto
  <2>4. CASE CatchUp(r) \/ Body(r) \/ Rollback(r) \/ Flush(r) \/ WriteSummary(r) \/ ReadAudit(r)
             \/ WriteAudit(r) \/ ReadActivity(r) \/ WriteActivity(r)
    BY <1>0, <2>1, <2>4 DEF CatchUp, Body, Rollback, Flush, WriteSummary, ReadAudit,
       WriteAudit, ReadActivity, WriteActivity, Goto, local
  <2>5. CASE NotAvailable(r) \/ BodyRaises(r) \/ AppendWins(r)
    BY <1>0, <2>1, <2>5 DEF NotAvailable, BodyRaises, AppendWins, Goto
  <2> QED
    BY <2>1, <2>2, <2>3, <2>4, <2>5 DEF Step
<1> QED
  BY <1>2, <1>3, <1>4, <1>5, <1>6, <1>7, <1>8, <1>9 DEF RunAct, RunStep, LoopOnly, Settles

LEMMA SettlingStep ==
    ASSUME SettlingInv, [RNext]_rvars PROVE SettlingInv'
<1>1. RTypeInv /\ RTypeInv'
  BY RTypeStep DEF SettlingInv
<1>2. ASSUME NEW v \in Runs, pc'[v] = pc[v], base'[v] = base[v], outcome'[v] = outcome[v],
             stage'[v] = stage[v], held'[v] = held[v]
      PROVE  /\ pc'[v] = "discard" \/ Lost(v)' \/ stage'[v] = "resolving" => base'[v] <= held'[v]
             /\ pc'[v] \notin {"absent", "idle"} => outcome'[v] # "conflict"
  BY <1>2 DEF SettlingInv, ConflictHeld, Lost, At
<1>3. CASE UNCHANGED rvars
  BY <1>1, <1>2, <1>3 DEF rvars, world, vars, local, run, SettlingInv, ConflictHeld
<1>4. ASSUME NEW r \in Runs, RunAct(r) PROVE ConflictHeld'
  BY <1>1, <1>2, <1>4, ConflictHeldStep, RunLocal, RunsAreWorlds
     DEF OtherWorldsStay, OtherRunsStay, ConflictHeld
<1>5. ASSUME NEW w \in Worlds \ Runs, DirectStep(w) PROVE ConflictHeld'
  <2>1. UNCHANGED run /\ OtherWorldsStay(w)
    BY <1>1, <1>5, DirectLog, WorldLocal DEF RTypeInv
  <2> QED
    BY <1>2, <2>1, RunsAreWorlds DEF run, OtherWorldsStay, ConflictHeld
<1> QED
  BY <1>1, <1>3, <1>4, <1>5 DEF RNext, RunAct, SettlingInv

\* Events that write none of the declared fields leave the view of each alone.
LEMMA DisjointFieldsLookTheSame ==
    ASSUME RTypeInv, NEW r \in Runs, AutoContinue(r), base[r] <= held[r],
           NEW f \in Reads[Head(turn[r])] \cup Writes[Head(turn[r])]
    PROVE  View(Reflected(base[r]), f) = View(Reflected(held[r]), f)
<1>1. base[r] \in Nat /\ held[r] \in Nat
  BY RunsAreWorlds DEF RTypeInv, WorldTypes, RunTypes
<1>2. Effects(held[r]) = Effects(base[r]) \cup Intervening(r)
  <2>1. 1..held[r] = (1..base[r]) \cup (base[r] + 1..held[r])
    BY <1>1
  <2> QED
    BY <2>1 DEF Effects, Intervening
<1>3. ASSUME NEW e \in Intervening(r) PROVE f \notin MayWrite(e.action)
  <2>1. /\ Unknown \notin action_writes_by_name(e.action)
        /\ f \notin action_writes_by_name(e.action)
    BY <1>3 DEF AutoContinue, fields_disjoint
  <2> QED
    BY <2>1 DEF action_writes_by_name, MayWrite
<1> QED
  BY <1>2, <1>3 DEF View, Reflected

\* A call is retried without asking only if the fields it declares look the
\* same in the log it was executed against and in the one it is retried on.
THEOREM RetriesHarmless == RSpec => AutoContinueHarmless
<1> DEFINE Harmless ==
      \A r \in Runs :
         Lost(r) /\ stage'[r] = "call" =>
             \A f \in Reads[Head(turn[r])] \cup Writes[Head(turn[r])] :
                 View(Reflected(base[r]), f) = View(Reflected(held[r]), f)
<1>1. RInit => SettlingInv
  <2> SUFFICES ASSUME RInit PROVE SettlingInv
    OBVIOUS
  <2>1. \A r \in Runs : pc[r] = "absent" /\ stage[r] = "off"
    BY RunsAreWorlds DEF RInit, Init
  <2> QED
    BY <2>1, RTypeInit DEF SettlingInv, ConflictHeld, Lost, At
<1>2. SettlingInv /\ [RNext]_rvars => SettlingInv'
  BY SettlingStep
<1>3. SettlingInv /\ [RNext]_rvars => [Harmless]_rvars
  <2> SUFFICES ASSUME SettlingInv, [RNext]_rvars, NEW r \in Runs, Lost(r), stage'[r] = "call",
                      NEW f \in Reads[Head(turn[r])] \cup Writes[Head(turn[r])]
               PROVE  View(Reflected(base[r]), f) = View(Reflected(held[r]), f)
    BY DEF Harmless
  <2>1. RTypeInv /\ base[r] <= held[r] /\ stage[r] = "running" /\ stage \in [Runs -> Stage]
    BY DEF SettlingInv, ConflictHeld, Lost, At, RTypeInv, RunTypes
  <2>2. RunAct(r)
    <3>1. CASE UNCHANGED run
      BY <2>1, <3>1 DEF run
    <3>2. ASSUME NEW v \in Runs, RunAct(v), v # r PROVE FALSE
      BY <2>1, <3>2, RunLocal DEF OtherRunsStay
    <3> QED
      BY <3>1, <3>2 DEF RNext, RunAct, DirectStep, rvars
  <2>3. AutoContinue(r)
    BY <2>1, <2>2 DEF RunAct, RunStep, Trigger, TriggerBlocked, Escapes, RunFault, Plan,
       Exhausted, CallOther, CallBlocked, CallAction, Thread, Returned, RetryUnasked, Escalate,
       Ask, Resolve, ConsultBlocked, ConsultSubagent, ReadOffset, ConsultRecorded,
       ConsultRetried, Finish, Recover, Lost, At, Move, Leave
  <2> QED
    BY <2>1, <2>3, DisjointFieldsLookTheSame
<1> QED
  BY <1>1, <1>2, <1>3, PTL DEF RSpec, AutoContinueHarmless

-----------------------------------------------------------------------------
(* Replies: an attempt that left no event never gets one later.            *)

Logged(l) == {l[i] : i \in 1..Len(l)}

\* An attempt that is over and left no event.
Past(e) == e \in Exec /\ e.nth <= done[e.by] /\ e \notin Logged(log)

\* Committed actions are numbered by the calls of their world.
CallsNumbered == \A e \in Logged(log) : e.action \in Actions => e.nth <= done[e.by]

\* Results of a call that left no event; with faults an "error" may have.
Denials == IF faults = 0 THEN {"unavailable", "error"} ELSE {"unavailable"}

\* The outcome of a decided call says whether it is in the log.
Decided(w) ==
    /\ pc[w] \in {"catchUp", "body", "append", "discard"} => outcome[w] = "none"
    /\ pc[w] # "absent" /\ outcome[w] = "ok" => call[w] \in Logged(log)
    /\ pc[w] # "absent" /\ outcome[w] \in Denials => Past(call[w])

\* A reply about a call or a consult is so.
ReplyTrue(m) ==
    m.kind = "tool" /\ "exec" \in DOMAIN m =>
        \/ m.result \in {"ok", "consulted"} /\ m.exec \in Logged(log)
        \/ m.result \in Denials /\ Past(m.exec)
        \/ m.result = "error" /\ faults # 0
RepliesInv ==
    /\ RTypeInv /\ CallsNumbered /\ faults \in Nat
    /\ \A w \in Worlds : Decided(w)
    /\ \A r \in Runs : \A i \in 1..Len(conv[r]) : ReplyTrue(conv[r][i])

\* What a step makes of finished attempts and of events: it keeps them.
Keeps == /\ \A e \in Logged(log) : e \in Logged(log')
         /\ \A e \in Exec : Past(e) => Past(e)'
         /\ \A w \in Worlds : done[w] <= done'[w]
         /\ faults' \in Nat /\ (faults' = 0 => faults = 0)

LEMMA LoggedGrows ==
    ASSUME WorldTypes, NEW e \in Exec \cup Consult, log' = Append(log, e)
    PROVE  \A x : x \in Logged(log') <=> x \in Logged(log) \/ x = e
<1>1. /\ Len(log) \in Nat /\ Len(log') = Len(log) + 1 /\ log'[Len(log')] = e
      /\ \A i \in 1..Len(log) : log'[i] = log[i]
  BY LogGrows
<1>2. \A i : i \in 1..Len(log') <=> i \in 1..Len(log) \/ i = Len(log')
  BY <1>1
<1> QED
  BY <1>1, <1>2 DEF Logged

\* A world numbers its calls, so that none that is over is ever committed.
LEMMA WorldKeeps ==
    ASSUME RepliesInv, NEW w \in Worlds, WorldAct(w) PROVE CallsNumbered' /\ Keeps
<1>0. /\ WorldTypes /\ RTypeInv /\ CallsNumbered /\ done \in [Worlds -> 0..MaxCalls]
      /\ \A e \in Logged(log) : e \in Exec \cup Consult
      /\ \A v \in Worlds : done[v] \in Nat
      /\ \A e \in Exec \cup Consult : e.by \in Worlds /\ e.nth \in Nat
  <2>1. WorldTypes /\ RTypeInv /\ CallsNumbered /\ done \in [Worlds -> 0..MaxCalls]
    BY DEF RepliesInv, RTypeInv, WorldTypes
  <2>2. \A e \in Logged(log) : e \in Exec \cup Consult
    BY <2>1, ElementOfSeq DEF Logged, WorldTypes
  <2>3. \A e \in Exec \cup Consult : e.by \in Worlds /\ e.nth \in Nat
    BY RunsAreWorlds, Bounds DEF Exec, Consult
  <2> QED
    BY <2>1, <2>2, <2>3, Bounds
<1>1. /\ \A v \in Worlds : done'[v] = done[v] \/ done'[v] = done[v] + 1
      /\ log' = log \/ AppendWins(w)
      /\ faults' = faults \/ faults' = faults + 1
  BY <1>0 DEF WorldAct, Step, New, Enter, CatchUp, NotAvailable, Body, BodyRaises, Rollback,
     AppendLoses, Discard, Flush, WriteSummary, ReadAudit, WriteAudit, ReadActivity,
     WriteActivity, WriteFails, Crash, AppendWins, local
<1>2. /\ \A v \in Worlds : done'[v] \in Nat /\ done[v] <= done'[v]
      /\ faults' \in Nat /\ (faults' = 0 => faults = 0)
  BY <1>0, <1>1 DEF RepliesInv
<1>3. CASE log' = log
  <2>1. CallsNumbered'
    BY <1>0, <1>2, <1>3 DEF CallsNumbered
  <2>2. \A e \in Exec : Past(e) => Past(e)'
    BY <1>0, <1>2, <1>3 DEF Past
  <2> QED
    BY <1>2, <1>3, <2>1, <2>2 DEF Keeps
<1>4. CASE AppendWins(w)
  <2>1. /\ log' = Append(log, call[w]) /\ call[w] \in Exec
        /\ call[w].by = w /\ call[w].nth = done[w] + 1
    BY <1>0, <1>4, Appended
  <2>2. done'[w] = done[w] + 1
    BY <1>0, <1>4 DEF AppendWins
  <2>3. \A x : x \in Logged(log') <=> x \in Logged(log) \/ x = call[w]
    BY <1>0, <2>1, LoggedGrows
  <2>4. CallsNumbered'
    <3> SUFFICES ASSUME NEW e \in Logged(log'), e.action \in Actions PROVE e.nth <= done'[e.by]
      BY DEF CallsNumbered
    <3>1. CASE e = call[w]
      BY <1>0, <2>1, <2>2, <3>1
    <3>2. CASE e \in Logged(log)
      BY <1>0, <1>2, <3>2 DEF CallsNumbered
    <3> QED
      BY <2>3, <3>1, <3>2
  <2>5. ASSUME NEW e \in Exec, Past(e) PROVE Past(e)'
    <3>1. e # call[w]
      BY <1>0, <2>1, <2>5 DEF Past
    <3> QED
      BY <1>0, <1>2, <2>3, <2>5, <3>1 DEF Past
  <2> QED
    BY <1>2, <2>3, <2>4, <2>5 DEF Keeps
<1> QED
  BY <1>1, <1>3, <1>4

\* A consult is nobody's attempt at an action.
LEMMA ConsultKeeps ==
    ASSUME RepliesInv, NEW r \in Runs, ConsultRecorded(r)
    PROVE  CallsNumbered' /\ Keeps /\ ConsultEvent(r) \in Logged(log')
<1>1. /\ log' = Append(log, ConsultEvent(r)) /\ ConsultEvent(r) \in Consult
      /\ ConsultEvent(r).action \notin Actions /\ done' = done /\ faults' = faults
  BY RunsAreWorlds, Appended DEF RepliesInv, ConsultRecorded, local
<1>2. \A x : x \in Logged(log') <=> x \in Logged(log) \/ x = ConsultEvent(r)
  BY <1>1, LoggedGrows DEF RepliesInv, RTypeInv
<1>3. CallsNumbered'
  BY <1>1, <1>2 DEF RepliesInv, CallsNumbered
<1>4. \A e \in Exec : e # ConsultEvent(r)
  BY <1>1 DEF Exec
<1>5. \A e \in Exec : Past(e) => Past(e)'
  BY <1>1, <1>2, <1>4 DEF Past
<1>6. \A v \in Worlds : done[v] \in Nat
  BY Bounds DEF RepliesInv, RTypeInv, WorldTypes
<1> QED
  BY <1>1, <1>2, <1>3, <1>5, <1>6 DEF Keeps, RepliesInv

\* The outcome of a call tells what became of it.
LEMMA DecidedStep ==
    ASSUME RepliesInv, NEW w \in Worlds, WorldAct(w) PROVE Decided(w)'
<1>0. /\ RTypeInv /\ WorldTypes /\ Decided(w) /\ CallsNumbered /\ faults \in Nat
      /\ pc \in [Worlds -> Stages] /\ outcome \in [Worlds -> Outcomes]
      /\ call[w] \in Exec /\ done \in [Worlds -> 0..MaxCalls] /\ done[w] \in Nat
  BY Bounds DEF RepliesInv, RTypeInv, WorldTypes
<1>1. Keeps
  BY WorldKeeps
<1>3. ASSUME outcome'[w] \in {"none", "conflict"},
             pc'[w] \in {"catchUp", "body", "append", "discard"} => outcome'[w] = "none"
      PROVE  Decided(w)'
  BY <1>3 DEF Decided, Denials
<1>4. ASSUME call' = call, outcome' = outcome, pc[w] # "absent",
             pc'[w] \in {"catchUp", "body", "append", "discard"} =>
                pc[w] \in {"catchUp", "body", "append", "discard"}
      PROVE  Decided(w)'
  <2>1. outcome[w] = "ok" => call[w] \in Logged(log')
    BY <1>0, <1>1, <1>4 DEF Decided, Keeps
  <2>2. outcome[w] \in Denials' => Past(call[w])'
    <3>1. ASSUME NEW e, e = call[w], outcome[w] \in Denials' PROVE Past(e)'
      BY <1>0, <1>1, <1>4, <3>1 DEF Decided, Denials, Keeps
    <3> QED
      BY <1>4, <3>1 DEF Past
  <2> QED
    BY <1>0, <1>4, <2>1, <2>2 DEF Decided
\* The call that is over is not in the log: the log only has earlier ones.
<1>5. ASSUME NotAvailable(w) \/ BodyRaises(w) PROVE Decided(w)'
  <2>1. /\ pc[w] = "body" /\ pc'[w] \in {"idle", "rollback"} /\ done'[w] = done[w] + 1
        /\ outcome'[w] \in {"unavailable", "error"} /\ call' = call /\ log' = log
    BY <1>0, <1>5 DEF NotAvailable, BodyRaises, Goto
  <2>2. call[w].by = w /\ call[w].nth = done[w] + 1 /\ call[w].action \in Actions
    BY <1>0, <2>1 DEF WorldTypes, Exec
  <2>3. call[w] \notin Logged(log)
    BY <1>0, <2>2 DEF CallsNumbered
  <2>4. Past(call[w])'
    BY <1>0, <2>1, <2>2, <2>3 DEF Past
  <2> QED
    BY <2>1, <2>4 DEF Decided, Denials
<1>6. CASE AppendWins(w)
  <2>1. /\ log' = Append(log, call[w]) /\ call' = call /\ outcome'[w] = "ok"
        /\ pc'[w] = "flush"
    BY <1>0, <1>6 DEF AppendWins, Goto
  <2>2. call[w] \in Logged(log')
    BY <1>0, <2>1, LoggedGrows
  <2> QED
    BY <2>1, <2>2 DEF Decided, Denials
<1>7. CASE New(w)
  BY <1>0, <1>3, <1>7 DEF New, Goto
<1>8. ASSUME NEW a \in Actions, Enter(w, a) PROVE Decided(w)'
  BY <1>0, <1>3, <1>8 DEF Enter
<1>9. CASE Discard(w)
  BY <1>0, <1>3, <1>9 DEF Discard, Goto
<1>10. CASE CatchUp(w) \/ Body(w) \/ Rollback(w) \/ AppendLoses(w)
  <2>1. /\ call' = call /\ outcome' = outcome /\ pc[w] # "absent"
        /\ pc'[w] \in {"catchUp", "body", "append", "discard"} =>
              pc[w] \in {"catchUp", "body", "append", "discard"}
    BY <1>0, <1>10 DEF CatchUp, Body, Rollback, AppendLoses, Goto, local
  <2> QED
    BY <1>4, <2>1
<1>11. CASE Flush(w) \/ WriteSummary(w) \/ ReadAudit(w) \/ WriteAudit(w) \/ ReadActivity(w)
            \/ WriteActivity(w)
  <2>1. /\ call' = call /\ outcome' = outcome /\ pc[w] # "absent"
        /\ pc'[w] \notin {"catchUp", "body", "append", "discard"}
    BY <1>0, <1>11 DEF Flush, WriteSummary, ReadAudit, WriteAudit, ReadActivity,
       WriteActivity, Goto, local
  <2> QED
    BY <1>4, <2>1
\* Whoever is told of a failed write may have committed.
<1>12. CASE WriteFails(w) \/ Crash(w)
  <2>1. /\ pc'[w] = "absent" \/ (pc'[w] = "idle" /\ outcome'[w] = "error")
        /\ faults' # 0
    BY <1>0, <1>12 DEF WriteFails, Crash
  <2> QED
    BY <2>1 DEF Decided, Denials
<1> QED
  BY <1>5, <1>6, <1>7, <1>8, <1>9, <1>10, <1>11, <1>12 DEF WorldAct, Step

\* The outcomes of the other worlds stay what they were, and true.
LEMMA DecidedStays ==
    ASSUME RepliesInv, Keeps, NEW w \in Worlds,
           pc'[w] = pc[w], call'[w] = call[w], outcome'[w] = outcome[w]
    PROVE  Decided(w)'
<1>0. Decided(w) /\ call[w] \in Exec
  BY DEF RepliesInv, RTypeInv, WorldTypes
<1>1. outcome[w] = "ok" /\ pc[w] # "absent" => call[w] \in Logged(log')
  BY <1>0 DEF Decided, Keeps
<1>2. ASSUME NEW e, e = call[w], outcome[w] \in Denials', pc[w] # "absent"
      PROVE  Past(e)'
  BY <1>0, <1>2 DEF Decided, Denials, Keeps
<1>3. outcome[w] \in Denials' /\ pc[w] # "absent" => Past(call[w])'
  BY <1>2 DEF Past
<1> QED
  BY <1>0, <1>1, <1>3 DEF Decided

\* So do the replies that are in a conversation.
LEMMA RepliesStay ==
    ASSUME RepliesInv, Keeps, NEW r \in Runs, NEW i \in 1..Len(conv[r]),
           NEW m, m = conv[r][i]
    PROVE  ReplyTrue(m)'
<1>1. ReplyTrue(m)
  BY DEF RepliesInv
<1> QED
  BY <1>1 DEF ReplyTrue, Denials, Keeps, Past

\* What a step adds to a run's conversation is so.
LEMMA RepliesNew ==
    ASSUME RepliesInv, NEW r \in Runs, RunAct(r), Keeps, NEW i \in 1..Len(conv'[r]),
           NEW m, m = conv'[r][i]
    PROVE  ReplyTrue(m)'
<1>0. /\ RTypeInv /\ conv \in [Runs -> Seq(Message)] /\ conv[r] \in Seq(Message)
      /\ outcome[r] \in Outcomes /\ call[r] \in Exec /\ Decided(r) /\ r \in Worlds
  BY RunsAreWorlds DEF RepliesInv, RTypeInv, RunTypes, WorldTypes
<1>1. CASE conv'[r] = conv[r]
  BY <1>1, RepliesStay
<1>2. ASSUME NEW n \in Message, conv'[r] = Append(conv[r], n), ReplyTrue(n)'
      PROVE  ReplyTrue(m)'
  <2>1. Len(conv[r]) \in Nat /\ Len(conv'[r]) = Len(conv[r]) + 1
    BY <1>0, <1>2, AppendProperties
  <2>2. conv'[r][Len(conv[r]) + 1] = n /\ \A k \in 1..Len(conv[r]) : conv'[r][k] = conv[r][k]
    BY <1>0, <1>2, AppendProperties
  <2>3. CASE i = Len(conv[r]) + 1
    BY <1>2, <2>2, <2>3
  <2>4. CASE i # Len(conv[r]) + 1
    <3>1. i \in 1..Len(conv[r]) /\ m = conv[r][i]
      BY <2>1, <2>2, <2>4
    <3> QED
      BY <3>1, RepliesStay
  <2> QED
    BY <2>3, <2>4
<1>3. ASSUME Plan(r) PROVE ReplyTrue(m)'
  <2>1. PICK n \in Nat : conv' = [conv EXCEPT ![r] = Append(@, PlanMsg(n))]
    BY <1>3, Caps DEF Plan
  <2>2. PlanMsg(n) \in Message /\ ReplyTrue(PlanMsg(n))'
    BY MessageType DEF ReplyTrue, PlanMsg
  <2> QED
    BY <1>0, <1>2, <2>1, <2>2
<1>4. ASSUME CallOther(r) \/ CallBlocked(r) \/ ConsultBlocked(r) PROVE ReplyTrue(m)'
  <2>1. PICK x \in {"other", "blocked"} : conv' = [conv EXCEPT ![r] = Append(@, Reply(x))]
    BY <1>4 DEF CallOther, CallBlocked, ConsultBlocked, Answered
  <2>2. Reply(x) \in Message /\ ReplyTrue(Reply(x))'
    BY MessageType DEF ReplyTrue, Reply, Results
  <2> QED
    BY <1>0, <1>2, <2>1, <2>2
<1>5. ASSUME Returned(r) PROVE ReplyTrue(m)'
  <2>1. /\ conv' = [conv EXCEPT ![r] = Append(@, CallReply(r))] /\ pc[r] = "idle"
        /\ outcome[r] \in {"ok", "unavailable", "error"} /\ UNCHANGED <<log, done, faults>>
    BY <1>5 DEF Returned, Answered, world, vars, local
  <2>2. /\ CallReply(r) \in Message /\ CallReply(r).result = outcome[r]
        /\ CallReply(r).exec = call[r]
    BY <1>0, MessageType DEF CallReply
  <2>3. \/ outcome[r] = "ok" /\ call[r] \in Logged(log')
        \/ outcome[r] \in Denials /\ Past(call[r])
        \/ outcome[r] = "error" /\ faults # 0
    BY <1>0, <2>1 DEF Decided, Denials
  <2> DEFINE n == CallReply(r)
  <2>4. ASSUME NEW k, k = n PROVE ReplyTrue(k)'
    BY <2>1, <2>2, <2>3, <2>4 DEF ReplyTrue, Denials, Past
  <2> QED
    BY <1>0, <1>2, <2>1, <2>2, <2>4 DEF ReplyTrue
<1>6. ASSUME ConsultRecorded(r) PROVE ReplyTrue(m)'
  <2> DEFINE e == ConsultEvent(r)
  <2>1. /\ conv' = [conv EXCEPT ![r] = Append(@, ConsultReply(e))]
        /\ e \in Consult /\ e \in Logged(log')
    BY <1>0, <1>6, Appended, ConsultKeeps DEF ConsultRecorded, Answered
  <2>2. ConsultReply(e) \in Message
    BY <2>1, MessageType
  <2>3. ASSUME NEW k, k = ConsultReply(e) PROVE ReplyTrue(k)'
    BY <2>1, <2>3 DEF ReplyTrue, ConsultReply
  <2>4. PICK k \in Message : k = ConsultReply(e)
    BY <2>2
  <2>5. conv'[r] = Append(conv[r], k)
    BY <1>0, <2>1, <2>4
  <2> QED
    BY <1>2, <2>3, <2>4, <2>5
<1>7. ASSUME Settles(r) PROVE ReplyTrue(m)'
  <2>1. \/ conv'[r] = conv[r]
        \/ conv'[r] = Append(DropTurn(conv[r]), NoteMsg)
    BY <1>0, <1>7 DEF Settles, RetryUnasked, Escalate, Resolve, Continue, Recover, Abandon
  <2>2. CASE conv'[r] = Append(DropTurn(conv[r]), NoteMsg)
    <3>1. HasLastPlan(conv[r])
      BY <1>0, <1>7 DEF Settles, RetryUnasked, Escalate, Resolve, Lost, At, RTypeInv, Staged
    <3>2. PICK a \in Plans(conv[r]) : DropTurn(conv[r]) = SubSeq(conv[r], 1, a - 1)
      BY <1>0, <3>1, DropTurnType
    <3> DEFINE b == DropTurn(conv[r])
    <3>3. a \in 1..Len(conv[r]) /\ Len(conv[r]) \in Nat /\ b \in Seq(Message)
      BY <1>0, <3>1, DropTurnType DEF Plans
    <3>4. Len(b) = a - 1 /\ \A k \in 1..a - 1 : b[k] = conv[r][k]
      BY <1>0, <3>2, <3>3, SubSeqProperties
    <3>5. conv'[r] = Append(b, NoteMsg)
      BY <2>2
    <3> HIDE DEF b
    <3>6. NoteMsg \in Message
      BY MessageType
    <3>7. Len(conv'[r]) = a /\ conv'[r][a] = NoteMsg /\ \A k \in 1..a - 1 : conv'[r][k] = b[k]
      BY <3>3, <3>4, <3>5, <3>6, AppendProperties
    <3>8. CASE i = a
      BY <3>7, <3>8 DEF ReplyTrue, NoteMsg
    <3>9. CASE i # a
      <4>1. i \in 1..Len(conv[r]) /\ m = conv[r][i]
        BY <3>3, <3>4, <3>7, <3>9
      <4> QED
        BY <4>1, RepliesStay
    <3> QED
      BY <3>8, <3>9
  <2> QED
    BY <1>1, <2>1, <2>2
<1>8. CASE Trigger(r) \/ TriggerBlocked(r) \/ Exhausted(r) \/ CallAction(r) \/ Thread(r)
           \/ Ask(r) \/ ConsultSubagent(r) \/ ReadOffset(r) \/ ConsultRetried(r)
           \/ Finish(r) \/ Escapes(r) \/ RunFault(r)
  BY <1>1, <1>8 DEF Trigger, TriggerBlocked, Exhausted, CallAction, Thread, Ask,
     ConsultSubagent, ReadOffset, ConsultRetried, Finish, Escapes, RunFault
<1> QED
  BY <1>3, <1>4, <1>5, <1>6, <1>7, <1>8 DEF RunAct, RunStep, Settles

\* Every step keeps what is known about finished calls and their replies.
LEMMA RepliesStep ==
    ASSUME RepliesInv, [RNext]_rvars PROVE RepliesInv' /\ Keeps
<1>1. RTypeInv /\ RTypeInv' /\ faults \in Nat /\ done \in [Worlds -> 0..MaxCalls]
  BY RTypeStep DEF RepliesInv, RTypeInv, WorldTypes
<1>2. ASSUME UNCHANGED <<log, done, faults>> PROVE CallsNumbered' /\ Keeps
  <2>1. CallsNumbered'
    BY <1>2 DEF RepliesInv, CallsNumbered
  <2>2. \A w \in Worlds : done[w] \in Nat
    BY <1>1, Bounds
  <2> QED
    BY <1>1, <1>2, <2>1, <2>2 DEF Keeps, Past
\* The parts about worlds, and about runs.
<1>3. ASSUME NEW w \in Worlds, WorldAct(w)
      PROVE  CallsNumbered' /\ Keeps /\ \A v \in Worlds : Decided(v)'
  <2>1. CallsNumbered' /\ Keeps
    BY <1>3, WorldKeeps
  <2>2. Decided(w)'
    BY <1>3, DecidedStep
  <2>3. \A v \in Worlds \ {w} : Decided(v)'
    BY <1>1, <1>3, <2>1, WorldLocal, DecidedStays DEF RTypeInv, OtherWorldsStay
  <2> QED
    BY <2>1, <2>2, <2>3
<1>4. ASSUME NEW r \in Runs, RunAct(r)
      PROVE  CallsNumbered' /\ Keeps /\ \A v \in Worlds : Decided(v)'
  <2>1. CASE Trigger(r) \/ CallAction(r) \/ Thread(r) \/ RunFault(r)
    BY <1>3, <2>1, RunWorldActs, RunsAreWorlds
  <2>2. CASE LoopOnly(r) \/ Plan(r) \/ Settles(r)
    <3>1. UNCHANGED <<log, pc, call, outcome, done, faults>>
      BY <1>1, <2>2, LoopOnlyStays DEF Plan, Settles, RetryUnasked, Escalate, Resolve,
         world, vars, local
    <3>2. CallsNumbered' /\ Keeps
      BY <1>2, <3>1
    <3> QED
      BY <1>1, <3>1, <3>2, DecidedStays
  <2>3. CASE ConsultRecorded(r)
    <3>1. UNCHANGED <<pc, call, outcome, done, faults>>
      BY <2>3 DEF ConsultRecorded, local
    <3>2. CallsNumbered' /\ Keeps
      BY <2>3, ConsultKeeps
    <3> QED
      BY <1>1, <3>1, <3>2, DecidedStays
  <2> QED
    BY <1>4, <2>1, <2>2, <2>3 DEF RunAct, RunStep, LoopOnly, Settles
<1>5. ASSUME NEW v \in Runs, conv'[v] = conv[v], Keeps, NEW i \in 1..Len(conv'[v])
      PROVE  ReplyTrue(conv[v][i])'
  <2>1. ASSUME NEW m, m = conv[v][i] PROVE ReplyTrue(m)'
    BY <1>5, <2>1, RepliesStay
  <2> QED
    BY <1>5, <2>1 DEF ReplyTrue
<1>6. CASE UNCHANGED rvars
  <2>1. UNCHANGED <<log, pc, call, outcome, done, faults, conv>>
    BY <1>6 DEF rvars, world, vars, local, run
  <2>2. CallsNumbered' /\ Keeps
    BY <1>2, <2>1
  <2>3. \A v \in Worlds : Decided(v)'
    BY <2>1, <2>2, DecidedStays
  <2>4. \A v \in Runs : \A i \in 1..Len(conv'[v]) : ReplyTrue(conv[v][i])'
    BY <1>5, <2>1, <2>2
  <2> QED
    BY <1>1, <2>1, <2>2, <2>3, <2>4 DEF RepliesInv, Keeps
<1>7. ASSUME NEW r \in Runs, RunAct(r) PROVE RepliesInv' /\ Keeps
  <2>1. /\ CallsNumbered' /\ Keeps /\ \A v \in Worlds : Decided(v)'
        /\ OtherRunsStay(r)
    BY <1>1, <1>4, <1>7, RunLocal
  <2>2. ASSUME NEW i \in 1..Len(conv'[r]) PROVE ReplyTrue(conv[r][i])'
    <3>1. ASSUME NEW m, m = conv'[r][i] PROVE ReplyTrue(m)'
      BY <1>7, <2>1, <3>1, RepliesNew
    <3> QED
      BY <3>1 DEF ReplyTrue
  <2>3. \A v \in Runs \ {r} : \A i \in 1..Len(conv'[v]) : ReplyTrue(conv[v][i])'
    BY <1>5, <2>1 DEF OtherRunsStay
  <2> QED
    BY <1>1, <2>1, <2>2, <2>3 DEF RepliesInv, Keeps
<1>8. ASSUME NEW w \in Worlds \ Runs, DirectStep(w) PROVE RepliesInv' /\ Keeps
  <2>1. WorldAct(w) /\ conv' = conv
    BY <1>8, DirectLog DEF run
  <2>2. CallsNumbered' /\ Keeps /\ \A v \in Worlds : Decided(v)'
    BY <1>3, <2>1
  <2>3. \A v \in Runs : \A i \in 1..Len(conv'[v]) : ReplyTrue(conv[v][i])'
    BY <1>5, <2>1, <2>2
  <2> QED
    BY <1>1, <2>2, <2>3 DEF RepliesInv, Keeps
<1> QED
  BY <1>6, <1>7, <1>8 DEF RNext, RunAct

\* Nothing is done yet, and nothing said about it.
LEMMA RepliesInit == RInit => RepliesInv
<1> SUFFICES ASSUME RInit PROVE RepliesInv
  OBVIOUS
<1>1. RTypeInv /\ faults = 0 /\ log = Seeds
  BY RTypeInit DEF RInit, Init
<1>2. \A w \in Worlds : Decided(w)
  BY DEF RInit, Init, Decided
<1>3. \A r \in Runs : Len(conv[r]) = 0
  BY EmptySeq DEF RInit
<1>4. CallsNumbered
  <2> SUFFICES ASSUME NEW i \in 1..Len(Seeds) PROVE Seeds[i].nth <= done[Seeds[i].by]
    BY <1>1 DEF CallsNumbered, Logged
  <2>1. Seeds[i] \in Exec /\ Seeds[i].nth = 0
    BY SeedsOK, ElementOfSeq
  <2> QED
    BY <2>1 DEF RInit, Init, Exec
<1> QED
  BY <1>1, <1>2, <1>3, <1>4 DEF RepliesInv

\* What a reply tells the model is so, whatever crashes or fails to be written:
\* "ok" for an event in the log, "unavailable" and "error" for a call that left
\* none, "consulted" for a consult that is in the log; only an "error" after a
\* fault may be of a call that is in it.
THEOREM RepliesAreTrue == RSpec => []RepliesTrue
<1>1. RepliesInv /\ [RNext]_rvars => RepliesInv'
  BY RepliesStep
<1>2. RepliesInv => RepliesTrue
  <2> SUFFICES ASSUME RepliesInv, NEW r \in Runs, NEW i \in 1..Len(conv[r]),
                      conv[r][i].kind = "tool", "exec" \in DOMAIN conv[r][i]
               PROVE  LET m == conv[r][i] IN
                      \/ m.result \in {"ok", "consulted"} <=> m.exec \in Effects(Len(log))
                      \/ m.result = "error" /\ faults > 0
    BY DEF RepliesTrue
  <2>1. ReplyTrue(conv[r][i]) /\ (faults # 0 => faults > 0)
    BY DEF RepliesInv
  <2> QED
    BY <2>1 DEF ReplyTrue, Denials, Past, Logged, Effects
<1> QED
  BY <1>1, <1>2, RepliesInit, PTL DEF RSpec

-----------------------------------------------------------------------------
(* The promise of DurableProject, until a token is forced past an action    *)
(* that state.json lacks: commits are made on current states by the owner   *)
(* of what is missing (CurrentParts), and a flush misses consults at most.  *)

\* A call that was shown, and has run, is the only one of its kind in memory.
OnceShown(w) ==
    pc[w] = "append" =>
        \A e \in mem[w] : e.action = call[w].action /\ e.action \in Once => e = call[w]

PromiseInv == CurrentInv /\ RepliesInv /\ \A w \in Worlds : OnceShown(w)

\* Only a body that has just run gets to its append.
LEMMA OnceShownStep ==
    ASSUME RTypeInv, [RNext]_rvars, NEW w \in Worlds, OnceShown(w) PROVE OnceShown(w)'
<1>0. WorldTypes /\ pc \in [Worlds -> Stages] /\ mem \in [Worlds -> SUBSET Exec]
  BY DEF RTypeInv, WorldTypes
<1>1. ASSUME pc'[w] = pc[w], mem'[w] = mem[w], call'[w] = call[w] PROVE OnceShown(w)'
  BY <1>1 DEF OnceShown
<1>2. ASSUME WorldAct(w) PROVE OnceShown(w)'
  <2> SUFFICES ASSUME pc'[w] = "append" PROVE OnceShown(w)'
    BY DEF OnceShown
  <2>1. Body(w)
    BY <1>0, <1>2 DEF WorldAct, Step, New, Enter, CatchUp, NotAvailable, BodyRaises, Rollback,
       AppendWins, AppendLoses, Discard, Flush, WriteSummary, ReadAudit, WriteAudit,
       ReadActivity, WriteActivity, WriteFails, Crash, Goto
  <2>2. /\ Shown(call[w].action, mem[w]) /\ call' = call
        /\ mem'[w] = mem[w] \cup {call[w]}
    BY <1>0, <2>1 DEF Body, local
  <2> QED
    BY <2>2 DEF OnceShown, Shown
<1>3. ASSUME NEW v \in Worlds, v # w, OtherWorldsStay(v) PROVE OnceShown(w)'
  BY <1>1, <1>3 DEF OtherWorldsStay
<1>4. ASSUME NEW r \in Runs, RunAct(r), r = w PROVE OnceShown(w)'
  <2>1. CASE LoopOnly(r) \/ ConsultRecorded(r)
    BY <1>1, <2>1, LoopOnlyStays DEF world, vars, local, ConsultRecorded
  <2>2. CASE Plan(r) \/ Settles(r)
    <3>1. pc[w] \in {"absent", "idle"} /\ pc' = pc
      BY <1>4, <2>2 DEF RTypeInv, Staged, Plan, Settles, RetryUnasked, Escalate, Resolve, Lost, At
    <3> QED
      BY <3>1 DEF OnceShown
  <2> QED
    BY <1>2, <1>4, <2>1, <2>2, RunWorldActs DEF RunAct, RunStep, LoopOnly, Settles
<1>5. ASSUME NEW r \in Runs, RunAct(r) PROVE OnceShown(w)'
  BY <1>3, <1>4, <1>5, RunLocal, RunsAreWorlds
<1>6. ASSUME NEW v \in Worlds \ Runs, DirectStep(v) PROVE OnceShown(w)'
  BY <1>0, <1>2, <1>3, <1>6, DirectLog, WorldLocal
<1>7. CASE UNCHANGED rvars
  BY <1>1, <1>7 DEF rvars, world, vars, local
<1> QED
  BY <1>5, <1>6, <1>7 DEF RNext, RunAct

\* The steps that the promise is about; only settling forces a token.
LEMMA VisibleSteps ==
    ASSUME RTypeInv, [RNext]_rvars
    PROVE  /\ \/ UNCHANGED <<log, snapshot>>
              \/ \E w \in Worlds : AppendWins(w) \/ Flush(w)
              \/ \E r \in Runs : ConsultRecorded(r)
           /\ overtaken => overtaken'
<1>1. ASSUME NEW w \in Worlds, WorldAct(w)
      PROVE  UNCHANGED <<log, snapshot>> \/ AppendWins(w) \/ Flush(w)
  BY <1>1 DEF WorldAct, Step, New, Enter, CatchUp, NotAvailable, Body, BodyRaises,
     Rollback, AppendLoses, Discard, WriteSummary, ReadAudit, WriteAudit,
     ReadActivity, WriteActivity, WriteFails, Crash, docs
<1>2. ASSUME NEW r \in Runs, RunAct(r)
      PROVE  /\ UNCHANGED <<log, snapshot>> \/ AppendWins(r) \/ Flush(r) \/ ConsultRecorded(r)
             /\ overtaken => overtaken'
  <2>1. CASE Trigger(r) \/ CallAction(r) \/ Thread(r) \/ RunFault(r)
    <3>1. overtaken' = overtaken
      BY <2>1 DEF Trigger, CallAction, Thread, RunFault
    <3> QED
      BY <1>1, <2>1, <3>1, RunWorldActs, RunsAreWorlds
  <2>2. CASE LoopOnly(r) \/ Plan(r)
    BY <2>2, LoopOnlyStays DEF LoopOnly, TriggerBlocked, Exhausted, CallOther, CallBlocked,
       Returned, Ask, ConsultBlocked, ConsultSubagent, ReadOffset, ConsultRetried, Finish,
       Escapes, Plan, world, vars, docs
  <2>3. CASE Settles(r)
    BY <2>3, SettlesEffect DEF RTypeInv, RunTypes, Acknowledge
  <2>4. CASE ConsultRecorded(r)
    BY <2>4 DEF ConsultRecorded
  <2> QED
    BY <1>2, <2>1, <2>2, <2>3, <2>4 DEF RunAct, RunStep, LoopOnly, Settles
<1>3. ASSUME NEW w \in Worlds \ Runs, DirectStep(w)
      PROVE  /\ UNCHANGED <<log, snapshot>> \/ AppendWins(w) \/ Flush(w)
             /\ overtaken => overtaken'
  BY <1>1, <1>3, DirectLog DEF run
<1>4. CASE UNCHANGED rvars
  BY <1>4 DEF rvars, world, vars, docs, run
<1> QED
  BY <1>2, <1>3, <1>4, RunsAreWorlds DEF RNext, RunAct

\* The model's words for the promise's.
LEMMA PromiseWords ==
    ASSUME PromiseInv, ~ overtaken
    PROVE  /\ Unforced!Committed = ReflectedIn(log, Len(log))
           /\ Published = ReflectedIn(log, snapshot.last_offset)
           /\ \A f \in Unforced!Unpublished :
                 \E i \in snapshot.last_offset + 1..Len(log) :
                    log[i] = f /\ log[i].action \in Actions
<1>1. /\ snapshot # NoDoc /\ CurrentParts /\ Len(log) \in Nat
      /\ snapshot.last_offset \in 1..Len(log)
  BY DEF PromiseInv, CurrentInv, RTypeInv, WorldTypes
<1>2. Unforced!Committed = ReflectedIn(log, Len(log))
  BY DEF Unforced!Committed, Unforced!CommittedBy, ReflectedIn
<1>3. Published = ReflectedIn(log, snapshot.last_offset)
  BY <1>1 DEF Published, CurrentParts
<1>4. ASSUME NEW f \in Unforced!Unpublished
      PROVE  \E i \in snapshot.last_offset + 1..Len(log) :
                log[i] = f /\ log[i].action \in Actions
  <2>1. f \in ReflectedIn(log, Len(log)) /\ f \notin ReflectedIn(log, snapshot.last_offset)
    BY <1>2, <1>3, <1>4 DEF Unforced!Unpublished
  <2>2. PICK i \in 1..Len(log) : log[i] = f /\ log[i].action \in Actions
    BY <2>1 DEF ReflectedIn
  <2>3. i \notin 1..snapshot.last_offset
    BY <2>1, <2>2 DEF ReflectedIn
  <2>4. i \in snapshot.last_offset + 1..Len(log)
    BY <1>1, <2>3
  <2> QED
    BY <2>2, <2>4
<1> QED
  BY <1>2, <1>3, <1>4

\* A won append commits what its author may commit.
LEMMA PromiseCommit ==
    ASSUME PromiseInv, ~ overtaken, NEW w \in Worlds, AppendWins(w)
    PROVE  call[w] \in Exec /\ Unforced!Commit(call[w])
<1>1. RTypeInv /\ WorldTypes /\ CurrentParts /\ CallsNumbered /\ OnceShown(w)
  BY DEF PromiseInv, CurrentInv, RepliesInv, RTypeInv
<1>2. /\ token[w] = Len(log) /\ pc[w] = "append" /\ snapshot' = snapshot
      /\ done[w] \in Nat
  BY <1>1, Bounds DEF AppendWins, Goto, docs, WorldTypes
<1>3. /\ log' = Append(log, call[w]) /\ call[w] \in Exec /\ call[w].by = w
      /\ call[w].nth = done[w] + 1 /\ call[w].action \in Actions
  BY <1>1, Appended
<1>4. mem[w] = ReflectedIn(log, Len(log)) \cup {call[w]}
  BY <1>1, <1>2 DEF CurrentParts, LoyalRun
<1>5. call[w] \notin ReflectedIn(log, Len(log))
  <2> SUFFICES ASSUME call[w] \in Logged(log) PROVE FALSE
    BY DEF ReflectedIn, Logged
  <2>1. done[w] + 1 <= done[w]
    BY <1>1, <1>3 DEF CallsNumbered
  <2> QED
    BY <1>2, <2>1
<1>6. Unforced!Allowed(call[w])
  <2> SUFFICES ASSUME call[w].action \in Once, NEW f \in ReflectedIn(log, Len(log)),
                      f.action = call[w].action
               PROVE  FALSE
    BY PromiseWords DEF Unforced!Allowed
  <2>1. f = call[w]
    BY <1>1, <1>2, <1>4 DEF OnceShown
  <2> QED
    BY <1>5, <2>1
<1>7. ASSUME NEW f \in Unforced!Unpublished PROVE f.by = call[w].by
  BY <1>1, <1>2, <1>3, PromiseWords DEF CurrentParts, OwnsMissing
<1> QED
  BY <1>2, <1>3, <1>5, <1>6, <1>7, PromiseWords DEF Unforced!Commit, Published

\* A flush publishes all that is committed: what came after the event that is
\* flushed are consults.
LEMMA PromisePublish ==
    ASSUME PromiseInv, ~ overtaken, NEW w \in Worlds, Flush(w) PROVE Unforced!Publish
<1>1. RTypeInv /\ WorldTypes /\ CurrentParts /\ Len(log) \in Nat
  BY DEF PromiseInv, CurrentInv, RTypeInv, WorldTypes
<1>2. /\ pc[w] = "flush" /\ log' = log
      /\ snapshot' = [state |-> mem[w], last_offset |-> token[w]]
  BY DEF Flush, Goto
<1>3. snapshot' # NoDoc
  <2>1. mem[w] \in SUBSET Exec /\ token[w] \in Nat
    BY <1>1 DEF WorldTypes
  <2> QED
    BY <1>2, <2>1, NoDocApart
<1>4. /\ mem[w] = ReflectedIn(log, token[w])
      /\ \A i \in token[w] + 1..Len(log) : log[i].action \notin Actions
      /\ token[w] \in 1..Len(log)
  BY <1>1, <1>2 DEF CurrentParts, FlushPending, WorldTypes
<1>5. ReflectedIn(log, token[w]) = ReflectedIn(log, Len(log))
  <2>1. \A i \in 1..Len(log) : i \in 1..token[w] \/ log[i].action \notin Actions
    BY <1>1, <1>4
  <2>2. \A i \in 1..token[w] : i \in 1..Len(log)
    BY <1>1, <1>4
  <2> QED
    BY <2>1, <2>2 DEF ReflectedIn
<1> QED
  BY <1>2, <1>3, <1>4, <1>5, PromiseWords DEF Unforced!Publish, Published

\* A consult is a note.
LEMMA PromiseNote ==
    ASSUME PromiseInv, NEW r \in Runs, ConsultRecorded(r) PROVE Unforced!Note
<1>1. RTypeInv /\ WorldTypes
  BY DEF PromiseInv, CurrentInv, RTypeInv
<1>2. /\ log' = Append(log, ConsultEvent(r)) /\ ConsultEvent(r) \in Exec \cup Consult
      /\ ConsultEvent(r).action \notin Actions /\ snapshot' = snapshot
  BY <1>1, RunsAreWorlds, Appended DEF ConsultRecorded, docs
<1>3. Len(log') = Len(log) + 1 /\ log'[Len(log')] = ConsultEvent(r)
  BY <1>1, <1>2, LogGrows
<1> QED
  BY <1>2, <1>3 DEF Unforced!Note, Published

\* Every step forces a token, or is one that was promised.
LEMMA PromiseStep ==
    ASSUME PromiseInv, [RNext]_rvars PROVE [Unforced!Next]_(Unforced!vars)
<1> SUFFICES ASSUME ~ overtaken' PROVE [Unforced!Next]_(Unforced!vars)
  BY DEF Unforced!Next
<1>1. ~ overtaken /\ RTypeInv
  BY VisibleSteps DEF PromiseInv, CurrentInv
<1>2. CASE UNCHANGED <<log, snapshot>>
  <2>1. overtaken' = overtaken
    BY <1>1, RTypeStep DEF RTypeInv, RunTypes
  <2> QED
    BY <1>2, <2>1 DEF Unforced!vars, Published
<1>3. CASE \E w \in Worlds : AppendWins(w)
  BY <1>1, <1>3, PromiseCommit DEF Unforced!Next, Unforced!Promised
<1>4. CASE \E w \in Worlds : Flush(w)
  BY <1>1, <1>4, PromisePublish DEF Unforced!Next, Unforced!Promised
<1>5. CASE \E r \in Runs : ConsultRecorded(r)
  BY <1>1, <1>5, PromiseNote DEF Unforced!Next, Unforced!Promised
<1> QED
  BY <1>1, <1>2, <1>3, <1>4, <1>5, VisibleSteps

\* In a project that has a snapshot, runs, consults and direct callers keep the
\* promise, whatever crashes or fails, until a token is forced past an action
\* that state.json lacks.
THEOREM RuntimeDurability ==
    ASSUME Seeds # <<>> PROVE RSpec => DurableUntilOvertaken
<1>1. RInit => Unforced!Init
  <2> SUFFICES ASSUME RInit PROVE Unforced!Init
    OBVIOUS
  <2>1. /\ log = Seeds /\ overtaken = FALSE /\ snapshot # NoDoc
        /\ snapshot.state = {Seeds[i] : i \in 1..Len(Seeds)}
    BY CurrentInit DEF CurrentInv, RInit, Init
  <2>2. \A i \in 1..Len(Seeds) : Seeds[i].action \in Actions
    BY SeedActions
  <2> QED
    BY <2>1, <2>2 DEF Unforced!Init, Unforced!Committed, Unforced!CommittedBy, Published
<1>2. RInit => PromiseInv
  BY CurrentInit, RepliesInit DEF PromiseInv, OnceShown, RInit, Init
<1>3. PromiseInv /\ [RNext]_rvars => PromiseInv'
  BY CurrentStep, RepliesStep, OnceShownStep DEF PromiseInv, RepliesInv
<1>4. PromiseInv /\ [RNext]_rvars => [Unforced!Next]_(Unforced!vars)
  BY PromiseStep
<1> QED
  BY <1>1, <1>2, <1>3, <1>4, PTL DEF RSpec, DurableUntilOvertaken, Unforced!Spec

\* The theorems about DurableProject, read for a project with runs.
Promise == INSTANCE DurableProofs
           WITH history <- log, published <- Published, forced <- overtaken

\* Until then an action that is allowed once is committed once.
THEOREM OnceUntilOvertaken ==
    ASSUME Seeds # <<>> PROVE RSpec => []OnceUnlessOvertaken
<1>1. Promise!SeedsAllowed
  BY SeedsOK, ActionSets, SeedActions DEF Promise!SeedsAllowed
<1>2. Promise!Spec => [](Promise!OnlyOnce /\ Promise!PublishedIsPast /\ Promise!OneAuthor)
  BY <1>1, Promise!PromiseKept
<1>3. Unforced!Init => Promise!Init
  BY DEF Unforced!Init, Promise!Init, Unforced!Committed, Promise!Committed,
     Unforced!CommittedBy, Promise!CommittedBy
<1>4. [Unforced!Next]_(Unforced!vars) => [Promise!Next]_(Promise!vars)
  BY DEF Unforced!Next, Unforced!vars, Unforced!Promised, Unforced!Note, Unforced!Publish,
     Unforced!Commit, Unforced!Allowed, Unforced!Unpublished, Unforced!Committed,
     Unforced!CommittedBy, Promise!Next, Promise!vars, Promise!Promised, Promise!Note,
     Promise!Publish, Promise!Commit, Promise!Allowed, Promise!Unpublished,
     Promise!Committed, Promise!CommittedBy
<1>5. Promise!OnlyOnce => OnceUnlessOvertaken
  BY DEF Promise!OnlyOnce, OnceUnlessOvertaken, OnceOnly
<1> QED
  BY <1>2, <1>3, <1>4, <1>5, RuntimeDurability, PTL
     DEF DurableUntilOvertaken, Unforced!Spec, Promise!Spec

-----------------------------------------------------------------------------
(* Whatever is forced, half-applied actions are never persisted: a call's   *)
(* own mutation is in memory without being in the log only between its body *)
(* and the end of its append, its rollback or its discard.                  *)

Clean(w) ==
    pc[w] # "absent" =>
        \A e \in mem[w] : \/ e \in Logged(log)
                          \/ e = call[w] /\ pc[w] \in {"append", "rollback", "discard"}

PersistInv ==
    /\ CurrentInv
    /\ snapshot.state \subseteq Logged(log)
    /\ \A w \in Worlds : Clean(w)

\* What is in the log stays there, where it is.
LEMMA LogStays ==
    ASSUME RTypeInv, [RNext]_rvars
    PROVE  /\ Len(log) \in Nat /\ Len(log) <= Len(log')
           /\ \A i \in 1..Len(log) : log'[i] = log[i]
           /\ \A e \in Logged(log) : e \in Logged(log')
<1>1. WorldTypes /\ Len(log) \in Nat
  BY DEF RTypeInv, WorldTypes
<1>2. log' = log \/ \E e \in Exec \cup Consult : log' = Append(log, e)
  <2>1. ASSUME NEW w \in Worlds, AppendWins(w)
        PROVE  \E e \in Exec \cup Consult : log' = Append(log, e)
    BY <2>1, Appended
  <2>2. ASSUME NEW w \in Worlds, Flush(w) PROVE log' = log
    BY <2>2 DEF Flush
  <2>3. ASSUME NEW r \in Runs, ConsultRecorded(r)
        PROVE  \E e \in Exec \cup Consult : log' = Append(log, e)
    BY <2>3, Appended, RunsAreWorlds
  <2> QED
    BY <2>1, <2>2, <2>3, VisibleSteps
<1>3. CASE log' = log
  BY <1>1, <1>3
<1>4. ASSUME NEW e \in Exec \cup Consult, log' = Append(log, e)
      PROVE  /\ Len(log) <= Len(log') /\ \A i \in 1..Len(log) : log'[i] = log[i]
             /\ \A x \in Logged(log) : x \in Logged(log')
  <2>1. Len(log') = Len(log) + 1 /\ \A i \in 1..Len(log) : log'[i] = log[i]
    BY <1>1, <1>4, LogGrows
  <2>2. \A x \in Logged(log) : x \in Logged(log')
    BY <1>1, <1>4, LoggedGrows
  <2> QED
    BY <1>1, <2>1, <2>2
<1> QED
  BY <1>1, <1>2, <1>3, <1>4

\* A world adds to its memory what it is about to append, and loads what
\* state.json holds.
LEMMA CleanWorld ==
    ASSUME PersistInv, NEW w \in Worlds, WorldAct(w),
           \A e \in Logged(log) : e \in Logged(log')
    PROVE  Clean(w)'
<1>0. /\ WorldTypes /\ RTypeInv /\ snapshot # NoDoc /\ snapshot.state \subseteq Logged(log)
      /\ pc \in [Worlds -> Stages] /\ mem \in [Worlds -> SUBSET Exec] /\ Clean(w)
  BY DEF PersistInv, CurrentInv, RTypeInv, WorldTypes
<1>1. CASE New(w) \/ CatchUp(w) \/ Rollback(w) \/ Discard(w)
  <2>1. Hydrate(w)
    BY <1>0, <1>1 DEF New, CatchUp, Rollback, Discard
  <2>2. mem'[w] = snapshot.state
    BY <1>0, <2>1 DEF Hydrate
  <2> QED
    BY <1>0, <2>2 DEF Clean
<1>2. ASSUME NEW a \in Actions, Enter(w, a) PROVE Clean(w)'
  <2>1. pc[w] = "idle" /\ mem' = mem
    BY <1>2 DEF Enter
  <2> QED
    BY <1>0, <2>1 DEF Clean
<1>3. CASE Body(w) \/ BodyRaises(w)
  <2>1. /\ pc[w] = "body" /\ pc'[w] \in {"append", "rollback"} /\ call' = call
        /\ \A e \in mem'[w] : e \in mem[w] \/ e = call[w]
    BY <1>0, <1>3 DEF Body, BodyRaises, Goto, local
  <2> QED
    BY <1>0, <2>1 DEF Clean
<1>4. CASE AppendWins(w)
  <2>1. pc[w] = "append" /\ mem' = mem
    BY <1>4 DEF AppendWins, Goto
  <2>2. log' = Append(log, call[w]) /\ call[w] \in Exec
    BY <1>0, <1>4, Appended
  <2>3. call[w] \in Logged(log')
    BY <1>0, <2>2, LoggedGrows
  <2> QED
    BY <1>0, <2>1, <2>3 DEF Clean
<1>5. CASE NotAvailable(w) \/ AppendLoses(w) \/ Flush(w) \/ WriteSummary(w) \/ ReadAudit(w)
           \/ WriteAudit(w) \/ ReadActivity(w) \/ WriteActivity(w) \/ WriteFails(w) \/ Crash(w)
  <2>1. mem' = mem /\ call' = call
    BY <1>5 DEF NotAvailable, AppendLoses, Flush, WriteSummary, ReadAudit, WriteAudit,
       ReadActivity, WriteActivity, WriteFails, Crash, local
  <2>2. /\ pc'[w] # "absent" => pc[w] # "absent"
        /\ pc[w] \in {"append", "rollback", "discard"} => pc'[w] \in {"absent", "discard"}
    BY <1>0, <1>5 DEF NotAvailable, AppendLoses, Flush, WriteSummary, ReadAudit, WriteAudit,
       ReadActivity, WriteActivity, WriteFails, Crash, Goto
  <2> QED
    BY <1>0, <2>1, <2>2 DEF Clean
<1> QED
  BY <1>1, <1>2, <1>3, <1>4, <1>5 DEF WorldAct, Step

\* Every step keeps memory and state.json free of what is not committed.
LEMMA PersistStep ==
    ASSUME PersistInv, [RNext]_rvars PROVE PersistInv'
<1>1. /\ CurrentInv /\ CurrentInv' /\ RTypeInv /\ snapshot # NoDoc
      /\ mem \in [Worlds -> SUBSET Exec]
  BY CurrentStep DEF PersistInv, CurrentInv, RTypeInv, WorldTypes
<1>2. \A e \in Logged(log) : e \in Logged(log')
  BY <1>1, LogStays
<1>3. ASSUME NEW w \in Worlds, pc'[w] = pc[w], mem'[w] = mem[w], call'[w] = call[w]
      PROVE  Clean(w)'
  BY <1>2, <1>3 DEF PersistInv, Clean
<1>4. ASSUME NEW w \in Worlds, WorldAct(w), NEW v \in Worlds PROVE Clean(v)'
  BY <1>1, <1>2, <1>3, <1>4, CleanWorld, WorldLocal DEF RTypeInv, OtherWorldsStay
<1>5. ASSUME NEW r \in Runs, RunAct(r), NEW v \in Worlds PROVE Clean(v)'
  <2>1. CASE Trigger(r) \/ CallAction(r) \/ Thread(r) \/ RunFault(r)
    BY <1>4, <2>1, RunWorldActs, RunsAreWorlds
  <2>2. CASE v # r
    BY <1>1, <1>3, <1>5, <2>2, RunLocal DEF OtherWorldsStay
  <2>3. CASE LoopOnly(r) \/ ConsultRecorded(r)
    BY <1>3, <2>3, LoopOnlyStays DEF world, vars, local, ConsultRecorded
  <2>4. CASE v = r /\ (Plan(r) \/ Settles(r))
    <3>1. Plan(r) => mem'[r] = snapshot.state
      BY <1>1, <2>4 DEF Plan, Hydrate
    <3>2. Settles(r) => mem'[r] = snapshot.state
      BY <1>1, <2>4, SettlesEffect DEF RTypeInv, Acknowledge
    <3> QED
      BY <1>2, <2>4, <3>1, <3>2 DEF PersistInv, Clean
  <2> QED
    BY <1>5, <2>1, <2>2, <2>3, <2>4 DEF RunAct, RunStep, LoopOnly, Settles
<1>6. \A v \in Worlds : Clean(v)'
  <2>1. ASSUME UNCHANGED rvars, NEW v \in Worlds PROVE Clean(v)'
    BY <1>3, <2>1 DEF rvars, world, vars, local
  <2> QED
    BY <1>4, <1>5, <2>1, DirectLog DEF RNext, RunAct
<1>7. snapshot'.state \subseteq Logged(log')
  <2>1. ASSUME NEW w \in Worlds, Flush(w) PROVE snapshot'.state \subseteq Logged(log')
    <3>1. pc[w] = "flush" /\ snapshot'.state = mem[w]
      BY <2>1 DEF Flush, Goto
    <3> QED
      BY <1>2, <3>1 DEF PersistInv, Clean
  <2>2. ASSUME snapshot' = snapshot PROVE snapshot'.state \subseteq Logged(log')
    BY <1>2, <2>2 DEF PersistInv
  <2> QED
    BY <1>1, <2>1, <2>2, VisibleSteps DEF AppendWins, ConsultRecorded, docs
<1> QED
  BY <1>1, <1>6, <1>7 DEF PersistInv

\* In a project that has a snapshot, no run and no forced token brings into
\* state.json what was not committed.
THEOREM RunsPersistCommitted ==
    ASSUME Seeds # <<>> PROVE RSpec => []OnlyCommittedPersisted
<1>1. RInit => PersistInv
  <2> SUFFICES ASSUME RInit PROVE PersistInv
    OBVIOUS
  <2>1. CurrentInv
    BY CurrentInit
  <2>2. snapshot.state = Logged(log) /\ \A w \in Worlds : mem[w] = {}
    BY DEF RInit, Init, Logged
  <2> QED
    BY <2>1, <2>2 DEF PersistInv, Clean
<1>2. PersistInv /\ [RNext]_rvars => PersistInv'
  BY PersistStep
<1>3. PersistInv => OnlyCommittedPersisted
  BY DEF PersistInv, CurrentInv, OnlyCommittedPersisted, Published, Logged, Effects
<1> QED
  BY <1>1, <1>2, <1>3, PTL DEF RSpec

-----------------------------------------------------------------------------
(* Where a direct caller's token can point: hydrating takes over the offset *)
(* of a flushed action, and winning gives the offset of its own.  Only runs  *)
(* have tokens that point at consults.                                      *)

OnAction(n) == n = 0 \/ log[n].action \in Actions
FollowInv ==
    /\ RTypeInv
    /\ snapshot # NoDoc => OnAction(snapshot.last_offset)
    /\ \A w \in Worlds : w \notin Runs \/ pc[w] = "flush" => OnAction(token[w])

\* An offset stays an action's.
LEMMA OnActionStays ==
    ASSUME RTypeInv, [RNext]_rvars, NEW n \in Nat, n <= Len(log), OnAction(n)
    PROVE  n = 0 \/ log'[n].action \in Actions
BY LogStays DEF OnAction

\* Every step leaves tokens of direct callers, and of flushes, at actions.
LEMMA FollowStep ==
    ASSUME FollowInv, [RNext]_rvars PROVE FollowInv'
<1>0. /\ RTypeInv /\ RTypeInv' /\ WorldTypes /\ Len(log) \in Nat
      /\ pc \in [Worlds -> Stages] /\ token \in [Worlds -> Nat]
      /\ \A w \in Worlds : token[w] <= Len(log)
      /\ snapshot # NoDoc => snapshot.last_offset \in Nat /\ snapshot.last_offset <= Len(log)
  BY RTypeStep DEF FollowInv, RTypeInv, WorldTypes
<1>1. ASSUME NEW n \in Nat, n <= Len(log), OnAction(n) PROVE n = 0 \/ log'[n].action \in Actions
  BY <1>0, <1>1, OnActionStays
<1>2. snapshot' # NoDoc => OnAction(snapshot.last_offset)'
  <2>1. ASSUME NEW w \in Worlds, Flush(w) PROVE OnAction(snapshot.last_offset)'
    <3>1. pc[w] = "flush" /\ snapshot'.last_offset = token[w]
      BY <2>1 DEF Flush, Goto
    <3> QED
      BY <1>0, <1>1, <3>1 DEF FollowInv, OnAction
  <2>2. ASSUME snapshot' = snapshot, snapshot # NoDoc PROVE OnAction(snapshot.last_offset)'
    BY <1>0, <1>1, <2>2 DEF FollowInv, OnAction
  <2> QED
    BY <1>0, <2>1, <2>2, VisibleSteps DEF AppendWins, ConsultRecorded, docs
<1>3. ASSUME NEW w \in Worlds, token'[w] = token[w], pc'[w] = "flush" => pc[w] = "flush",
             w \notin Runs \/ pc'[w] = "flush"
      PROVE  OnAction(token[w])'
  BY <1>0, <1>1, <1>3 DEF FollowInv, OnAction
<1>4. ASSUME NEW w \in Worlds, WorldAct(w), w \notin Runs \/ pc'[w] = "flush"
      PROVE  OnAction(token[w])'
  <2>1. CASE AppendWins(w)
    <3>1. /\ log' = Append(log, call[w]) /\ call[w] \in Exec /\ call[w].action \in Actions
          /\ token'[w] = Len(log) + 1
      BY <1>0, <2>1, Appended DEF AppendWins
    <3>2. log'[Len(log) + 1] = call[w]
      BY <1>0, <3>1, LogGrows
    <3> QED
      BY <3>1, <3>2 DEF OnAction
  <2>2. CASE New(w) \/ CatchUp(w) \/ Rollback(w) \/ Discard(w)
    <3>1. /\ log' = log /\ pc'[w] # "flush"
          /\ token'[w] \in {0, token[w]} \/ (snapshot # NoDoc /\ token'[w] = snapshot.last_offset)
      BY <1>0, <2>2 DEF New, CatchUp, Rollback, Discard, Hydrate, Goto
    <3> QED
      BY <1>4, <3>1 DEF FollowInv, OnAction
  <2>3. CASE \/ NotAvailable(w) \/ Body(w) \/ BodyRaises(w) \/ AppendLoses(w) \/ Flush(w)
             \/ WriteSummary(w) \/ ReadAudit(w) \/ WriteAudit(w) \/ ReadActivity(w)
             \/ WriteActivity(w) \/ WriteFails(w) \/ Crash(w)
             \/ \E a \in Actions : Enter(w, a)
    <3>1. token' = token /\ (pc'[w] = "flush" => pc[w] = "flush")
      BY <1>0, <2>3 DEF NotAvailable, Body, BodyRaises, AppendLoses, Flush, WriteSummary,
         ReadAudit, WriteAudit, ReadActivity, WriteActivity, WriteFails, Crash, Enter, Goto
    <3> QED
      BY <1>3, <1>4, <3>1
  <2> QED
    BY <1>4, <2>1, <2>2, <2>3 DEF WorldAct, Step
<1>5. ASSUME NEW w \in Worlds, w \notin Runs \/ pc'[w] = "flush" PROVE OnAction(token[w])'
  <2>1. ASSUME NEW v \in Worlds, WorldAct(v) PROVE OnAction(token[w])'
    BY <1>0, <1>3, <1>4, <1>5, <2>1, WorldLocal DEF OtherWorldsStay
  <2>2. ASSUME NEW r \in Runs, RunAct(r) PROVE OnAction(token[w])'
    <3>1. CASE Trigger(r) \/ CallAction(r) \/ Thread(r) \/ RunFault(r)
      BY <2>1, <3>1, RunWorldActs, RunsAreWorlds
    <3>2. CASE w # r
      BY <1>0, <1>3, <1>5, <2>2, <3>2, RunLocal DEF OtherWorldsStay
    <3>3. CASE w = r /\ (LoopOnly(r) \/ ConsultRecorded(r))
      BY <1>3, <1>5, <3>3, LoopOnlyStays DEF world, vars, ConsultRecorded
    \* A run's token moves by itself only between calls.
    <3>4. CASE w = r /\ (Plan(r) \/ Settles(r))
      <4>1. pc' = pc /\ pc[r] \in {"absent", "idle"}
        BY <1>0, <3>4 DEF RTypeInv, Staged, Plan, Settles, RetryUnasked, Escalate, Resolve,
           Lost, At
      <4> QED
        BY <1>5, <3>4, <4>1
    <3> QED
      BY <2>2, <3>1, <3>2, <3>3, <3>4 DEF RunAct, RunStep, LoopOnly, Settles
  <2>3. ASSUME UNCHANGED rvars PROVE OnAction(token[w])'
    BY <1>3, <1>5, <2>3 DEF rvars, world, vars
  <2> QED
    BY <2>1, <2>2, <2>3, DirectLog DEF RNext, RunAct
<1> QED
  BY <1>0, <1>2, <1>5 DEF FollowInv

\* A direct caller commits right after an action or not at all: one consult
\* behind the last action keeps every one of them out.
THEOREM ConsultsShutDirectCallersOut == RSpec => DirectFollowsAction
<1> DEFINE Follows ==
      \A w \in Worlds \ Runs :
         pc[w] = "append" /\ pc'[w] = "flush" /\ log # <<>> =>
             log[Len(log)].action \in Actions
<1>1. RInit => FollowInv
  <2> SUFFICES ASSUME RInit PROVE FollowInv
    OBVIOUS
  <2>1. RTypeInv /\ \A w \in Worlds : token[w] = 0
    BY RTypeInit DEF RInit, Init
  <2>2. snapshot # NoDoc => OnAction(snapshot.last_offset)
    <3>1. snapshot # NoDoc => log = Seeds /\ snapshot.last_offset = Len(Seeds) /\ Seeds # <<>>
      BY DEF RInit, Init
    <3>2. Seeds # <<>> => Len(Seeds) \in 1..Len(Seeds)
      BY SeedsOK, EmptySeq
    <3> QED
      BY <3>1, <3>2, SeedActions DEF OnAction
  <2> QED
    BY <2>1, <2>2 DEF FollowInv, OnAction
<1>2. FollowInv /\ [RNext]_rvars => FollowInv'
  BY FollowStep
<1>3. FollowInv /\ [RNext]_rvars => [Follows]_rvars
  <2> SUFFICES ASSUME FollowInv, [RNext]_rvars, NEW w \in Worlds \ Runs,
                      pc[w] = "append", pc'[w] = "flush", log # <<>>
               PROVE  log[Len(log)].action \in Actions
    BY DEF Follows
  <2>1. token[w] = Len(log)
    BY WhoCommits DEF FollowInv, AppendWins
  <2>2. Len(log) # 0
    BY EmptySeq DEF FollowInv, RTypeInv, WorldTypes
  <2> QED
    BY <2>1, <2>2 DEF FollowInv, OnAction
<1> QED
  BY <1>1, <1>2, <1>3, PTL DEF RSpec, DirectFollowsAction
-----------------------------------------------------------------------------
(* audit.jsonl and event_log.md never lie, also with consults in the log    *)
(* and forced tokens: the texts of WorldProofs, kept by the steps of runs.   *)

AuditInv == RepliesInv /\ DecidedCalls /\ TextTypes /\ HonestTexts

\* What a step makes of a call whose line is to come: it goes on with one that
\* is decided, or decides the one under way.
DecidesNow(w) ==
    /\ call[w].by = w /\ call[w].nth = done[w] + 1 /\ done'[w] = done[w] + 1
    /\ \/ /\ pc'[w] = "flush" /\ outcome'[w] = "ok"
          /\ log' = Append(log, call[w]) /\ token'[w] = Len(log) + 1
       \/ pc'[w] = "rollback" /\ outcome'[w] = "error" /\ log' = log
GoesOn(w) ==
    /\ pc[w] \in DecidedStages /\ UNCHANGED <<done[w], outcome[w]>>
    /\ pc'[w] \in AuditStages => pc[w] \in AuditStages
    /\ pc'[w] = "rollback" => pc[w] = "rollback"
    /\ pc[w] = "rollback" \/ token'[w] = token[w]
LineOf(w) ==
    pc'[w] \in DecidedStages => call'[w] = call[w] /\ (DecidesNow(w) \/ GoesOn(w))

LEMMA LineOfWorld ==
    ASSUME WorldTypes, NEW w \in Worlds, WorldAct(w) PROVE LineOf(w)
<1>0. /\ pc \in [Worlds -> Stages] /\ token \in [Worlds -> Nat]
      /\ outcome \in [Worlds -> Outcomes] /\ done \in [Worlds -> 0..MaxCalls]
      /\ pc[w] \in {"body", "append"} => call[w].by = w /\ call[w].nth = done[w] + 1
  BY DEF WorldTypes
<1> USE DEF LineOf, DecidedStages
<1>1. CASE \/ New(w) \/ CatchUp(w) \/ NotAvailable(w) \/ Body(w) \/ AppendLoses(w)
           \/ Discard(w) \/ WriteActivity(w) \/ WriteFails(w) \/ Crash(w)
  BY <1>0, <1>1 DEF New, CatchUp, NotAvailable, Body, AppendLoses, Discard, WriteActivity,
     WriteFails, Crash, Goto
<1>2. ASSUME NEW a \in Actions, Enter(w, a) PROVE pc'[w] \notin DecidedStages
  BY <1>0, <1>2 DEF Enter
<1>3. CASE BodyRaises(w) \/ AppendWins(w)
  <2>1. DecidesNow(w) /\ call' = call
    BY <1>0, <1>3 DEF BodyRaises, AppendWins, Goto, DecidesNow
  <2> QED
    BY <2>1
<1>4. CASE \/ Rollback(w) \/ Flush(w) \/ WriteSummary(w) \/ ReadAudit(w)
           \/ WriteAudit(w) \/ ReadActivity(w)
  <2>1. GoesOn(w) /\ call' = call
    BY <1>0, <1>4 DEF Rollback, Flush, WriteSummary, ReadAudit, WriteAudit, ReadActivity,
       Goto, local, GoesOn, AuditStages
  <2> QED
    BY <2>1
<1> QED
  BY <1>1, <1>2, <1>3, <1>4 DEF WorldAct, Step

\* The steps of runs that are not their world's leave calls and texts alone.
LEMMA LineOfSteps ==
    ASSUME RTypeInv, [RNext]_rvars, NEW w \in Worlds PROVE LineOf(w)
<1>0. WorldTypes /\ \A r \in Runs : Staged(r)
  BY DEF RTypeInv
<1>1. ASSUME pc'[w] = pc[w], call'[w] = call[w], outcome'[w] = outcome[w],
             done'[w] = done[w], pc[w] \notin DecidedStages \/ token'[w] = token[w]
      PROVE  LineOf(w)
  BY <1>1 DEF LineOf, GoesOn
<1>2. ASSUME NEW v \in Worlds, WorldAct(v) PROVE LineOf(w)
  BY <1>0, <1>1, <1>2, LineOfWorld, WorldLocal DEF OtherWorldsStay
<1>3. ASSUME NEW r \in Runs, RunAct(r) PROVE LineOf(w)
  <2>1. CASE w # r
    BY <1>1, <1>3, <2>1, RunLocal DEF OtherWorldsStay
  <2>2. CASE Trigger(r) \/ CallAction(r) \/ Thread(r) \/ RunFault(r)
    BY <1>2, <2>2, RunWorldActs, RunsAreWorlds
  <2>3. CASE LoopOnly(r) \/ ConsultRecorded(r)
    BY <1>1, <2>3, LoopOnlyStays DEF world, vars, local, ConsultRecorded
  <2>4. CASE w = r /\ (Plan(r) \/ Settles(r))
    <3>1. pc[r] \in {"absent", "idle"}
      BY <1>0, <2>4 DEF Plan, Settles, RetryUnasked, Escalate, Resolve, Lost, At, Staged
    <3>2. UNCHANGED <<pc, call, outcome, done>>
      BY <1>0, <2>4, SettlesEffect DEF Plan, local
    <3> QED
      BY <1>1, <2>4, <3>1, <3>2 DEF DecidedStages
  <2> QED
    BY <1>3, <2>1, <2>2, <2>3, <2>4 DEF RunAct, RunStep, LoopOnly, Settles
<1>4. CASE UNCHANGED rvars
  BY <1>1, <1>4 DEF rvars, world, vars, local
<1> QED
  BY <1>2, <1>3, <1>4, DirectLog DEF RNext, RunAct

\* A text that is true stays true: finished attempts stay as they are.
LEMMA GoodKept ==
    ASSUME Keeps, NEW T, NEW P, NEW Q, Good(T, P, log, done),
           \A x \in Q : x \in P \/ x.nth > done[x.by],
           \A w \in Worlds : done[w] \in Nat /\ done'[w] \in Nat
    PROVE  Good(T, Q, log', done')
<1>1. ASSUME NEW i \in 1..Len(T)
      PROVE  /\ T[i].exec \in Exec /\ T[i].exec \notin P /\ T[i].exec.by \in Worlds
             /\ T[i].exec.nth \in Nat /\ T[i].exec.nth <= done[T[i].exec.by]
  BY Bounds DEF Good, Exec
<1>2. ASSUME NEW i \in 1..Len(T)
      PROVE  T[i].exec \notin Q /\ T[i].exec.nth <= done'[T[i].exec.by]
  <2>1. done[T[i].exec.by] <= done'[T[i].exec.by]
    BY <1>1 DEF Keeps
  <2> QED
    BY <1>1, <2>1
<1>3. ASSUME NEW i \in 1..Len(T) PROVE T[i].ok <=> In(T[i].exec, log')
  <2>1. \A e : (In(e, log) <=> e \in Logged(log)) /\ (In(e, log') <=> e \in Logged(log'))
    BY DEF In, Logged
  <2>2. ASSUME NEW e \in Exec, e = T[i].exec, ~In(e, log) PROVE ~In(e, log')
    <3>1. Past(e)
      BY <1>1, <2>1, <2>2 DEF Past
    <3>2. Past(e)'
      BY <3>1 DEF Keeps
    <3> QED
      BY <2>1, <3>2 DEF Past
  <2>3. In(T[i].exec, log) => In(T[i].exec, log')
    BY <2>1 DEF Keeps
  <2>4. T[i].ok <=> In(T[i].exec, log)
    BY DEF Good
  <2> QED
    BY <1>1, <2>2, <2>3, <2>4
<1> QED
  BY <1>1, <1>2, <1>3 DEF Good

\* Every step of the project lets texts last.
LEMMA TextsLastStep ==
    ASSUME AuditInv, [RNext]_rvars PROVE TextsLast
<1>1. /\ RTypeInv /\ Keeps
      /\ \A w \in Worlds : done[w] \in Nat /\ done'[w] \in Nat
      /\ \A w \in Worlds : LineOf(w)
  <2>1. RTypeInv /\ RTypeInv' /\ Keeps
    BY RepliesStep DEF AuditInv, RepliesInv
  <2> QED
    BY <2>1, Bounds, LineOfSteps DEF RTypeInv, WorldTypes
<1>2. \A x \in AuditPending' : x \in AuditPending \/ x.nth > done[x.by]
  <2> SUFFICES ASSUME NEW w \in Worlds, pc'[w] \in AuditStages
               PROVE  call'[w] \in AuditPending \/ call'[w].nth > done[call'[w].by]
    BY DEF AuditPending
  <2>1. call'[w] = call[w] /\ (DecidesNow(w) \/ GoesOn(w))
    BY <1>1 DEF LineOf, AuditStages
  <2> QED
    BY <1>1, <2>1 DEF DecidesNow, GoesOn, AuditPending
<1>3. \A x \in ActivityPending' : x \in ActivityPending \/ x.nth > done[x.by]
  <2> SUFFICES ASSUME NEW w \in Worlds, pc'[w] \in DecidedStages
               PROVE  call'[w] \in ActivityPending \/ call'[w].nth > done[call'[w].by]
    BY DEF ActivityPending
  <2>1. call'[w] = call[w] /\ (DecidesNow(w) \/ GoesOn(w))
    BY <1>1 DEF LineOf
  <2> QED
    BY <1>1, <2>1 DEF DecidesNow, GoesOn, ActivityPending
<1>4. \A T : Placed(T, log) => Placed(T, log')
  <2>1. /\ Len(log) \in Nat /\ Len(log') \in Nat /\ Len(log) <= Len(log')
        /\ \A i \in 1..Len(log) : log'[i] = log[i]
    BY <1>1, LogStays, WorldTypesKept
  <2> QED
    BY <2>1 DEF Placed
<1> QED
  BY <1>1, <1>2, <1>3, <1>4, GoodKept DEF TextsLast

\* A decided call stays as it was decided.
LEMMA DecidedCallsStep ==
    ASSUME AuditInv, [RNext]_rvars PROVE DecidedCalls'
<1>1. /\ RTypeInv /\ Keeps /\ CallsNumbered
      /\ call \in [Worlds -> Exec] /\ \A w \in Worlds : call[w].action \in Actions
      /\ \A w \in Worlds : done[w] \in Nat
      /\ Len(log) \in Nat /\ Len(log) <= Len(log')
      /\ \A i \in 1..Len(log) : log'[i] = log[i]
  <2>1. RTypeInv /\ Keeps /\ CallsNumbered
    BY RepliesStep DEF AuditInv, RepliesInv
  <2> QED
    BY <2>1, LogStays, Bounds DEF RTypeInv, WorldTypes, Exec
<1> SUFFICES ASSUME NEW w \in Worlds, pc'[w] \in DecidedStages
             PROVE  /\ call'[w].by = w /\ call'[w].nth = done'[w]
                    /\ outcome'[w] = "ok" <=> In(call'[w], log')
                    /\ outcome'[w] = "ok" =>
                          token'[w] \in 1..Len(log') /\ log'[token'[w]] = call'[w]
                    /\ pc'[w] = "rollback" => outcome'[w] = "error"
  BY DEF DecidedCalls
<1>2. /\ \A e : In(e, log) <=> e \in Logged(log)
      /\ \A e : In(e, log') <=> e \in Logged(log')
  BY DEF In, Logged
<1>3. call'[w] = call[w] /\ (DecidesNow(w) \/ GoesOn(w))
  BY <1>1, LineOfSteps DEF LineOf
<1>4. CASE DecidesNow(w) /\ outcome'[w] = "ok"
  <2>1. /\ call[w].by = w /\ call[w].nth = done'[w] /\ pc'[w] = "flush"
        /\ log' = Append(log, call[w]) /\ token'[w] = Len(log) + 1
    BY <1>4 DEF DecidesNow
  <2>2. Len(log') = Len(log) + 1 /\ log'[Len(log')] = call[w]
    BY <1>1, <2>1, LogGrows DEF RTypeInv
  <2>3. call[w] \in Logged(log')
    BY <1>1, <2>1, LoggedGrows DEF RTypeInv
  <2> QED
    BY <1>1, <1>2, <1>3, <1>4, <2>1, <2>2, <2>3
<1>5. CASE DecidesNow(w) /\ outcome'[w] # "ok"
  <2>1. /\ call[w].by = w /\ call[w].nth = done[w] + 1 /\ call[w].nth = done'[w]
        /\ outcome'[w] = "error" /\ log' = log
    BY <1>5 DEF DecidesNow
  <2>2. call[w] \notin Logged(log)
    BY <1>1, <2>1 DEF CallsNumbered
  <2> QED
    BY <1>2, <1>3, <2>1, <2>2
<1>6. CASE GoesOn(w)
  <2>1. /\ call[w].by = w /\ call[w].nth = done[w]
        /\ outcome[w] = "ok" <=> In(call[w], log)
        /\ outcome[w] = "ok" => token[w] \in 1..Len(log) /\ log[token[w]] = call[w]
        /\ pc[w] = "rollback" => outcome[w] = "error"
        /\ done'[w] = done[w] /\ outcome'[w] = outcome[w]
        /\ pc'[w] = "rollback" => pc[w] = "rollback"
        /\ pc[w] = "rollback" \/ token'[w] = token[w]
    BY <1>6 DEF GoesOn, AuditInv, DecidedCalls
  <2>2. In(call[w], log') <=> In(call[w], log)
    <3>1. ASSUME NEW e \in Exec, e.by = w, e.nth = done[w]
          PROVE  e \in Logged(log') <=> e \in Logged(log)
      <4>1. e \notin Logged(log) => Past(e)
        BY <1>1, <3>1 DEF Past
      <4>2. Past(e) => Past(e)'
        BY <1>1 DEF Keeps
      <4> QED
        BY <1>1, <4>1, <4>2 DEF Keeps, Past
    <3> QED
      BY <1>1, <1>2, <2>1, <3>1
  <2>3. outcome[w] = "ok" => token'[w] \in 1..Len(log') /\ log'[token'[w]] = call[w]
    <3>1. outcome[w] = "ok" => token'[w] = token[w]
      BY <2>1
    <3>2. 1..Len(log) \subseteq 1..Len(log')
      BY <1>1, WorldTypesKept
    <3> QED
      BY <1>1, <2>1, <3>1, <3>2
  <2> QED
    BY <1>3, <2>1, <2>2, <2>3
<1> QED
  BY <1>3, <1>4, <1>5, <1>6

\* Texts are touched where a world reads or writes them.
LEMMA WorldDocs ==
    ASSUME WorldTypes, TextTypes, NEW w \in Worlds, WorldAct(w),
           ~(ReadAudit(w) \/ WriteAudit(w) \/ ReadActivity(w) \/ WriteActivity(w))
    PROVE  /\ UNCHANGED <<audit, activity>>
           /\ buf' \in [Worlds -> Seq(AuditEntry) \cup Seq(LogEntry)]
           /\ \A v \in Worlds : pc'[v] \in {"writeAudit", "writeActivity"} =>
                 pc[v] = pc'[v] /\ buf'[v] = buf[v]
<1>1. /\ pc \in [Worlds -> Stages] /\ <<>> \in Seq(AuditEntry)
      /\ buf \in [Worlds -> Seq(AuditEntry) \cup Seq(LogEntry)]
  BY DEF WorldTypes, TextTypes
<1>2. ASSUME NEW a \in Actions, Enter(w, a)
      PROVE  /\ UNCHANGED <<audit, activity, buf>>
             /\ pc'[w] \notin {"writeAudit", "writeActivity"}
             /\ \A v \in Worlds \ {w} : pc'[v] = pc[v]
  BY <1>1, <1>2 DEF Enter, docs
<1>3. CASE \/ New(w) \/ CatchUp(w) \/ NotAvailable(w) \/ Body(w) \/ BodyRaises(w)
           \/ Rollback(w) \/ AppendWins(w) \/ AppendLoses(w) \/ Discard(w)
           \/ Flush(w) \/ WriteSummary(w)
  <2>1. /\ UNCHANGED <<audit, activity, buf>>
        /\ pc'[w] \notin {"writeAudit", "writeActivity"}
        /\ \A v \in Worlds \ {w} : pc'[v] = pc[v]
    BY <1>1, <1>3 DEF New, CatchUp, NotAvailable, Body, BodyRaises, Rollback, AppendWins,
       AppendLoses, Discard, Flush, WriteSummary, Goto, docs, local
  <2> QED
    BY <1>1, <2>1
<1>4. CASE WriteFails(w) \/ Crash(w)
  <2>1. /\ UNCHANGED <<audit, activity>> /\ buf' = [buf EXCEPT ![w] = <<>>]
        /\ pc'[w] \notin {"writeAudit", "writeActivity"}
        /\ \A v \in Worlds \ {w} : pc'[v] = pc[v]
    BY <1>1, <1>4 DEF WriteFails, Crash, docs
  <2> QED
    BY <1>1, <2>1
<1> QED
  BY <1>1, <1>2, <1>3, <1>4 DEF WorldAct, Step

\* Every step keeps the documents true.
LEMMA AuditStep ==
    ASSUME Silent = {}, AuditInv, [RNext]_rvars PROVE AuditInv'
<1>1. /\ RepliesInv' /\ DecidedCalls' /\ TextsLast /\ WorldTypes /\ RTypeInv
      /\ DecidedCalls /\ TextTypes /\ HonestTexts
  BY RepliesStep, DecidedCallsStep, TextsLastStep DEF AuditInv, RepliesInv, RTypeInv
<1>2. LineTypes
  BY <1>1, Bounds DEF WorldTypes, LineTypes
<1>3. ASSUME UNCHANGED <<docs, pc, buf>> PROVE HonestTexts' /\ TextTypes'
  BY <1>1, <1>3, TextsStay DEF docs, TextTypes
<1>4. ASSUME NEW w \in Worlds, WorldAct(w) PROVE HonestTexts' /\ TextTypes'
  <2>1. CASE ReadAudit(w) \/ WriteAudit(w) \/ ReadActivity(w) \/ WriteActivity(w)
    BY <1>1, <1>2, <2>1, TextsStep
  <2>2. CASE ~(ReadAudit(w) \/ WriteAudit(w) \/ ReadActivity(w) \/ WriteActivity(w))
    BY <1>1, <1>4, <2>2, WorldDocs, TextsStay
  <2> QED
    BY <2>1, <2>2
<1>5. ASSUME NEW r \in Runs, RunAct(r) PROVE HonestTexts' /\ TextTypes'
  <2>1. CASE Trigger(r) \/ CallAction(r) \/ Thread(r) \/ RunFault(r)
    BY <1>4, <2>1, RunWorldActs, RunsAreWorlds
  <2>2. CASE LoopOnly(r)
    BY <1>3, <2>2, LoopOnlyStays DEF world, vars, local
  <2>3. CASE Plan(r) \/ Settles(r) \/ ConsultRecorded(r)
    BY <1>3, <2>3 DEF Plan, Settles, RetryUnasked, Escalate, Resolve, ConsultRecorded, local
  <2> QED
    BY <1>5, <2>1, <2>2, <2>3 DEF RunAct, RunStep, LoopOnly, Settles
<1>6. ASSUME UNCHANGED rvars PROVE HonestTexts' /\ TextTypes'
  BY <1>3, <1>6 DEF rvars, world, vars, local
<1>7. HonestTexts' /\ TextTypes'
  BY <1>4, <1>5, <1>6, DirectLog DEF RNext, RunAct
<1> QED
  BY <1>1, <1>7 DEF AuditInv

\* Beside runs, too, through races, consults, forced tokens, crashes and
\* failing writes: an OK line is of an execution in the log, at the offset it
\* gives, a FAILED line of one that is not, and no call has two.
THEOREM RunsAuditNeverLies ==
    ASSUME SeedsDiffer, Silent = {} PROVE RSpec => []AuditHonest
<1>1. RInit => AuditInv
  <2> SUFFICES ASSUME RInit PROVE AuditInv
    OBVIOUS
  <2>1. Init /\ HonestInv
    BY HonestInit DEF RInit
  <2>2. TextTypes
    BY <2>1 DEF HonestInv, TypeInv, TypeOK, TextTypes
  <2> QED
    BY <2>1, <2>2, RepliesInit DEF HonestInv, AuditInv
<1>2. AuditInv /\ [RNext]_rvars => AuditInv'
  BY AuditStep
<1>3. AuditInv => AuditHonest
  <2> SUFFICES ASSUME AuditInv PROVE AuditHonest
    OBVIOUS
  <2>1. \A e : In(e, log) <=> e \in Effects(Len(log))
    BY DEF In, Effects
  <2> QED
    BY <2>1 DEF AuditInv, HonestTexts, Good, Placed, AuditHonest, HonestLines
<1> QED
  BY <1>1, <1>2, <1>3, PTL DEF RSpec
=============================================================================
