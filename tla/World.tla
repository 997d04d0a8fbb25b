------------------------------- MODULE World --------------------------------
(***************************************************************************)
(* One project as the @action wrapper of world.py sees it: the event log,  *)
(* the four documents a world environment keeps in the namespace, and any  *)
(* number of world instances (threads, tasks, processes) calling actions   *)
(* on it directly.  Every access to the log or to a document is a step of  *)
(* its own; what happens in between is local to one instance.              *)
(*                                                                         *)
(* The domain state is abstracted to the set of executions whose effect it *)
(* holds, so a lost update is a missing element and a half-applied or      *)
(* twice-applied one an element that should not be there.                  *)
(***************************************************************************)
EXTENDS Naturals, Sequences, FiniteSets

CONSTANTS Worlds,       \* instances of a BaseWorldEnvironment subclass
          Actions,      \* names of its @action methods
          Once,         \* those whose show_when is "not done yet"
          Fallible,     \* those whose body may raise before it changes state
          Torn,         \* those whose body may raise after it has
          Silent,       \* those of them whose exception has an empty message
          Seeds,        \* events the project has at the start, all flushed
          MaxCalls,     \* bound: calls of one world that do not lose a race
          MaxFaults,    \* bound: faults and failed document writes in all
          NoDoc         \* what read_doc returns for a missing document

\* One attempt at an action: who, what, the how-manieth of its calls, and one
\* bit that tells the retry of a lost race from the attempt before it.
Exec  == [by : Worlds, action : Actions, nth : 0..MaxCalls, try : {0, 1}]

\* A line of audit.jsonl, and one of event_log.md, which has no offset.
AuditEntry == [exec : Exec, offset : Nat, ok : BOOLEAN]
LogEntry   == [exec : Exec, ok : BOOLEAN]

ASSUME ActionSets == /\ Actions # {}
                     /\ Once \subseteq Actions /\ Fallible \subseteq Actions
                     /\ Torn \subseteq Actions /\ Silent \subseteq Actions
ASSUME Bounds == MaxCalls \in Nat /\ MaxFaults \in Nat
ASSUME SeedsOK == /\ Seeds \in Seq(Exec)
                  /\ \A i, j \in 1..Len(Seeds) :
                       Seeds[i].action = Seeds[j].action /\ Seeds[i].action \in Once
                         => i = j
                  /\ \A i \in 1..Len(Seeds) : Seeds[i].nth = 0
ASSUME NoDocApart == NoDoc \notin [state : SUBSET Exec, last_offset : Nat]

VARIABLES
    log,        \* EventLog of the project: the committed executions
    snapshot,   \* state.json: the state and its _meta.last_offset
    summary,    \* summary.md: the state it was rendered from
    audit,      \* audit.jsonl: its lines
    activity,   \* event_log.md: its lines
    pc,         \* world -> where it is in the wrapper
    mem,        \* world -> self.state
    token,      \* world -> self._last_seen_offset
    call,       \* world -> the execution in progress, or its last one
    base,       \* world -> token its last append was tried with
    buf,        \* world -> the document text a read-modify-write has read
    outcome,    \* world -> how its last call ended, for the caller
    done,       \* world -> calls of it decided: committed, raised, unavailable
    faults      \* faults and failed writes so far

docs  == <<snapshot, summary, audit, activity>>
local == <<call, base, buf, outcome, done>>
vars  == <<log, docs, pc, mem, token, local, faults>>

-----------------------------------------------------------------------------
\* The state that holds exactly the first n events of the log.
Effects(n) == {log[i] : i \in 1..n}

\* show_when of an action, evaluated on a state.
Shown(a, state) == a \in Once => \A e \in state : e.action # a

\* _last_offset in state.json, 0 when there is none.
SnapshotOffset == IF snapshot = NoDoc THEN 0 ELSE snapshot.last_offset

Goto(w, from, to) == pc[w] = from /\ pc' = [pc EXCEPT ![w] = to]

\* Mutant: the state is loaded, _meta.last_offset is not.
Hydrate_StateOnly(w) ==
    IF snapshot = NoDoc
    THEN UNCHANGED <<mem, token>>
    ELSE /\ mem' = [mem EXCEPT ![w] = snapshot.state]
         /\ UNCHANGED token

\* Mutant: _meta.last_offset is loaded, the state is not.
Hydrate_OffsetOnly(w) ==
    IF snapshot = NoDoc
    THEN UNCHANGED <<mem, token>>
    ELSE /\ token' = [token EXCEPT ![w] = snapshot.last_offset]
         /\ UNCHANGED mem

\* _hydrate: load state.json; without one keep whatever is in memory.
Hydrate(w) ==
    IF snapshot = NoDoc
    THEN UNCHANGED <<mem, token>>
    ELSE /\ mem' = [mem EXCEPT ![w] = snapshot.state]
         /\ token' = [token EXCEPT ![w] = snapshot.last_offset]

-----------------------------------------------------------------------------
SeedAudit == [i \in 1..Len(Seeds) |->
                [exec |-> Seeds[i], offset |-> i, ok |-> TRUE]]
SeedActivity == [i \in 1..Len(Seeds) |-> [exec |-> Seeds[i], ok |-> TRUE]]

NoCall(w) == [by |-> w, action |-> CHOOSE a \in Actions : TRUE,
              nth |-> 0, try |-> 0]

Init ==
    /\ log = Seeds
    /\ snapshot = IF Seeds = <<>> THEN NoDoc
                  ELSE [state |-> {Seeds[i] : i \in 1..Len(Seeds)},
                        last_offset |-> Len(Seeds)]
    /\ summary = {Seeds[i] : i \in 1..Len(Seeds)}
    /\ audit = SeedAudit
    /\ activity = SeedActivity
    /\ pc = [w \in Worlds |-> "absent"]
    /\ mem = [w \in Worlds |-> {}]
    /\ token = [w \in Worlds |-> 0]
    /\ call = [w \in Worlds |-> NoCall(w)]
    /\ base = [w \in Worlds |-> 0]
    /\ buf = [w \in Worlds |-> <<>>]
    /\ outcome = [w \in Worlds |-> "none"]
    /\ done = [w \in Worlds |-> 0]
    /\ faults = 0

\* __init__: default state, offset 0, then _hydrate.
New(w) ==
    /\ Goto(w, "absent", "idle")
    /\ IF snapshot = NoDoc
       THEN /\ mem' = [mem EXCEPT ![w] = {}]
            /\ token' = [token EXCEPT ![w] = 0]
       ELSE Hydrate(w)
    /\ outcome' = [outcome EXCEPT ![w] = "none"]
    /\ UNCHANGED <<log, docs, call, base, buf, done, faults>>

\* The wrapper is entered and reads current_offset.
Enter(w, a) ==
    /\ pc[w] = "idle"
    /\ done[w] < MaxCalls
    /\ pc' = [pc EXCEPT ![w] = IF Len(log) # token[w] THEN "catchUp" ELSE "body"]
    /\ call' = [call EXCEPT ![w] = [by |-> w, action |-> a, nth |-> done[w] + 1,
                                    try |-> IF call[w].nth = done[w] + 1
                                            THEN 1 - call[w].try ELSE 0]]
    /\ outcome' = [outcome EXCEPT ![w] = "none"]
    /\ UNCHANGED <<log, docs, mem, token, base, buf, done, faults>>

\* Mutant: the token is moved to the end of the log, the state not read again.
CatchUp_TokenOnly(w) ==
    /\ Goto(w, "catchUp", "body")
    /\ token' = [token EXCEPT ![w] = Len(log)]
    /\ UNCHANGED <<log, docs, mem, local, faults>>

\* The log has moved since the token: hydrate.
CatchUp(w) ==
    /\ Goto(w, "catchUp", "body")
    /\ Hydrate(w)
    /\ UNCHANGED <<log, docs, local, faults>>

\* show_when is False (or raises): ActionNotAvailable.
NotAvailable(w) ==
    /\ ~Shown(call[w].action, mem[w])
    /\ Goto(w, "body", "idle")
    /\ outcome' = [outcome EXCEPT ![w] = "unavailable"]
    /\ done' = [done EXCEPT ![w] = @ + 1]
    /\ UNCHANGED <<log, docs, mem, token, call, base, buf, faults>>

\* The body runs on the in-memory state.
Body(w) ==
    /\ Shown(call[w].action, mem[w])
    /\ Goto(w, "body", "append")
    /\ mem' = [mem EXCEPT ![w] = @ \cup {call[w]}]
    /\ UNCHANGED <<log, docs, token, local, faults>>

\* The body raises, with or without part of its change made.
BodyRaises(w) ==
    /\ Shown(call[w].action, mem[w])
    /\ Goto(w, "body", "rollback")
    /\ \/ call[w].action \in Fallible /\ UNCHANGED mem
       \/ /\ call[w].action \in Torn
          /\ mem' = [mem EXCEPT ![w] = @ \cup {call[w]}]
    /\ outcome' = [outcome EXCEPT ![w] = "error"]
    /\ done' = [done EXCEPT ![w] = @ + 1]
    /\ UNCHANGED <<log, docs, token, call, base, buf, faults>>

\* Mutant: a failed body's changes stay in memory.
Rollback_NoHydrate(w) ==
    /\ Goto(w, "rollback", "readAudit")
    /\ UNCHANGED <<log, docs, mem, token, local, faults>>

\* except: _hydrate, then _write_audit(error=...).
Rollback(w) ==
    /\ Goto(w, "rollback", "readAudit")
    /\ Hydrate(w)
    /\ UNCHANGED <<log, docs, local, faults>>

\* Mutant: _last_seen_offset is not moved to new_offset.
AppendWins_KeepsToken(w) ==
    /\ token[w] = Len(log)
    /\ Goto(w, "append", "flush")
    /\ log' = Append(log, call[w])
    /\ base' = [base EXCEPT ![w] = token[w]]
    /\ outcome' = [outcome EXCEPT ![w] = "ok"]
    /\ done' = [done EXCEPT ![w] = @ + 1]
    /\ UNCHANGED <<docs, mem, token, call, buf, faults>>

\* Mutant: the audit line is written and the snapshot is not.
AppendWins_NoFlush(w) ==
    /\ token[w] = Len(log)
    /\ Goto(w, "append", "readAudit")
    /\ log' = Append(log, call[w])
    /\ token' = [token EXCEPT ![w] = Len(log) + 1]
    /\ base' = [base EXCEPT ![w] = token[w]]
    /\ outcome' = [outcome EXCEPT ![w] = "ok"]
    /\ done' = [done EXCEPT ![w] = @ + 1]
    /\ UNCHANGED <<docs, mem, call, buf, faults>>

\* append wins: expected_offset is the log's length; the token moves with it.
AppendWins(w) ==
    /\ token[w] = Len(log)
    /\ Goto(w, "append", "flush")
    /\ log' = Append(log, call[w])
    /\ token' = [token EXCEPT ![w] = Len(log) + 1]
    /\ base' = [base EXCEPT ![w] = token[w]]
    /\ outcome' = [outcome EXCEPT ![w] = "ok"]
    /\ done' = [done EXCEPT ![w] = @ + 1]
    /\ UNCHANGED <<docs, mem, call, buf, faults>>

\* append returns Conflict: the events in base + 1 .. Len(log) intervened.
AppendLoses(w) ==
    /\ token[w] # Len(log)
    /\ Goto(w, "append", "discard")
    /\ base' = [base EXCEPT ![w] = token[w]]
    /\ UNCHANGED <<log, docs, mem, token, call, buf, outcome, done, faults>>

\* Mutant: the token is moved past the intervening events as well.
Discard_TokenToEnd(w) ==
    /\ Goto(w, "discard", "idle")
    /\ mem' = [mem EXCEPT ![w] = IF snapshot = NoDoc THEN @ ELSE snapshot.state]
    /\ token' = [token EXCEPT ![w] = Len(log)]
    /\ outcome' = [outcome EXCEPT ![w] = "conflict"]
    /\ UNCHANGED <<log, docs, call, base, buf, done, faults>>

\* Hydrate to discard the mutation, then raise ConcurrentUpdate.
Discard(w) ==
    /\ Goto(w, "discard", "idle")
    /\ Hydrate(w)
    /\ outcome' = [outcome EXCEPT ![w] = "conflict"]
    /\ UNCHANGED <<log, docs, call, base, buf, done, faults>>

\* _flush, first half: write state.json.
Flush(w) ==
    /\ Goto(w, "flush", "summary")
    /\ snapshot' = [state |-> mem[w], last_offset |-> token[w]]
    /\ UNCHANGED <<log, summary, audit, activity, mem, token, local, faults>>

\* _flush, second half: render and write summary.md.
WriteSummary(w) ==
    /\ Goto(w, "summary", "readAudit")
    /\ summary' = mem[w]
    /\ UNCHANGED <<log, snapshot, audit, activity, mem, token, local, faults>>

\* Mutant: the error of a failed call is not handed to the audit.
AuditLine_ErrorDropped(w) ==
    [exec |-> call[w], offset |-> token[w], ok |-> TRUE]

\* Mutant: the outcome is left out of the line.
AuditLine_NoOutcome(w) == [exec |-> call[w], offset |-> token[w]]

\* The line _write_audit adds for a call: an error entry if there is an error.
AuditLine(w) == [exec |-> call[w], offset |-> token[w], ok |-> outcome[w] = "ok"]

\* The line _append_event_log adds: FAILED if the error's message is not empty.
LogLine(w) == [exec |-> call[w],
               ok |-> outcome[w] = "ok" \/ call[w].action \in Silent]

\* _write_audit: read the whole of audit.jsonl, write it back one line longer.
ReadAudit(w) ==
    /\ Goto(w, "readAudit", "writeAudit")
    /\ buf' = [buf EXCEPT ![w] = audit]
    /\ UNCHANGED <<log, docs, mem, token, call, base, outcome, done, faults>>

WriteAudit(w) ==
    /\ Goto(w, "writeAudit", "readActivity")
    /\ audit' = Append(buf[w], AuditLine(w))
    /\ UNCHANGED <<log, snapshot, summary, activity, mem, token, local, faults>>

\* _append_event_log: the same to event_log.md, then the call returns.
ReadActivity(w) ==
    /\ Goto(w, "readActivity", "writeActivity")
    /\ buf' = [buf EXCEPT ![w] = activity]
    /\ UNCHANGED <<log, docs, mem, token, call, base, outcome, done, faults>>

WriteActivity(w) ==
    /\ Goto(w, "writeActivity", "idle")
    /\ activity' = Append(buf[w], LogLine(w))
    /\ buf' = [buf EXCEPT ![w] = <<>>]
    /\ UNCHANGED <<log, snapshot, summary, audit, mem, token, call, base,
                   outcome, done, faults>>

\* External: write_doc raises.  The caller gets that exception, whether or not
\* the event is in the log; the instance lives on with the state it has.
WriteFails(w) ==
    /\ pc[w] \in {"flush", "summary", "writeAudit", "writeActivity"}
    /\ faults < MaxFaults
    /\ faults' = faults + 1
    /\ pc' = [pc EXCEPT ![w] = "idle"]
    /\ buf' = [buf EXCEPT ![w] = <<>>]
    /\ outcome' = [outcome EXCEPT ![w] = "error"]
    /\ UNCHANGED <<log, docs, mem, token, call, base, done>>

\* External: the process holding the world dies between two of its steps.
Crash(w) ==
    /\ pc[w] # "absent"
    /\ faults < MaxFaults
    /\ faults' = faults + 1
    /\ pc' = [pc EXCEPT ![w] = "absent"]
    /\ buf' = [buf EXCEPT ![w] = <<>>]
    /\ UNCHANGED <<log, docs, mem, token, call, base, outcome, done>>

\* What the wrapper does of its own accord once entered.
Step(w) ==
    \/ CatchUp(w) \/ NotAvailable(w) \/ Body(w) \/ BodyRaises(w) \/ Rollback(w)
    \/ AppendWins(w) \/ AppendLoses(w) \/ Discard(w)
    \/ Flush(w) \/ WriteSummary(w)
    \/ ReadAudit(w) \/ WriteAudit(w) \/ ReadActivity(w) \/ WriteActivity(w)

\* A caller that got ConcurrentUpdate calls the same action again.
Retry(w) == outcome[w] = "conflict" /\ Enter(w, call[w].action)

Next == \E w \in Worlds : \/ New(w) \/ Step(w) \/ WriteFails(w) \/ Crash(w)
                          \/ \E a \in Actions : Enter(w, a)

Spec == Init /\ [][Next]_vars

\* Entered wrappers keep running (threads are scheduled), and callers retry
\* what lost the race; nobody is obliged to start a call or a world.
Fairness == \A w \in Worlds : WF_vars(Step(w)) /\ WF_vars(Retry(w))
FairSpec == Spec /\ Fairness

-----------------------------------------------------------------------------
(* Correctness.                                                            *)

Snapshot == [state : SUBSET Exec, last_offset : Nat]

Stages == {"absent", "idle", "catchUp", "body", "rollback", "append", "discard",
           "flush", "summary", "readAudit", "writeAudit", "readActivity",
           "writeActivity"}

\* Every variable keeps its type.
TypeOK ==
    /\ log \in Seq(Exec)
    /\ snapshot \in Snapshot \cup {NoDoc}
    /\ summary \in SUBSET Exec
    /\ audit \in Seq(AuditEntry)
    /\ activity \in Seq(LogEntry)
    /\ pc \in [Worlds -> Stages]
    /\ mem \in [Worlds -> SUBSET Exec]
    /\ token \in [Worlds -> Nat]
    /\ call \in [Worlds -> Exec]
    /\ base \in [Worlds -> Nat]
    /\ buf \in [Worlds -> Seq(AuditEntry) \cup Seq(LogEntry)]
    /\ outcome \in [Worlds -> {"none", "ok", "unavailable", "error", "conflict"}]
    /\ done \in [Worlds -> 0..MaxCalls]
    /\ faults \in 0..MaxFaults

\* What state.json shows a reader.
Published == IF snapshot = NoDoc THEN {} ELSE snapshot.state

Atomic == INSTANCE AtomicProject WITH history <- log, published <- Published

\* README F9, and "no lost updates" of tests/test_world.py: direct callers see
\* a project whose actions are atomic.  A commit is published whole before the
\* next one commits, each is allowed by show_when in the state it really
\* follows, and state.json never holds less, or anything else.
ImplementsAtomicProject == Atomic!Spec

Durable == INSTANCE DurableProject
           WITH history <- log, published <- Published, forced <- FALSE

\* The same with crashes and failed writes, which can keep a commit out of
\* state.json for ever: show_when is still judged on all that was committed,
\* nobody commits over what is missing but its author, and every flush
\* publishes everything.
ImplementsDurableProject == Durable!Spec

\* show_when "not done yet" is kept by the log itself, whatever races, crashes
\* or fails: an action that is allowed once is committed once.
OnceOnly ==
    \A i, j \in 1..Len(log) :
        log[i].action = log[j].action /\ log[i].action \in Once => i = j

\* No stale or half-applied state commits: at the moment an append wins, the
\* instance's memory is exactly the effect of the log, plus its own execution.
CommitsOnCurrent ==
    [][log' # log =>
         \E w \in Worlds : /\ log' = Append(log, call[w])
                           /\ mem[w] = Effects(Len(log)) \cup {call[w]}]_vars

\* state.json is never corrupt, whatever crashes or fails: it holds exactly the
\* effects of the first last_offset events of the log.
SnapshotIsPrefix ==
    snapshot # NoDoc => /\ snapshot.last_offset \in 1..Len(log)
                        /\ snapshot.state = Effects(snapshot.last_offset)

\* summary.md, which the prompt takes over in full, may be older than state.json
\* but shows a state the project really was in: no attempt that raised or lost
\* its race, and nothing out of order.
SummaryIsPrefix == \E n \in 0..Len(log) : summary = Effects(n)

\* While the log is ahead of state.json, only the instance whose event is
\* missing there can win an append: everyone else would build on a state that
\* lacks the event.
GapHasOneOwner ==
    SnapshotOffset < Len(log) =>
        \A w \in Worlds : pc[w] # "absent" /\ token[w] = Len(log) =>
            log[Len(log)].by = w

\* The state a fault exactly between append and flush leaves: the log ahead
\* of state.json, and no flush under way.  Nothing ever replays the log.
Orphaned == /\ faults > 0
            /\ SnapshotOffset # Len(log)
            /\ \A w \in Worlds : pc[w] # "flush"

\* ConcurrentUpdate is only raised over events of others: the interval it
\* reports is not empty and, unless a fault orphaned the log, holds no event
\* of the instance's own.
ConflictsAreOthers ==
    \A w \in Worlds : pc[w] = "discard" =>
        /\ base[w] < Len(log)
        /\ Orphaned \/ \A i \in base[w] + 1..Len(log) : log[i].by # w

\* audit.jsonl and event_log.md never lie: an OK line is of an execution in the
\* log, in audit.jsonl at the offset it gives, a FAILED line of one that is
\* not, and no call has two lines, although lines of racing writers can be lost.
HonestLines(lines) ==
    \A i \in 1..Len(lines) :
        /\ lines[i].ok <=> lines[i].exec \in Effects(Len(log))
        /\ \A j \in 1..Len(lines) : lines[i].exec = lines[j].exec => i = j
AuditHonest ==
    /\ HonestLines(audit)
    /\ HonestLines(activity)
    /\ \A i \in 1..Len(audit) :
          audit[i].ok => /\ audit[i].offset \in 1..Len(log)
                         /\ log[audit[i].offset] = audit[i].exec

\* Whatever is committed reaches state.json, unless a fault orphans the log.
EventuallyFlushed ==
    \A k \in 1..Cardinality(Worlds) * MaxCalls + Len(Seeds) :
        Len(log) >= k ~> SnapshotOffset >= k \/ Orphaned

\* A caller that keeps retrying after ConcurrentUpdate gets its call decided,
\* unless a fault orphans the log or takes the caller.
LosersGetThrough ==
    \A w \in Worlds :
        outcome[w] = "conflict" ~>
            outcome[w] \in {"ok", "unavailable", "error"} \/ Orphaned
                \/ pc[w] = "absent"

\* world.py: "we never persist a half-applied action", "discard the in-memory
\* mutation".  state.json only holds effects of committed actions, and each
\* attempt that raised or lost its race is gone from it.
OnlyCommittedPersisted == Published \subseteq Effects(Len(log))

\* README F3: "an append-only audit log".  No write of audit.jsonl drops a line.
AuditAppendOnly ==
    [][/\ Len(audit) <= Len(audit')
       /\ SubSeq(audit', 1, Len(audit)) = audit]_vars
=============================================================================
