------------------------------- MODULE Runtime ------------------------------
(***************************************************************************)
(* AgentRuntime.handle: runs that let a model plan tool calls, execute     *)
(* them on a world environment of their own in a worker thread, and settle *)
(* lost races with the conflict pipeline, next to direct callers of the    *)
(* same project.  The worlds, the log and the documents are those of       *)
(* World; a consult_<name> call appends an event of its own to the log,    *)
(* from the dispatch loop, and touches no document.                        *)
(***************************************************************************)
EXTENDS World

CONSTANTS Runs,                 \* worlds that belong to a handle() call
          Subagents,            \* names of registered subagents
          Others,               \* tool calls answered without budget or log:
                                \* meta-tools, unknown names, bad arguments
          Gated,                \* actions, subagents some pre-hook may block
          Fields, Reads, Writes,    \* state fields; action -> declared fields
          MaxIterations,        \* max_iterations
          MaxTurn,              \* bound: tool calls in one assistant message
          DirectCalls,          \* bound: calls of a direct caller, as MaxCalls
          ContinueStreakCap, RecoverCap,
          ActionLimit, SubagentLimit,   \* RunBudget limits, or NoLimit
          NoLimit

Tools == Actions \cup Subagents \cup Others
Unknown == "__unknown__"
Limits == Nat \cup {NoLimit}

\* A consult's event: the nth consult of run by.
Consult == [by : Runs, action : Subagents, nth : Nat, try : {0}]

ASSUME RunsAreWorlds == Runs \subseteq Worlds
ASSUME ToolsApart == /\ Actions \cap (Subagents \cup Others) = {}
                     /\ Subagents \cap Others = {}
ASSUME Declared == /\ Reads \in [Actions -> SUBSET Fields]
                   /\ Writes \in [Actions -> SUBSET Fields]
                   /\ Unknown \notin Fields
ASSUME Caps == /\ MaxIterations \in Nat /\ MaxTurn \in Nat /\ DirectCalls \in Nat
               /\ ContinueStreakCap \in Nat
               /\ RecoverCap \in Nat \ {0}
               /\ NoLimit \notin Nat /\ ActionLimit \in Limits /\ SubagentLimit \in Limits
\* The bound on calls never stops a run.
ASSUME CallsEnough == \/ ActionLimit \in 0..MaxCalls
                      \/ MaxIterations * MaxTurn <= MaxCalls

VARIABLES
    stage,      \* run -> where it is in handle()
    turn,       \* run -> tool calls of the last assistant message still to do
    conv,       \* run -> the conversation
    tally,      \* run -> loop and budget counters
    held,       \* run -> offset in hand: a conflict's, or the consult loop's
    final,      \* run -> how it ended
    overtaken   \* history: a token was forced past an action not in state.json

world == vars
run   == <<stage, turn, conv, tally, held, final, overtaken>>
rvars == <<world, run>>

-----------------------------------------------------------------------------
(* conflict.py                                                             *)

\* Fields an action of this name may write, for the structural check.
action_writes_by_name(a) ==
    IF Reads[a] = {} /\ Writes[a] = {} THEN {Unknown} ELSE Writes[a]

\* Mutant: only write-write overlaps count.
fields_disjoint_WritesOnly(a, events) ==
    /\ Reads[a] \cup Writes[a] # {}
    /\ \A e \in events : /\ e.action \in Actions
                         /\ Unknown \notin action_writes_by_name(e.action)
                         /\ Writes[a] \cap action_writes_by_name(e.action) = {}

\* The planned action's declared fields are untouched by the events.
fields_disjoint(a, events) ==
    LET planned == Reads[a] \cup Writes[a] IN
    /\ planned # {}
    /\ \A e \in events : /\ e.action \in Actions
                         /\ Unknown \notin action_writes_by_name(e.action)
                         /\ planned \cap action_writes_by_name(e.action) = {}

\* The events a conflict reports: from the token of the append to its offset.
Intervening(r) == {log[i] : i \in base[r] + 1..held[r]}

-----------------------------------------------------------------------------
(* Helpers.                                                                *)

PlanMsg(n)       == [kind |-> "assistant", calls |-> n]
NoteMsg          == [kind |-> "note"]
Reply(result)    == [kind |-> "tool", result |-> result]
CallReply(r)     == [kind |-> "tool", result |-> outcome[r], exec |-> call[r]]
ConsultReply(e)  == [kind |-> "tool", result |-> "consulted", exec |-> e]

At(r, s)   == stage[r] = s
Move(r, s) == stage' = [stage EXCEPT ![r] = s]
Count(r, what) == tally' = [tally EXCEPT ![r][what] = @ + 1]

\* Mutant: the limit is compared before this call is counted, with > for >=.
WithinLimit_OffByOne(count, limit) == limit # NoLimit => count <= limit

\* check_action, check_subagent.
WithinLimit(count, limit) == limit # NoLimit => count < limit

\* record_action; without a limit nothing reads the counter.
Charge(r) == IF ActionLimit = NoLimit THEN UNCHANGED tally ELSE Count(r, "actions")

\* The reply is threaded back and the loop goes on to the next tool call.
Answered(r, message) ==
    /\ conv' = [conv EXCEPT ![r] = Append(@, message)]
    /\ turn' = [turn EXCEPT ![r] = Tail(@)]
    /\ Move(r, IF Len(turn[r]) = 1 THEN "plan" ELSE "call")

\* The run leaves the loop.
Leave(r, how) == Move(r, "ending") /\ final' = [final EXCEPT ![r] = how]

\* Mutant: the stale assistant message stays in the conversation.
DropTurn_KeepsAssistant(c) ==
    SubSeq(c, 1, CHOOSE i \in 1..Len(c) :
                   /\ c[i].kind = "assistant"
                   /\ \A j \in i + 1..Len(c) : c[j].kind # "assistant")

\* The conversation without its last assistant message and its replies.
DropTurn(c) ==
    SubSeq(c, 1, (CHOOSE i \in 1..Len(c) :
                    /\ c[i].kind = "assistant"
                    /\ \A j \in i + 1..Len(c) : c[j].kind # "assistant") - 1)

-----------------------------------------------------------------------------
RInit ==
    /\ Init
    /\ stage = [r \in Runs |-> "off"]
    /\ turn = [r \in Runs |-> <<>>]
    /\ conv = [r \in Runs |-> <<>>]
    /\ tally = [r \in Runs |-> [turns |-> 0, streak |-> 0, recovers |-> 0,
                                actions |-> 0, consults |-> 0]]
    /\ held = [r \in Runs |-> 0]
    /\ final = [r \in Runs |-> "none"]
    /\ overtaken = FALSE

\* handle: pre_trigger lets the event through; a world is made for the run.
Trigger(r) ==
    /\ At(r, "off") /\ Move(r, "plan")
    /\ New(r)
    /\ UNCHANGED <<turn, conv, tally, held, final, overtaken>>

\* pre_trigger blocks: run_complete fires and that is all.
TriggerBlocked(r) ==
    /\ At(r, "off") /\ Move(r, "complete")
    /\ final' = [final EXCEPT ![r] = "blocked"]
    /\ UNCHANGED <<world, turn, conv, tally, held, overtaken>>

\* One iteration: hydrate, and the model answers with tool calls or without.
Plan(r) ==
    /\ At(r, "plan")
    /\ tally[r].turns < MaxIterations
    /\ Count(r, "turns")
    /\ Hydrate(r)
    /\ \/ /\ Leave(r, "answer")
          /\ conv' = [conv EXCEPT ![r] = Append(@, PlanMsg(0))]
          /\ UNCHANGED turn
       \/ \E n \in 1..MaxTurn : \E calls \in [1..n -> Tools] :
            /\ Move(r, "call")
            /\ turn' = [turn EXCEPT ![r] = calls]
            /\ conv' = [conv EXCEPT ![r] = Append(@, PlanMsg(n))]
            /\ UNCHANGED final
    /\ UNCHANGED <<log, docs, pc, local, faults, held, overtaken>>

\* max_iterations is used up.
Exhausted(r) ==
    /\ At(r, "plan")
    /\ tally[r].turns = MaxIterations
    /\ Leave(r, "exhausted")
    /\ UNCHANGED <<world, turn, conv, tally, held, overtaken>>

\* _execute_call: a tool call that needs no budget is answered on the spot.
CallOther(r) ==
    /\ At(r, "call") /\ Head(turn[r]) \in Others
    /\ Answered(r, Reply("other"))
    /\ tally' = [tally EXCEPT ![r].streak = 0]
    /\ UNCHANGED <<world, held, final, overtaken>>

\* The action budget is used up, or a pre_action hook blocks the paid call.
CallBlocked(r) ==
    /\ At(r, "call") /\ Head(turn[r]) \in Actions
    /\ \/ /\ ~WithinLimit(tally[r].actions, ActionLimit)
          /\ tally' = [tally EXCEPT ![r].streak = 0]
       \/ /\ WithinLimit(tally[r].actions, ActionLimit)
          /\ Head(turn[r]) \in Gated
          /\ tally' = [tally EXCEPT ![r].streak = 0, ![r].actions =
                         IF ActionLimit = NoLimit THEN @ ELSE @ + 1]
    /\ Answered(r, Reply("blocked"))
    /\ UNCHANGED <<world, held, final, overtaken>>

\* The call is paid for, let through and handed to a thread.
CallAction(r) ==
    /\ At(r, "call") /\ Head(turn[r]) \in Actions
    /\ WithinLimit(tally[r].actions, ActionLimit)
    /\ Charge(r)
    /\ Enter(r, Head(turn[r]))
    /\ Move(r, "running")
    /\ UNCHANGED <<turn, conv, held, final, overtaken>>

\* The thread runs the wrapper; a conflict carries the log's length.
Thread(r) ==
    /\ At(r, "running")
    /\ Step(r)
    /\ held' = [held EXCEPT ![r] = IF pc'[r] = "discard" THEN Len(log) ELSE @]
    /\ UNCHANGED <<stage, turn, conv, tally, final, overtaken>>

\* The wrapper returned, or raised anything but ConcurrentUpdate.
Returned(r) ==
    /\ At(r, "running") /\ pc[r] = "idle"
    /\ outcome[r] \in {"ok", "unavailable", "error"}
    /\ Answered(r, CallReply(r))
    /\ tally' = [tally EXCEPT ![r].streak = 0]
    /\ UNCHANGED <<world, held, final, overtaken>>

-----------------------------------------------------------------------------
(* _execute_with_conflict_handling: the wrapper raised ConcurrentUpdate.   *)

Lost(r) == At(r, "running") /\ pc[r] = "idle" /\ outcome[r] = "conflict"
AutoContinue(r) == fields_disjoint(Head(turn[r]), Intervening(r))

\* Mutant: the token is not moved past the intervening events.
Acknowledge_HydrateOnly(r) == Hydrate(r) /\ UNCHANGED overtaken

\* Mutant: the token is moved, but state.json is not read again.
Acknowledge_TokenOnly(r) ==
    /\ token' = [token EXCEPT ![r] = held[r]]
    /\ UNCHANGED mem
    /\ overtaken' = (overtaken \/ \E i \in SnapshotOffset + 1..held[r] :
                                      log[i].action \in Actions)

\* Mutant: the token is set to the offset after the conflict's.
Acknowledge_OneTooFar(r) ==
    /\ IF snapshot = NoDoc THEN UNCHANGED mem
       ELSE mem' = [mem EXCEPT ![r] = snapshot.state]
    /\ token' = [token EXCEPT ![r] = held[r] + 1]
    /\ overtaken' = (overtaken \/ \E i \in SnapshotOffset + 1..held[r] :
                                      log[i].action \in Actions)

\* After a decision: hydrate, then set the token to the conflict's offset.
Acknowledge(r) ==
    /\ IF snapshot = NoDoc THEN UNCHANGED mem
       ELSE mem' = [mem EXCEPT ![r] = snapshot.state]
    /\ token' = [token EXCEPT ![r] = held[r]]
    /\ overtaken' = (overtaken \/ \E i \in SnapshotOffset + 1..held[r] :
                                      log[i].action \in Actions)

\* Continue: the same call again; a streak past its cap is not told apart.
Continue(r) ==
    /\ Move(r, "call")
    /\ tally' = [tally EXCEPT ![r].streak = IF @ < ContinueStreakCap THEN @ + 1 ELSE @]
    /\ UNCHANGED <<turn, conv, final>>

\* Recover: drop the turn and plan anew, or abandon at the cap.
Recover(r) ==
    /\ tally' = [tally EXCEPT ![r].recovers = @ + 1, ![r].streak = 0]
    /\ turn' = [turn EXCEPT ![r] = <<>>]
    /\ IF tally[r].recovers + 1 >= RecoverCap
       THEN Leave(r, "abandoned") /\ UNCHANGED conv
       ELSE /\ Move(r, "plan")
            /\ conv' = [conv EXCEPT ![r] = Append(DropTurn(@), NoteMsg)]
            /\ UNCHANGED final

Abandon(r) == Leave(r, "abandoned") /\ UNCHANGED <<turn, conv, tally>>

\* Declared fields untouched: retry without asking.
RetryUnasked(r) ==
    /\ Lost(r) /\ AutoContinue(r)
    /\ Acknowledge(r) /\ Continue(r)
    /\ UNCHANGED <<log, docs, pc, local, faults, held>>

\* Too many retries in a row: recover without asking.
Escalate(r) ==
    /\ Lost(r) /\ ~AutoContinue(r) /\ tally[r].streak >= ContinueStreakCap
    /\ Acknowledge(r) /\ Recover(r)
    /\ UNCHANGED <<log, docs, pc, local, faults, held>>

\* The resolver is asked, which usually means a model is.
Ask(r) ==
    /\ Lost(r) /\ ~AutoContinue(r) /\ tally[r].streak < ContinueStreakCap
    /\ Move(r, "resolving")
    /\ UNCHANGED <<world, turn, conv, tally, held, final, overtaken>>

Resolve(r) ==
    /\ At(r, "resolving")
    /\ Acknowledge(r)
    /\ Continue(r) \/ Recover(r) \/ Abandon(r)
    /\ UNCHANGED <<log, docs, pc, local, faults, held>>

-----------------------------------------------------------------------------
(* execute_subagent_call.                                                  *)

ConsultEvent(r) == [by |-> r, action |-> Head(turn[r]), nth |-> tally[r].consults, try |-> 0]

\* The consult budget is used up, or the paid consult has no message or is
\* blocked by a pre_subagent_call hook.
ConsultBlocked(r) ==
    /\ At(r, "call") /\ Head(turn[r]) \in Subagents
    /\ \/ /\ ~WithinLimit(tally[r].consults, SubagentLimit)
          /\ UNCHANGED tally
       \/ /\ WithinLimit(tally[r].consults, SubagentLimit)
          /\ Head(turn[r]) \in Gated
          /\ Count(r, "consults")
    /\ Answered(r, Reply("blocked"))
    /\ UNCHANGED <<world, held, final, overtaken>>

\* The consult is paid for and the subagent is asked.
ConsultSubagent(r) ==
    /\ At(r, "call") /\ Head(turn[r]) \in Subagents
    /\ WithinLimit(tally[r].consults, SubagentLimit)
    /\ Count(r, "consults")
    /\ Move(r, "consulting")
    /\ UNCHANGED <<world, turn, conv, held, final, overtaken>>

\* It answered, failed or timed out: _append_subagent_event reads the offset.
ReadOffset(r) ==
    /\ At(r, "consulting") /\ Move(r, "recording")
    /\ held' = [held EXCEPT ![r] = Len(log)]
    /\ UNCHANGED <<world, turn, conv, tally, final, overtaken>>

\* The loop's append wins.
ConsultRecorded(r) ==
    /\ At(r, "recording") /\ held[r] = Len(log)
    /\ log' = Append(log, ConsultEvent(r))
    /\ Answered(r, ConsultReply(ConsultEvent(r)))
    /\ UNCHANGED <<docs, pc, mem, token, local, faults, tally, held, final, overtaken>>

\* Mutant: the consult is reported without trying again.
ConsultRetried_GivesUp(r) ==
    /\ At(r, "recording") /\ held[r] # Len(log)
    /\ Answered(r, ConsultReply(ConsultEvent(r)))
    /\ UNCHANGED <<world, tally, held, final, overtaken>>

\* The loop's append loses: read the offset again.
ConsultRetried(r) ==
    /\ At(r, "recording") /\ held[r] # Len(log)
    /\ Move(r, "consulting")
    /\ UNCHANGED <<world, turn, conv, tally, held, final, overtaken>>

-----------------------------------------------------------------------------
\* External: the model, the resolver, a pre-hook or an adapter raises.
Escapes(r) ==
    /\ stage[r] \in {"plan", "call", "resolving", "consulting"}
    /\ Leave(r, "error")
    /\ UNCHANGED <<world, turn, conv, tally, held, overtaken>>

\* finally: emit FINAL, fire run_complete.
Finish(r) ==
    /\ At(r, "ending") /\ Move(r, "complete")
    /\ UNCHANGED <<world, turn, conv, tally, held, final, overtaken>>

\* External: a write of the running call fails, or the run's process dies.
RunFault(r) ==
    /\ \/ WriteFails(r) /\ UNCHANGED stage
       \/ Crash(r) /\ stage[r] # "complete" /\ Move(r, "dead")
    /\ UNCHANGED <<turn, conv, tally, held, final, overtaken>>

RunStep(r) ==
    \/ Plan(r) \/ Exhausted(r)
    \/ CallOther(r) \/ CallBlocked(r) \/ CallAction(r) \/ Thread(r) \/ Returned(r)
    \/ RetryUnasked(r) \/ Escalate(r) \/ Ask(r) \/ Resolve(r)
    \/ ConsultBlocked(r) \/ ConsultSubagent(r) \/ ReadOffset(r)
    \/ ConsultRecorded(r) \/ ConsultRetried(r)
    \/ Finish(r)

\* A caller outside any run: tests, schedulers, people, as in World.
DirectStep(w) ==
    /\ \/ New(w) \/ Step(w) \/ WriteFails(w) \/ Crash(w)
       \/ done[w] < DirectCalls /\ \E a \in Actions : Enter(w, a)
    /\ UNCHANGED run

RNext ==
    \/ \E r \in Runs : \/ Trigger(r) \/ TriggerBlocked(r) \/ RunStep(r)
                       \/ Escapes(r) \/ RunFault(r)
    \/ \E w \in Worlds \ Runs : DirectStep(w)

RSpec == RInit /\ [][RNext]_rvars

\* The event loop and its threads are scheduled; direct callers retry what they
\* lost.  The models, hooks and subagents that a run awaits are assumed to
\* answer or raise, which an A2A server need not (Consults!TalkingOrDone).
\* Nobody is obliged to trigger a run or to start a call.
RFairness == /\ \A r \in Runs : WF_rvars(RunStep(r))
             /\ \A w \in Worlds \ Runs :
                  WF_rvars(Step(w) /\ UNCHANGED run) /\ WF_rvars(Retry(w) /\ UNCHANGED run)
RFairSpec == RSpec /\ RFairness

-----------------------------------------------------------------------------
(* Correctness.                                                            *)

Stage == {"off", "plan", "call", "running", "resolving", "consulting",
          "recording", "ending", "complete", "dead"}
Results == {"ok", "unavailable", "error", "blocked", "other", "consulted"}

\* Every variable keeps its type, World's log now with consults in it.
RTypeOK ==
    /\ log \in Seq(Exec \cup Consult)
    /\ snapshot = NoDoc \/ /\ snapshot.state \in SUBSET Exec
                           /\ snapshot.last_offset \in 1..Len(log)
    /\ pc \in [Worlds -> Stages]
    /\ mem \in [Worlds -> SUBSET Exec]
    /\ \A w \in Worlds : token[w] \in 0..Len(log) /\ base[w] \in 0..Len(log)
    /\ stage \in [Runs -> Stage]
    /\ turn \in [Runs -> Seq(Tools)]
    /\ \A r \in Runs : /\ held[r] \in 0..Len(log)
                       /\ tally[r].turns \in 0..MaxIterations
                       /\ tally[r].streak \in 0..ContinueStreakCap
                       /\ tally[r].recovers \in 0..RecoverCap
    /\ final \in [Runs -> {"none", "answer", "abandoned", "blocked", "exhausted", "error"}]
    /\ overtaken \in BOOLEAN

\* The state that holds exactly the actions among the first n events.
Reflected(n) == {e \in Effects(n) : e.action \in Actions}

\* An action commits on a state other than the log's only after some run has
\* forced its token past an action that state.json did not hold yet
\* (runtime.py: "the snapshot is assumed consistent").  Consults in the log,
\* retries and replanning alone never lead to it.
StaleOnlyByOvertaking ==
    [][\A w \in Worlds :
         pc[w] = "append" /\ pc'[w] = "flush" /\ ~overtaken =>
             mem[w] = Reflected(Len(log)) \cup {call[w]}]_rvars

Unforced == INSTANCE DurableProject
            WITH history <- log, published <- Published, forced <- overtaken

\* Runs, their consults and their tokens included, the project keeps what it
\* promises direct callers until a token is forced past an action that
\* state.json does not hold: forcing it past consults breaks nothing.
DurableUntilOvertaken == Unforced!Spec

\* So until then an action that is allowed once is committed once.
OnceUnlessOvertaken == overtaken \/ OnceOnly

\* A consult shuts direct callers out: they only ever commit right after an
\* action, since nothing else moves the offset that they hydrate.
DirectFollowsAction ==
    [][\A w \in Worlds \ Runs :
         pc[w] = "append" /\ pc'[w] = "flush" /\ log # <<>> =>
             log[Len(log)].action \in Actions]_rvars

\* What a tool reply tells the model is so, whatever crashes or fails: "ok" for
\* an event in the log, "consulted" for a consult that is in it, "unavailable"
\* and "error" for a call that left none.  Only an "error" after a fault may be
\* either, since a write can fail behind the append.
RepliesTrue ==
    \A r \in Runs : \A i \in 1..Len(conv[r]) :
        LET m == conv[r][i] IN
        m.kind = "tool" /\ "exec" \in DOMAIN m =>
            \/ m.result \in {"ok", "consulted"} <=> m.exec \in Effects(Len(log))
            \/ m.result = "error" /\ faults > 0

\* Whenever the model is called, every assistant message in the conversation is
\* followed by a reply to each of its tool calls, and no reply is without one.
ConversationWellFormed ==
    \A r \in Runs : stage[r] = "plan" =>
        LET c == conv[r]
            Owed == UNION {i + 1..i + c[i].calls :
                             i \in {j \in 1..Len(c) : c[j].kind = "assistant"}} IN
        {i \in 1..Len(c) : c[i].kind = "tool"} = Owed

\* README F11: whatever is retried, replanned or asked again, a run never gets
\* more actions, or more consults, into the log than its budget allows.
EventsOf(r, names) ==
    {i \in 1..Len(log) : log[i].by = r /\ log[i].nth > 0 /\ log[i].action \in names}
WithinBudget ==
    \A r \in Runs :
        /\ ActionLimit # NoLimit => Cardinality(EventsOf(r, Actions)) <= ActionLimit
        /\ SubagentLimit # NoLimit =>
             Cardinality(EventsOf(r, Subagents)) <= SubagentLimit

\* What a state shows of one field, and the fields an action may really write.
MayWrite(a) == IF Reads[a] = {} /\ Writes[a] = {} THEN Fields ELSE Writes[a]
View(state, f) == {e \in state : f \in MayWrite(e.action)}

\* A call is retried without asking only if the fields it declares look the
\* same in the log it was executed against and in the one it is retried on.
AutoContinueHarmless ==
    [][\A r \in Runs :
         Lost(r) /\ stage'[r] = "call" =>
             \A f \in Reads[Head(turn[r])] \cup Writes[Head(turn[r])] :
                 View(Reflected(base[r]), f) = View(Reflected(held[r]), f)]_rvars

\* Every run ends, whatever conflicts, budget or caps it meets: FINAL is sent
\* and run_complete fires, unless its process dies or what it awaits never ends.
RunsEnd == \A r \in Runs : stage[r] # "off" ~> stage[r] \in {"complete", "dead"}

\* README: "the conversation is preserved; only the next assistant turn is
\* regenerated".  Whenever the model plans, the conversation holds the reply
\* of every call of this run that has committed.
CommitsRemembered ==
    \A r \in Runs : stage[r] = "plan" =>
        \A k \in EventsOf(r, Actions) :
            \E i \in 1..Len(conv[r]) :
                /\ conv[r][i].kind = "tool" /\ "exec" \in DOMAIN conv[r][i]
                /\ conv[r][i].exec = log[k]

\* dispatch.py: consults "are commutative w.r.t. any concurrent @action".  A
\* direct caller that keeps retrying after ConcurrentUpdate gets through.
DirectCallersGetThrough ==
    \A w \in Worlds \ Runs :
        outcome[w] = "conflict" ~> outcome[w] \in {"ok", "unavailable", "error"}
=============================================================================
