# Verification of distributed-agent-harness

TLA+ models, TLC runs and TLAPS proofs for the harness in
`distributed_agent_harness/`: agents, people and programs that change one
project concurrently through an append-only event log with an optimistic
compare-and-swap token, a snapshot document beside it, and an agent loop that
settles lost races by asking a model. Paths below are relative to the
repository.

## 1. Inventory

| Part | State it keeps | Operations | Module |
|---|---|---|---|
| Event log (`eventlog.py`) | per project a list of events with offset, `prev_hash`, `hash`, under a lock | `current_offset`, `append` (Appended or Conflict), `read`, `verify_chain` | `EventLog` |
| World environment, `@action` (`world.py`) | per instance `state` and `_last_seen_offset`; in the namespace `state.json`, `summary.md`, `audit.jsonl`, `event_log.md` | `__init__`, the action wrapper, `_hydrate`, `_flush`, `_write_audit`, `_append_event_log` | `World` |
| Agent runtime (`runtime.py`) | per run the conversation, loop counters, one world, one budget | `handle`, `_execute_call`, `_execute_with_conflict_handling` | `Runtime` |
| Conflict pipeline (`conflict.py`) | none | `fields_disjoint`, resolvers, `_parse_decision` | `Runtime` |
| Hooks and budget (`hooks.py`) | registered hooks; counters of a run | `check_*`, `record_*`, `fire_*` | `Runtime`, `Consults` (part) |
| Subagent dispatch (`subagents/dispatch.py`) | none of its own; artefact files, consult events | `execute_subagent_call`, `persist_artefacts`, `_append_subagent_event` | `Consults`; `Runtime`, `EventLog` (part) |
| A2A client (`subagents/a2a.py`) | per consult how far its two requests are, the lines buffered, the text so far, a timer | `consult`, `_stream_task`, `_aiter_sse_events` | `A2AStream` |
| In-process subagents (`subagents/inprocess/`) | handlers by topic, subscriptions | `request`, `subscribe`, `unsubscribe`, `stop`, `consult` | `MessageBus`, `Consults` |
| Subagent registries (`subagents/base.py`, `registry.py`) | clients by name; agent cards | `register`, `load_subagents_from_registry` | `Consults` (set-up) |
| Namespace (`namespace.py`, `adapters/memory.py`) | documents by path | `read_doc`, `write_doc`, `write_binary`, `list_docs` | steps of `World`, `Consults`, `Browse` |
| Readers (`namespace_browse.py`, `meta_tools.py`, `event_search.py`) | none; the model keeps the next offset | `ls`, `read`, `grep`, `search_event_log` | `Browse`, `EventSearch` |
| Data protection (`examples/use_cases/data_protection`) | engagement, policies, data subjects, requests, breaches | its 16 actions | `DataProtection` |
| Prompt builder, transport, identity, providers, CLI, chat | none that outlives a call | formatting, input and output | not modelled |
| Web console (`examples/interfaces/web_console`) | a queue per channel | one `handle()` per request | its runs are `Runtime`'s |

How the parts interact. A caller (a run of the agent runtime, or anyone holding
a world) calls an action. The wrapper reads the log's length; if that is not
its token it hydrates, that is, it reads `state.json`, which also holds the
offset that becomes the token. It runs the body on the state in memory, appends
the event with the token, and on success writes `state.json`, `summary.md`,
`audit.jsonl` and `event_log.md`, one after the other. On a conflict it hydrates
again and raises `ConcurrentUpdate`. A run catches that, decides (structurally,
by cap, or by asking a resolver) to continue, recover or abandon, hydrates, and
*sets* the token to the conflict's offset. A consult appends to the same log
from the dispatch loop without a snapshot.

What is hard here. Log and documents are separate stores, so an event is
visible before the state that goes with it; every document write is a separate
step, and two of them are read-modify-write; a fault can fall between any two;
the resolver and the model are awaited in the middle of a conflict; retries go
through budget and hooks again; the consult's event and its caller's token
interfere. Nothing replays the log, so what the snapshot misses is gone. A consult
is a chain of awaits that can end at each of them, with artefacts written and
no event, or an event and no answer; an A2A consult is two requests, the second
without a timer until its headers come, and its stream comes apart into lines under
a watchdog that every line resets; the bus looks a handler up once and awaits
it while workers come and go. Readers page through texts and logs that grow
between their calls. The example's gates ask whether some record allows an
action, while its calls name any record.

What makes each part correct:
- *Event log*: offsets are dense and per project, nothing is removed or stored
  twice, a conflict reports exactly the missed events, damage is found where it
  happened, retry loops end.
- *World*: to an observer of log and `state.json` actions are atomic and
  serial; nothing commits on stale or half-applied state; the snapshot is
  always the effect of a prefix of the log; what commits reaches it; the logs
  for people never lie.
- *Runtime*: what the model is told is true, the conversation is one a provider
  accepts, budgets hold however often a call is retried, a retry without asking
  is harmless, every run ends, and stale state commits only where the forced
  token allows it.
- *Consults*: each consult leaves one event or none, as it ended; artefacts an
  event names stay readable, artefacts without one are explained; the answer is
  what the stream or the handler said, and is final; a consult ends unless its
  server keeps talking, or leaves the stream it was asked for unopened.
- *Readers*: pages join without gap or overlap, as far as the code's paging can.
- *Data protection*: statuses are true to what was done however calls are
  ordered or repeated, closed requests stay closed, no duty is hidden, and exactly one
  kind of breach cannot meet its own.

`PROJECT.json` lists, under `hazards`, the places in the code where these can
go wrong and the property that watches each.

## 2. Modules

| Module | Content |
|---|---|
| `EventLog` | The log, clients in read-append-retry loops, one damaged event. A hash is the sequence of fields it covers, so equal hashes mean equal histories. |
| `AtomicProject` | What direct callers are promised: one variable for history, one for the published state; a commit is allowed by `show_when` in the state it follows and published whole before the next. |
| `DurableProject` | What outlives crashes and failed writes: actions commit serially, each allowed by all before it; publication may be lost, and as long as commits are unpublished only their author commits. |
| `World` | Any number of worlds running the wrapper step by step on one project. The domain state is the set of executions it holds; a lost update is a missing element, a half-applied or repeated one an extra element. |
| `Runtime` | Extends `World`: some worlds belong to runs of `handle()`, the others to direct callers. |
| `EventSearch` | Extends `EventLog` by a reader that pages through a search while the clients append. |
| `A2AStream`, `MessageBus`, `Browse` | One task stream per A2A consult; one topic of the bus; the documents as `ls`, `grep` and `read` show them. Each has its own variables and actions. |
| `Consults` | Extends these three: subagent consults from argument check to post hooks, with their artefacts and events. |
| `DataProtection` | The example's world, one step per call. |
| `EventLogProofs`, `EventSearchProofs`, `WorldProofs`, `RuntimeProofs`, `DataProtectionProofs`, `ConsultsProofs` | Theorems about the module each is named after, and their proofs. `RuntimeProofs` extends `WorldProofs`, whose lemmas on single steps and texts it uses. |
| `DurableProofs` | What follows from `DurableProject` alone; both `WorldProofs` and `RuntimeProofs` take it from there. |
| `StreamProofs` | Theorems about what consults hear and readers see: `A2AStream` and `Browse` as parts of `Consults`, and its types. |
| `MCEventLog`, `MCWorld`, `MCRuntime`, `MCConsults`, `MCDataProtection` | Values for TLC; each run has a `.cfg`. |

Correspondence. In `World`, `pc[w]` is the point the wrapper of instance `w` has
reached, `mem[w]` its `self.state`, `token[w]` its `_last_seen_offset`, `call[w]` the
execution in progress; each access to the log or to a document is one action
(`Enter` reads the length, `CatchUp`, `Rollback`, `Discard` hydrate, `AppendWins` and `AppendLoses`
append, `Flush`, `WriteSummary`, `Read/WriteAudit`, `Read/WriteActivity` follow the writes). The
bit `try` of an execution tells an attempt from its retry. `NoDoc` is the absent
`state.json`; `Once` are actions whose `show_when` is "not done yet", `Fallible` and `Torn` those
whose body may raise before or after changing the state, `Silent` those whose
exception has an empty message, which `event_log.md` takes for success.

In `Runtime`, `stage[r]` is the point `handle()` has reached, `turn[r]` the tool calls still to
do, `conv[r]` the conversation without its texts, `tally[r]` the loop and budget counters,
`held[r]` the offset carried by the conflict or by the consult loop. `Plan` is an
iteration up to the model's answer, which is arbitrary; `CallAction` pays, passes
the hook and enters the wrapper, whose steps are then `Thread`; `RetryUnasked`, `Escalate`, `Ask`
and `Resolve` are the conflict pipeline with `Acknowledge` its forced token; `ConsultSubagent`, `ReadOffset`,
`ConsultRecorded` and `ConsultRetried` are the dispatch. `overtaken` is a history variable: a
token was forced past an action that `state.json` did not hold. Without a limit
the action counter, which nothing then reads, does not count; the streak does
not count beyond its cap.

In `Consults`, `pc[c]` is the point `execute_subagent_call` has reached: `new`, `asking` while
`client.consult` is awaited, `answered` with a `response`, `logging` before and `append` after the
offset is read, `logged` before the post hooks, `done`; `outcome[c]` is how it ended. What
lies between two awaits is one step. `Via` tells the client: over A2A the consult
goes on with `Connect`, `Line`, `KeepAlive`, `Quiet` (the timer that runs, if any, runs out), `LastLine`, `Closed`; over the bus
and as a coroutine with `Answer`; all may fail or time out. `link[c]`
says how far the two requests of an A2A consult are: `submitting` while `tasks/send` is unanswered, under the
HTTP client's own timeout per read; `submitted` while the headers of the stream are awaited, which
nothing times; `streaming` under the watchdog. `Submit`, `Submitted` and `Open` are the steps between them, `fresh[c]` the
time left of the timer that runs; a timeout of the client is an HTTP error (`Fails`), one of the watchdog a
`SubagentTimeout` (`TimesOut`). A line of a stream is an `event:`
field, a `data:` field or a blank; the text of a `data:` line is its position, so that
texts joined from several events show which lines they come from. `ParsedAsSent` compares
the parser, which sees one line at a time, with `Means`, which looks at the whole
stream. `serving[r]` is the worker a request awaits; a path is the sequence of its
segments, an artefact's name in it being a digest and a sanitised name; a text is
its number of lines. `load_subagents_from_registry` determines the initial registry.
Reading a text and consulting share no variable, so a reader runs only in the set-up
without subagents.

In `EventSearch` the reader keeps its `pages` and how long the log was when it last
asked (`upto`). In `DataProtection` records are sequences in the order of the code's lists,
a uuid is a position, `0` is the `subject_id` "unregistered". `aware` tells whether the `discovered_at` passed to `report_breach` has a time
zone: `notify_ico` subtracts it from the time of day in UTC, which raises for one that has none.

## 3. Runs

| Run | Question | States, time with 2 workers |
|---|---|---|
| `eventlog` | 3 clients, 2 projects, 3 events, 1 damage, a reader of 2 pages of 2: append-only, exact conflicts, one store per event, damage located, loops end, what paging reaches | 0.3 million, 45 s |
| `world` | 2 worlds, 2 calls each, an old project, a body that raises half way: refinement of `AtomicProject`, honest audit, conflicts are others' | 2.4 million, 60 s |
| `world_crash` | 2 worlds, 1 call each, a new project, one crash or failed write anywhere: refinement of `DurableProject`, snapshot and summary are of prefixes, commits are flushed and losers get through unless a fault orphans the log | 76 thousand, 18 s |
| `runtime` | a run of 2 turns of up to 2 calls beside a direct caller: conversation well formed, budget, harmless retries, only committed effects persisted; until a token overtakes, no stale commit, refinement of `DurableProject` | 2.3 million, 65 s |
| `runtime_live` | a run of 1 turn of 1 call, also one answered without budget, beside a direct caller of 2 calls; no action limit, one fault anywhere: runs end, replies true | 0.82 million, 115 s |
| `consults` | two consults beside another writer, over a bus with two workers, a bus and a coroutine; or one over A2A, of a loaded name, and one of a name whose loading failed; or a reader of a text of up to 5 lines: one record per consult, artefacts kept and explained, answers as sent and final, workers reachable, pages join, consults end | 0.46 million, 50 s |
| `data_protection` | an engagement with 3 records in all: statuses truthful, erasure traceable, one text per version, duties can be met but for a discovery without time zone, closed for good | 0.60 million, 15 s |
| `world_audit_race`, `runtime_stale`, `runtime_double_apply`, `runtime_consult_blocks`, `runtime_forgets` | find the disagreements of section 6 | seconds |

Bounds. Two worlds are enough for every race over one append, since a commit
involves a winner and losers that do not interact; the proofs of section 5 lift
the `World` results to any number. Two calls each let a world commit after it has
lost, and lose after it has committed. One fault reaches every point between
two steps. Three clients in `eventlog` let a conflict report more than one event.
In `Runtime` two turns and `RecoverCap = 2` reach replanning and the cap, `ContinueStreakCap = 1` a
retry and the escalation, two calls per turn a conflict after a commit in the
same turn, `ActionLimit = 2` a retry that is blocked by the budget. `MaxCalls`, `MaxFaults`, `MaxEvents`,
`MaxTurn` and `DirectCalls` bound the models, not the program; `MaxIterations`, the caps and the
limits are the program's own, with smaller values. Deadlock is not checked:
projects on which every allowed call has been made, and runs that have ended,
stop.

In `consults` two consults and one other event make every append lose and win; each
of the two returns two artefacts, whose names collide with different bytes and
whose bytes are shared under names that sanitise to the same, so that both
halves of a path are needed; a second worker can take the topic after the first has stopped,
and the first be stopped again; three events in a stream are two that say something and one that
ends it, or an unknown or unnamed one between; five lines read in windows of one or
two make three pages and more, from the top or from a match of grep. Data of a
consult that no property compares is dropped: text is kept for A2A only, the lines of an
answered stream are forgotten when its artefacts are written. In `data_protection` three records
are a pair of one kind, which tells gates for some record from guards of this one, beside one
it refers to. The pages of `eventlog` are full with two events and a third is cut off.

Some theorems state what no passing run checks by itself. `OnceOnly` and `OnceUnlessOvertaken` are implied by the
refinements of `DurableProject`; a violation of `CommitsOnCurrent` (which `runtime_stale` finds for forced tokens) or of
`GapHasOneOwner` breaks a refinement with the next flush; `OffsetsDense` and `DirectFollowsAction` are proved only, and
`AuditHonest` is checked for direct callers and proved for runs as well.

Each property of a passing run is also shown to be sensitive: `PROJECT.json` pairs
it with a mutated definition (marked "Mutant" in the modules) under which TLC
finds it violated.

## 4. Fairness

`EventLog` and `World`: entered wrappers and append loops take their next step (threads
and tasks are scheduled), callers that lost retry. Nobody is obliged to begin.
`Runtime`: the run's own steps are fair, which includes the answers of the model, the
resolver, hooks and subagents it awaits. An
exception only shortens a run (`Escapes`, which is not fair). For in-process subagents the code justifies this
by its timeouts; for A2A servers it is an assumption, since the code awaits the headers of the stream
without a timeout and every line gives a server another window (below): `RunsEnd` is about runs whose
servers send the headers and stop sending. Triggers and faults
are not fair. `Consults`: the event loop runs what is ready, and timers fire, hence weak fairness of a
consult's own steps, of a silence that uses up the window and of the timeout after it, the watchdog's
and the HTTP client's (`Unanswered(c) /\ Fails(c)`);
nobody is obliged to answer, so `Connect` is not fair. `TalkingOrDone` says what follows: a consult ends, or the server sends
for ever, or from some point on the consult waits for the headers of its stream. `LosersGetThrough`, `EventuallyFlushed`, `RunsEnd` and `TalkingOrDone` rest on this and stay with TLC, as does
everything with `ENABLED` in it.

## 5. Proofs

All theorems hold for every value of the constants, under the assumptions on
constants their modules name and, where said, one more. Each safety theorem is
proved from an inductive invariant in three steps (it holds initially, every
step keeps it, it implies the property); the invariant is stated as a
conjunction of named parts, and each part is there because the property alone is
not kept by some step. Recursion is not used in modules with theorems.

*`EventLogProofs`*

| Theorem | Property | Inductive invariant, and why |
|---|---|---|
| `TypeCorrect` | `TypeOK` | a client in its loop has an event left (`BusyHasEvent`), else `sent` could pass its bound |
| `LogAppendOnly` | `AppendOnly` | from the types: one slot is added, or one is damaged |
| `LogDense` | `OffsetsDense` | itself |
| `LosersAreTold` | `ConflictExplained` | `TokensBehind`: a token read is never ahead of its log, so that `SubSeq` from it lies within; the log only grows (`LengthsGrow`) |
| `DamageIsFound` | `DamageLocated` | `DamageInv`: one slot at most is damaged and is broken, every slot below it is sound, and before it each event is some client's. A slot is judged by itself and the one before (`LinkIsLocal`), so appends judge no old slot anew (`AppendLinks`) and the edit none below it (`EditLinks`) |
| `AcceptedOnce` | `StoredOnce` | `OnceInv`, until damage: what is stored was sent, what was sent is stored, at one place. The property counts; counting is done once, by an injection from the log's slots into the events (`LogFits`), and needs finitely many clients |

*`WorldProofs`*

| Theorem | Property | Inductive invariant, and why |
|---|---|---|
| `TypeCorrect` | `TypeOK` | a call in progress is the instance's next, a buffer holds lines of the document it was read from |
| `SnapshotNeverCorrupt`, `GapOwned`, `NoStaleCommit` | `SnapshotIsPrefix`, `GapHasOneOwner`, `CommitsOnCurrent` | `CommitInv`, below |
| `Atomicity` | `ImplementsAtomicProject` | `AtomicInv`: `CommitInv`, executions numbered afresh (`Numbered`), a gap is one event and about to close (`GapClosing`): `AppendWins` is then a commit, `Flush` a publication, and the rest stutters |
| `ConflictsOfOthers` | `ConflictsAreOthers` | `OthersInv`: `CommitInv` and `OwnSeen`: what an instance committed is behind its token, unless it hydrated while its own event was missing from `state.json`; then the log is orphaned, since the one token that could close the gap is gone |
| `AuditNeverLies` | `AuditHonest` | `HonestInv`: the texts of both documents *and of every buffer read from them* are true of the log (`HonestTexts`) and free of the calls that still have a line to write (`TextsLast`); a decided call is never taken up again |
| `Durability` | `ImplementsDurableProject` | `SerialInv`: `OthersInv` for the author of what is missing from `state.json`, who is the only one to commit then, and `Numbered`, so that a commit is a new one |
| `OnceIsOnce` | `OnceOnly` | that of `PromiseKept` below, through `Durability` |
| `SummaryOfThePast` | `SummaryIsPrefix` | `SummaryInv`: `CommitInv`, and a world about to write the summary holds the effect of a prefix as well, however far the log has gone on since it flushed |

`CommitInv`: the snapshot is a prefix and a gap has one owner; tokens lie within the log
(`TokensInLog`); between its steps a world's memory is the effect of the log up to its
token, with its own execution when the body has run (`Loyal`); a world about to flush
holds the effect of the whole log and owns its last event (`FlushHolds`). The argument: a
token equal to the log's length is held either by worlds that have read a
snapshot of exactly that length or by the one that has just appended; while the
flush is missing only the latter exists, so nobody else's append can win.
The theorems on it, `Durability`, `OnceIsOnce` and `SummaryOfThePast` with them, assume `CanRollBack`: bodies never tear the state, or the project has a
snapshot; without it they are false, as `runtime_double_apply` shows for its runtime form.
`Atomicity` also assumes `MaxFaults = 0`. `AuditNeverLies` needs neither, but seeds without
repetition (`SeedsDiffer`) and exceptions with a message (`Silent = {}`, as in the runs), since `event_log.md`
takes the others for success (section 6).

*`DurableProofs`*: `PromiseKept`. Whoever implements `DurableProject` commits once what is allowed once,
publishes only what is a prefix of its history, and leaves unpublished only what one author
committed. It is proved for the abstract module and instantiated for the two that implement it.

*`RuntimeProofs`*, for any runs, direct callers, caps and budgets

| Theorem | Property | Inductive invariant, and why |
|---|---|---|
| `RTypeCorrect` | `RTypeOK` | `RTypeInv`: the point of a run agrees with that of its world (`Staged`) and every offset that is held lies within the log. `RTypeOK`'s bounds on the counters follow from the caps, which are tested before they are counted |
| `BudgetKept` | `WithinBudget` | `BudgetInv`: what was charged covers what was committed and, while a call is under way or a consult is being recorded, one more (`Charged`); a retry is charged again before it is entered |
| `ConversationsWellFormed` | `ConversationWellFormed` | `ConversationInv`: in the middle of a turn the replies still owed are exactly the positions after the last message, one for each call left in `turn` (`Owing`) |
| `StaleOnlyAfterOvertaking` | `StaleOnlyByOvertaking` | `CurrentInv`: as long as no token was forced past an action, `CommitInv`'s argument with consults as events without effect, and with several events missing from the snapshot (`OwnsMissing`). Assumes a project with a snapshot (`Seeds # <<>>`), without which a failed body's changes survive (`runtime_double_apply`) |
| `RetriesHarmless` | `AutoContinueHarmless` | `SettlingInv`: while a lost race is settled the interval its conflict reported is still held; disjoint fields then look the same in both logs (`DisjointFieldsLookTheSame`) |
| `RepliesAreTrue` | `RepliesTrue` | `RepliesInv`: an attempt that is over and left no event has a number its world will not use again (`Past`), so it never gets one later; an error counts as a denial until a fault (`Denials`), since a failed write after an append is reported as a failed call. No assumption |
| `RuntimeDurability` | `DurableUntilOvertaken` | `PromiseInv`: `CurrentInv`, `RepliesInv` for fresh numbers, and `OnceShown`: a body that has run found its action allowed in the state it ran on. A consult maps to a note in the history, a forced token past an action to the end of the promise. Assumes `Seeds # <<>>` |
| `OnceUntilOvertaken` | `OnceUnlessOvertaken` | that of `PromiseKept`, through `RuntimeDurability`; assumes `Seeds # <<>>` |
| `RunsPersistCommitted` | `OnlyCommittedPersisted` | `PersistInv`: whatever tokens are forced, a memory between calls holds only what is in the log and inside a call at most its own execution more (`Clean`); the snapshot is always there to undo that one. Assumes `Seeds # <<>>`, without which `runtime_double_apply` refutes it |
| `ConsultsShutDirectCallersOut` | `DirectFollowsAction` | `FollowInv`: a direct caller's token is 0 or right behind an action; so is the offset in `state.json`, which is where callers get it from, and hence the token of whoever is about to flush, run or not. No assumption |
| `RunsAuditNeverLies` | `AuditHonest` | `AuditInv`: the texts of `HonestInv` with `RepliesInv`, which tells the attempts of a call apart: one that lost its race leaves no line, its retry is decided on its own (`DecidedCalls`). Assumes `SeedsDiffer` and `Silent = {}` like `AuditNeverLies` |

*`DataProtectionProofs`*: `TypeCorrect`; `OneTextOfAVersion` (`OneTextPerVersion`) and `RequestsStayClosed`
(`ClosedForGood`) from the types and the gates; `ErasureIsTraceable` (`ErasureTraceable`) from `ErasureInv`: a request is
bound to the *earliest* record of its address, which later registrations do not
change, and only a closed request has its data deleted; `StatusIsTruthful` (`StatusTruthful`) from `BreachInv`,
which relates severity, both notifications and the status of each breach whatever order they came in; `DutiesAreUnbarred`, also from `BreachInv`: the record a duty is about passes
every guard of the action that serves it (the ICO's exactly if the breach's discovery has a time zone), which is what `DutiesCanBeMet` says but for `ENABLED`. They hold for any `MaxRecords`.

*`ConsultsProofs`*, for any consults, workers, registries and artefacts. All steps are
first sorted into the few moves a consult can make (lemma `Steps`), and the invariants are
kept move by move.

| Theorem | Property | Inductive invariant, and why |
|---|---|---|
| `SettledForGood` | `SettledOnce` | `Awaited`: a handler that is awaited belongs to a call still asking on the bus, so a late one has nobody to answer |
| `ActiveWorkersSubscribed` | `ActiveSubscribed` | itself with the types of `sub`: a worker subscribes only where there is no handler, and a stop removes only its own |
| `OneRecordEach` | `OneRecordPerConsult` | `RecordInv`: for each point, outcome and hook what the log holds of the consult (`Recording`) |
| `NamedArtefactsStay` | `NamedArtefactsKept` | `NamedInv`: every stored path holds the content its digest is of (`Faithful`), so that overwriting changes nothing; what a consult about to be recorded will name is already stored. Assumes that digests tell contents apart (`DigestApart`) |
| `OrphansAreExplained` | `OrphansExplained` | `OrphanInv` on top of both: a consult stops accounting for what it wrote only with its event |

*`StreamProofs`*, for any streams, windows and texts

| Theorem | Property | Inductive invariant, and why |
|---|---|---|
| `AnswersAsSent` | `ParsedAsSent` | `Streams`: the types of the stream's variables, and at every line the parser's locals are what the lines received say (`Parsed`): type and data of the event not yet ended, the joined texts of the working events before it, none of which was terminal. A field changes only what is said of the current event (`FieldOfCurrent`, `FieldParsed`); a blank line ends it and says nothing (`BlankSaysNothing`, `BlankParsed`); texts of successive events join in their order (`Joined`). When the consult ends, the answer taken from the locals is what the stream means (`AnswerMeant`) |
| `PagesJoinAlways` | `PagesJoin` | `ReadInv`: the lines shown are consecutive, within the text, and the next offset is the one after the last of them, 0 at the end, or before the first page a line that matches |
| `ConsultsTypeCorrect` | `TypeOK` | `CallTypesOK` with `Streams` for the stream's variables and `Awaited` for the bus. Assumes that consults and cards name subagents (`NamesOK`) |

*`EventSearchProofs`*, for any queries, limits and numbers of pages

| Theorem | Property | Inductive invariant, and why |
|---|---|---|
| `SearchOnlyReads` | the specification of `EventLog`, without its fairness | none: a search changes nothing of the log, so the theorems of `EventLogProofs` hold for the log that the run searches |
| `SkippedOnlyByFullPages` | `SkippedByFullPages` | `SearchInv`, until damage: the property, and the log is no shorter than when it was last asked. The page itself is `SearchPage`: positions can be sorted (`Sortable`) and a sorted page holds each once (`AllSorted`); if the newest `Limit` leave out a match, they are exactly `Limit` and all newer (`NewestFull`) |

Not proved, and why:
- Liveness rests on fairness: `LoopEnds`, `EventuallyFlushed`, `LosersGetThrough`, `RunsEnd`, `TalkingOrDone`.
- `DutiesCanBeMet` is about `ENABLED`, which the provers cannot expand; `DutiesAreUnbarred` proves the guards.

So every safety property of the passing runs is proved, `DutiesCanBeMet` up to its `ENABLED`. The library's
induction takes an operator as parameter, which the provers cannot instantiate: where an
argument goes by induction over data (a least damaged slot, a set put in order) it is
made by the least counterexample, and the operators that compute over sequences are
stated without recursion: `search_events` by the rank of an event among those that match, `grep_docs` by
the matches before a line, `Means` by the set of a stream's events.

## 6. Disagreements found

1. `runtime_stale`: a forced token (`runtime.py:676`) passes the compare-and-swap on state read
   before the winner's flush; F9 (`README.md:376`) and the comment above the line say
   this cannot happen. One of the two updates is lost from `state.json`. Direct
   callers are safe (`world`, theorem `NoStaleCommit`), and `StaleOnlyByOvertaking` shows the forced token to
   be the only cause. `DurableUntilOvertaken` says what is promised until then.
2. `runtime_double_apply`: without `state.json`, hydrating does not undo a lost attempt
   (`world.py:355`); a consult followed by an action on a new project applies the action
   twice and logs it once. It needs a project without snapshot: with one, theorem `RunsPersistCommitted`
   excludes it for any runs.
3. `runtime_consult_blocks`: after a consult every direct call loses its append, until a run
   forces a token; theorem `ConsultsShutDirectCallersOut` says that this is always so.
4. `runtime_forgets`: recovering drops the replies of calls that did commit.
5. `world_audit_race`: racing calls lose lines of `audit.jsonl`, which F3 calls append-only.

Not given runs of their own: `state.json` and `summary.md` are two writes (`world.py:372`), and of two flushes the
earlier can write its summary last, which then stays behind until the next action; it is a
state the project once was in (`SummaryIsPrefix`); an exception with an empty message is an error in
`audit.jsonl` and OK in `event_log.md` (`world.py:436`); step 1 of `README.md:330` describes the token as
the log's end, while it is the snapshot's offset (`world.py:360`), which is what
makes direct callers safe; `ConcurrentUpdate.last_seen_offset` is read after the token has changed (`world.py:220`);
a failed write after the append is reported to the model as a failed call
(`world.py:227`), so `RepliesTrue` lets an error after a fault say nothing; every other
reply is true through faults as well.

In the dispatch and the clients:
- `post_subagent_call` is not fired for a consult that failed or timed out (`subagents/dispatch.py:185-203`),
  though `dispatch.py:8-9` says it always is; `OneRecordPerConsult` states what holds.
- Consult events appear in no document, so `grep` cannot find artefact paths, as `dispatch.py:15-16`, `:205-206` and
  `:368-369` say; `search_event_log` can.
- A response without a session id is rendered as `session_id="None"` when it asks for input (`dispatch.py:279-283`).
- An adapter without binary documents makes the consult raise after the subagent has
  answered (`dispatch.py:308-311`, by intention); its event is then never recorded.
- `subagents/a2a.py:17-20` says that silence past the window cancels the stream and raises `SubagentTimeout`. The
  watchdog only bounds reads of lines (`a2a.py:197`): the headers of the stream are awaited with `timeout=None` and outside
  it (`a2a.py:137`), so a server that accepts the task and never sends them hangs the consult, and its run, for ever.
  `TalkingOrDone` names this wait as one of the two ways not to end; without that disjunct TLC finds it. It is lines, too, and not "any inbound
  bytes", that reset the watchdog.
- `subagents/base.py:170` calls the timeout a hard one per call; for A2A it is one of silence.
- Paths hold 8 hex digits of a hash: contents that share them, and a name, overwrite each other. `NamedArtefactsKept` assumes (`DigestApart`) that none do.

In the readers: `event_search.py:55-56` describes paging that never reaches the events a full page
cut off, since a page is the newest part and the next starts after it; `SkippedByFullPages` states
what is reached. A negative `offset_from` counts from the log's end. `read` accepts any integer as its limit
(`namespace_browse.py:209-216`): 0 shows an empty page and the same offset as its continuation, a negative one ends the
page before its start, so that the hint leads back to lines already shown, or shows all but the last lines. `PagesJoin` is about positive limits
(`WindowsPositive`).

In the hooks: `hooks.py:61-64` shows a `pre_trigger` hook that sets `event.budget` to shrink a run's budget; `handle()` builds the
budget from the runtime's template (`runtime.py:241-249`) and never looks at the event's. `WithinBudget` is about the limits
of the runtime.

In the example: `refuse_dsr` refuses a completed request; `resolve_breach`, "after all required actions
are complete", resolves breaches that were never assessed, or are HIGH and whose subjects were never told; `assess_breach`
and `notify_ico` reopen resolved ones; a later draft of a version can never be approved; an address registered
again has a record no request is ever bound to. `report_breach` accepts a `discovered_at` without time zone (`world.py:526`), and `notify_ico`
then raises TypeError on every call (`world.py:612`, before anything is assigned): if notifiable, such a breach
can be neither notified to the ICO nor resolved, unless it is assessed again as not notifiable. `DutiesCanBeMet` says that
this is the only breach that cannot meet its duties (`world.py` here is that of `examples/use_cases/data_protection`).

## 7. Not modelled

Not modelled: reads that raise (a hydrate that fails leaves the exception to the
caller as any other step does), several projects in `World` (they share nothing but
the adapter), cancellation of a run, texts, prompts, schemas and rendering, spotlighting,
HTTP lookups of agent cards, hooks whose exceptions are swallowed, `delete_doc`, an output channel
that raises after a failed consult was recorded. The prompt builder, transport, identity, providers, CLI, chat and
web console keep no state of their own beyond a standard queue, and have no properties
that a model would tell from their code.

Left to TLC for good, with the provers at hand: the five liveness properties and `DutiesCanBeMet`.
The hazards without a property are listed with their reasons in `PROJECT.json`.
