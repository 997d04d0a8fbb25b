------------------------------ MODULE Consults ------------------------------
(***************************************************************************)
(* Consulting subagents (subagents/dispatch.py) through the clients of     *)
(* a2a.py, messaging.py and async_subagent.py: hooks, the consult itself,  *)
(* the artefacts it returns written to the namespace, its event appended   *)
(* to the log by a retry loop, and the post hooks.                         *)
(*                                                                         *)
(* The stream, the bus and the readers of documents are A2AStream,         *)
(* MessageBus and Browse; all run on one event loop, so what happens       *)
(* between two awaits is one step.  A consult's text is kept for A2A only. *)
(***************************************************************************)
EXTENDS A2AStream, MessageBus, Browse

CONSTANTS Subagents,     \* names subagents are registered under
          Target,        \* call -> the name it consults
          Setups,        \* what the operator registers in code, by name, and
                         \* the agent cards, by name, then loaded from a registry
          Deliverables,  \* artefact lists a subagent returns
          Digest,        \* content -> first 8 hex digits of its SHA-256
          Safe,          \* name -> sanitise_artefact_name(name)
          MaxOthers      \* bound: events other writers append

ASSUME SameCalls == Requests = Calls
\* 8 hex digits are taken to tell the contents of one project apart.
ASSUME DigestApart == \A x, y \in DOMAIN Digest : Digest[x] = Digest[y] => x = y
\* Any content that is returned has a digest, any name a sanitised form.
ASSUME DeliverablesOK ==
    Deliverables \subseteq Seq([name : DOMAIN Safe, content : DOMAIN Digest])

\* A consult names a subagent, and so do the cards that are loaded.
ASSUME NamesOK ==
    /\ Target \in [Calls -> Subagents]
    /\ Setups \subseteq [own : [Subagents -> {"none", "a2a", "bus", "async"}],
                         cards : Seq(Subagents)]

VARIABLES registry,   \* name -> kind of client registered, "none" if none
          pc,         \* call -> where execute_subagent_call is
          outcome,    \* call -> how the consult ended
          response,   \* call -> the SubagentResponse
          docs,       \* path -> content: the artefacts in the namespace
          log,        \* the project's events
          token,      \* call -> the offset its append loop last read
          posted      \* the calls whose post_subagent_call hooks were fired

dispatch == <<registry, pc, outcome, response, docs, log, token, posted>>
vars == <<stream, bus, reading, dispatch>>

Via(c) == registry[Target[c]]
NoResponse == [status |-> "none", text |-> <<>>, artefacts |-> <<>>]

-----------------------------------------------------------------------------
(* Registering, hooks and artefacts as functions.                          *)

\* Cards are registered one by one; the first whose name is taken raises and
\* leaves those before it registered.
load_subagents_from_registry(own, cards) ==
    LET taken == {i \in DOMAIN cards : \/ own[cards[i]] # "none"
                                       \/ \E j \in 1..(i - 1) : cards[j] = cards[i]}
        n == IF taken = {} THEN Len(cards) ELSE Min(taken) - 1
    IN  [s \in Subagents |-> IF \E i \in 1..n : cards[i] = s THEN "a2a" ELSE own[s]]

\* The matching hooks in order, specific ones first: the first that blocks or
\* raises decides, those after it do not run.
fire_pre_subagent_call(verdicts) ==
    LET stops == {i \in DOMAIN verdicts : verdicts[i] # "pass"}
    IN  IF stops = {} THEN "pass" ELSE verdicts[Min(stops)]

Directory == <<"project", "artefacts">>

\* Mutant: artefacts are stored under their names alone.
ArtefactPath_NameOnly(a) == Append(Directory, Safe[a.name])

ArtefactPath(a) == Append(Directory, <<Digest[a.content], Safe[a.name]>>)

\* write_binary of each artefact in turn: of several at one path the last stays.
persist_artefacts(stored, artefacts) ==
    LET writes(p) == {i \in DOMAIN artefacts : ArtefactPath(artefacts[i]) = p}
    IN  [p \in DOMAIN stored \cup {ArtefactPath(artefacts[i]) : i \in DOMAIN artefacts} |->
           IF writes(p) = {} THEN stored[p] ELSE artefacts[Max(writes(p))].content]

Paths(c) == {ArtefactPath(response[c].artefacts[i]) : i \in DOMAIN response[c].artefacts}

-----------------------------------------------------------------------------
Init ==
    /\ StreamInit
    /\ BusInit
    /\ BrowseInit
    /\ registry \in {load_subagents_from_registry(s.own, s.cards) : s \in Setups}
    /\ pc = [c \in Calls |-> "new"]
    /\ outcome = [c \in Calls |-> "none"]
    /\ response = [c \in Calls |-> NoResponse]
    /\ docs = <<>>
    /\ log = <<>>
    /\ token = [c \in Calls |-> 0]
    /\ posted = {}

Goto(c, label) == pc' = [pc EXCEPT ![c] = label]

EndsAs(c, how) ==
    /\ Goto(c, "done")
    /\ outcome' = [outcome EXCEPT ![c] = how]

\* An unknown name or an invalid message is answered on the spot.
Refused(c) ==
    /\ pc[c] = "new"
    /\ EndsAs(c, IF Via(c) = "none" THEN "unknown" ELSE "invalid")
    /\ UNCHANGED <<stream, bus, reading, registry, response, docs, log, token, posted>>

\* A pre_subagent_call hook blocks the consult, or its exception escapes.
Blocked(c) ==
    /\ pc[c] = "new" /\ Via(c) # "none"
    /\ \E verdicts \in [1..2 -> {"pass", "block", "raise"}] :
          LET verdict == fire_pre_subagent_call(verdicts) IN
          /\ verdict # "pass"
          /\ EndsAs(c, IF verdict = "block" THEN "blocked" ELSE "raised")
    /\ UNCHANGED <<stream, bus, reading, registry, response, docs, log, token, posted>>

\* client.consult is entered: the task is posted, the request sent, or the
\* handler called.
Ask(c) ==
    /\ pc[c] = "new"
    /\ \/ Via(c) = "a2a" /\ Submit(c) /\ UNCHANGED bus
       \/ Via(c) = "bus" /\ Request(c) /\ UNCHANGED stream
       \/ Via(c) = "async" /\ UNCHANGED <<stream, bus>>
    /\ Goto(c, "asking")
    /\ UNCHANGED <<reading, registry, outcome, response, docs, log, token, posted>>

-----------------------------------------------------------------------------
(* The consult, awaited.                                                   *)

Answered(c, r) ==
    /\ Goto(c, "answered")
    /\ response' = [response EXCEPT ![c] = r]

\* In-process: the handler returns a SubagentResponse, which a worker's reply
\* carries over the bus.
Answer(c) ==
    /\ \/ Via(c) = "bus" /\ Returns(c)
       \/ Via(c) = "async" /\ pc[c] = "asking" /\ UNCHANGED bus
    /\ \E status \in {"completed", "failed"}, artefacts \in Deliverables :
          Answered(c, [status |-> status, text |-> <<>>, artefacts |-> artefacts])
    /\ UNCHANGED <<stream, reading, registry, outcome, docs, log, token, posted>>

\* A consult over A2A returns no artefacts.
Bare(r) == [status |-> r.status, text |-> r.text, artefacts |-> <<>>]

Asking(c) == pc[c] = "asking" /\ Via(c) = "a2a"

\* The server answers one of the two requests.
Connect(c) ==
    /\ Asking(c)
    /\ Submitted(c) \/ Open(c)
    /\ UNCHANGED <<bus, reading, dispatch>>

Line(c) ==
    /\ Asking(c)
    /\ \E l \in Sendable(c) : Receive(c, l)
    /\ UNCHANGED <<bus, reading, dispatch>>

KeepAlive(c) ==
    /\ Asking(c)
    /\ Comment(c)
    /\ UNCHANGED <<bus, reading, dispatch>>

Quiet(c) ==
    /\ Asking(c)
    /\ Silence(c)
    /\ UNCHANGED <<bus, reading, dispatch>>

LastLine(c) ==
    /\ Asking(c)
    /\ ReceiveLast(c)
    /\ Answered(c, Bare(Response(parser[c])))
    /\ UNCHANGED <<bus, reading, registry, outcome, docs, log, token, posted>>

Closed(c) ==
    /\ Asking(c)
    /\ link[c] = "streaming"
    /\ Answered(c, Bare(AtEnd(c)))
    /\ UNCHANGED <<stream, bus, reading, registry, outcome, docs, log, token, posted>>

\* The consult raises: an HTTP error, a timeout of the HTTP client among them,
\* NoSubscriberError, the handler's exception, one of the output channel in
\* on_progress.
Fails(c) ==
    /\ \/ pc[c] = "asking" /\ Via(c) # "bus" /\ UNCHANGED bus
       \/ pc[c] = "asking" /\ Via(c) = "bus" /\ Returns(c)
       \/ pc[c] = "new" /\ Via(c) = "bus" /\ NoSubscriber /\ UNCHANGED bus
    /\ Goto(c, "logging")
    /\ outcome' = [outcome EXCEPT ![c] = "failed"]
    /\ UNCHANGED <<stream, reading, registry, response, docs, log, token, posted>>

\* Mutant: the window is that of the first line only.
TimesOut_FirstLineOnly(c) ==
    /\ pc[c] = "asking"
    /\ \/ Via(c) = "a2a" /\ Unheard(c) /\ lines[c] = <<>> /\ UNCHANGED bus
       \/ Via(c) = "bus" /\ Expires(c)
       \/ Via(c) = "async" /\ UNCHANGED bus
    /\ Goto(c, "logging")
    /\ outcome' = [outcome EXCEPT ![c] = "timeout"]
    /\ UNCHANGED <<stream, reading, registry, response, docs, log, token, posted>>

\* SubagentTimeout: for A2A no line came in the window, for the others the
\* whole call took too long.
TimesOut(c) ==
    /\ pc[c] = "asking"
    /\ \/ Via(c) = "a2a" /\ Unheard(c) /\ UNCHANGED bus
       \/ Via(c) = "bus" /\ Expires(c)
       \/ Via(c) = "async" /\ UNCHANGED bus
    /\ Goto(c, "logging")
    /\ outcome' = [outcome EXCEPT ![c] = "timeout"]
    /\ UNCHANGED <<stream, reading, registry, response, docs, log, token, posted>>

-----------------------------------------------------------------------------
(* What becomes of it.                                                     *)

\* The artefacts are all written before the event is built.  (Bound: the lines
\* of the stream that answered are forgotten here.)
Persist(c) ==
    /\ pc[c] = "answered"
    /\ docs' = persist_artefacts(docs, response[c].artefacts)
    /\ Goto(c, "logging")
    /\ UNCHANGED <<bus, reading, parser, fresh, link, registry, outcome, response, log,
                   token, posted>>
    /\ lines' = [lines EXCEPT ![c] = <<>>]

\* One of the writes raises, as all do on a text-only adapter, and the
\* exception escapes.
PersistRaises(c) ==
    /\ pc[c] = "answered"
    /\ \E n \in 0..(Len(response[c].artefacts) - 1) :
          docs' = persist_artefacts(docs, SubSeq(response[c].artefacts, 1, n))
    /\ EndsAs(c, "raised")
    /\ UNCHANGED <<stream, bus, reading, registry, response, log, token, posted>>

\* External: the process is killed on the way.
Killed(c) ==
    /\ pc[c] \in {"answered", "logging", "append", "logged"}
    /\ EndsAs(c, "killed")
    /\ UNCHANGED <<stream, bus, reading, registry, response, docs, log, token, posted>>

ReadOffset(c) ==
    /\ pc[c] = "logging"
    /\ token' = [token EXCEPT ![c] = Len(log)]
    /\ Goto(c, "append")
    /\ UNCHANGED <<stream, bus, reading, registry, outcome, response, docs, log, posted>>

\* Mutant: the event does not name the artefacts.
ConsultEvent_NoPaths(c) ==
    [call |-> c, paths |-> {},
     status |-> IF outcome[c] = "none" THEN response[c].status ELSE "failed"]

ConsultEvent(c) ==
    [call |-> c, paths |-> Paths(c),
     status |-> IF outcome[c] = "none" THEN response[c].status ELSE "failed"]

\* A failed or timed-out consult is answered as an error right away, without
\* the post hooks (an output channel that raises then is not modelled).
AppendWins(c) ==
    /\ pc[c] = "append"
    /\ token[c] = Len(log)
    /\ log' = Append(log, ConsultEvent(c))
    /\ Goto(c, IF outcome[c] = "none" THEN "logged" ELSE "done")
    /\ UNCHANGED <<stream, bus, reading, registry, outcome, response, docs, token, posted>>

\* Mutant: a lost append is given up.
AppendLoses_GivesUp(c) ==
    /\ pc[c] = "append"
    /\ token[c] # Len(log)
    /\ Goto(c, IF outcome[c] = "none" THEN "logged" ELSE "done")
    /\ UNCHANGED <<stream, bus, reading, registry, outcome, response, docs, log, token, posted>>

AppendLoses(c) ==
    /\ pc[c] = "append"
    /\ token[c] # Len(log)
    /\ Goto(c, "logging")
    /\ UNCHANGED <<stream, bus, reading, registry, outcome, response, docs, log, token, posted>>

\* Every matching post hook runs, whichever of them raise, and the answer is
\* returned to the model; an exception of the output channel it is first
\* emitted to escapes.
Post(c) ==
    /\ pc[c] = "logged"
    /\ posted' = posted \cup {c}
    /\ \E how \in {"answered", "raised"} : EndsAs(c, how)
    /\ UNCHANGED <<stream, bus, reading, registry, response, docs, log, token>>

\* Another writer of the log.
Other ==
    /\ Len(SelectSeq(log, LAMBDA e : e.call = None)) < MaxOthers
    /\ log' = Append(log, [call |-> None, paths |-> {}, status |-> "completed"])
    /\ UNCHANGED <<stream, bus, reading, registry, pc, outcome, response, docs, token, posted>>

\* Bound: workers come and go where one is consulted; a text is read page by
\* page where nobody is consulted, no consult touching one.
Workers_ ==
    /\ \E s \in Subagents : registry[s] = "bus"
    /\ \E w \in Workers : Subscribe(w) \/ Stop(w)
    /\ UNCHANGED <<stream, reading, dispatch>>

Reader ==
    /\ \A s \in Subagents : registry[s] = "none"
    /\ Grow \/ Reopen \/ \E limit \in Windows : ReadPage(limit) \/ Jump(limit)
    /\ UNCHANGED <<stream, bus, dispatch>>

Proceed(c) == Persist(c) \/ ReadOffset(c) \/ AppendWins(c) \/ AppendLoses(c) \/ Post(c)

Next ==
    \/ \E c \in Calls :
          \/ Refused(c) \/ Blocked(c) \/ Ask(c)
          \/ Answer(c) \/ Connect(c) \/ Line(c) \/ KeepAlive(c) \/ Quiet(c) \/ LastLine(c) \/ Closed(c)
          \/ Fails(c) \/ TimesOut(c)
          \/ Proceed(c) \/ PersistRaises(c) \/ Killed(c)
    \/ Other
    \/ Workers_
    \/ Reader

\* The event loop runs what is ready, and timers fire.  Nobody is obliged to
\* answer a request: a server may leave both unanswered.
Fairness == \A c \in Calls : /\ WF_vars(Proceed(c))
                             /\ WF_vars(Quiet(c))
                             /\ WF_vars(TimesOut(c))
                             /\ WF_vars(Unanswered(c) /\ Fails(c))

Spec == Init /\ [][Next]_vars /\ Fairness

-----------------------------------------------------------------------------
(* Correctness.                                                            *)

\* Every variable keeps its type.
TypeOK ==
    /\ \A c \in Calls : \A l \in ToSet(lines[c]) : l \in LineTypes
    /\ parser \in [Calls -> [type : EventTypes \cup {NoType}, data : Seq(Nat), working : Seq(Nat)]]
    /\ fresh \in [Calls -> BOOLEAN]
    /\ link \in [Calls -> {"none", "submitting", "submitted", "streaming"}]
    /\ handler \in Workers \cup {None}
    /\ sub \in [Workers -> {"new", "active", "unsubscribed"}]
    /\ serving \in [Calls -> Workers \cup {None}]
    /\ registry \in [Subagents -> {"none", "a2a", "bus", "async"}]
    /\ pc \in [Calls -> {"new", "asking", "answered", "logging", "append", "logged", "done"}]
    /\ outcome \in [Calls -> {"none", "unknown", "invalid", "blocked", "raised", "failed",
                              "timeout", "killed", "answered"}]
    /\ \A c \in Calls : /\ response[c].status \in Terminal \cup {"none"}
                        /\ response[c].artefacts \in Deliverables \cup {<<>>}
                        /\ serving[c] # None => pc[c] = "asking" /\ Via(c) = "bus"
    /\ token \in [Calls -> Nat]
    /\ posted \subseteq Calls

\* "Bytes returned in SubagentResponse.artefacts are written to the project
\* namespace ... and the paths are recorded": whatever other consults wrote
\* since, every path an event names leads to the very bytes that consult
\* returned, and ls shows it.
NamedArtefactsKept ==
    \A c \in Calls : \A e \in ToSet(log) : e.call = c =>
        /\ \A i \in DOMAIN response[c].artefacts :
              LET a == response[c].artefacts[i] IN
              /\ ArtefactPath(a) \in e.paths \cap DOMAIN docs
              /\ docs[ArtefactPath(a)] = a.content
        /\ \A p \in e.paths :
              [name |-> p[Len(p)], kind |-> "file"] \in list_dir(DOMAIN docs, Directory)

\* "Persist artefacts before recording the event": an artefact no event names
\* is that of a consult which is about to record its own or was broken off.
OrphansExplained ==
    \A p \in DOMAIN docs :
        \/ \E e \in ToSet(log) : p \in e.paths
        \/ \E c \in Calls : /\ p \in Paths(c)
                            /\ \/ pc[c] \in {"logging", "append"}
                               \/ outcome[c] \in {"raised", "killed"}

\* "Event-log appends for every consult, with transparent CAS retry": a consult
\* whose answer or error the model is given has exactly one event, with its
\* status; one that was refused or blocked has none; and the post hooks have
\* been fired for exactly those that were answered, never before the event.
OneRecordPerConsult ==
    \A c \in Calls :
        LET mine == {i \in DOMAIN log : log[i].call = c} IN
        /\ \A i, j \in mine : i = j
        /\ pc[c] = "logged" => mine # {}
        /\ pc[c] = "done" /\ outcome[c] \in {"answered", "failed", "timeout"}
             => mine # {}
        /\ mine # {} =>
             /\ \A i \in mine : log[i].status = IF outcome[c] \in {"failed", "timeout"}
                                                THEN "failed" ELSE response[c].status
             /\ \/ pc[c] = "logged"
                \/ outcome[c] \in {"answered", "failed", "timeout", "raised", "killed"}
        /\ outcome[c] = "answered" => c \in posted
        /\ c \in posted => mine # {} /\ outcome[c] \in {"answered", "raised"}

\* A consult the model has its reply to is over: a handler or stream that is
\* late changes neither its outcome nor its answer, and no hook fires for it.
SettledOnce ==
    [][\A c \in Calls : pc[c] = "done" =>
         /\ pc'[c] = "done" /\ outcome'[c] = outcome[c] /\ response'[c] = response[c]
         /\ (c \in posted') = (c \in posted)]_vars

\* An A2A consult's answer is what the stream as a whole says, though it was
\* read line by line: the first terminal event's, or a failure if there was
\* none when the stream was closed.
ParsedAsSent ==
    \A c \in Calls : pc[c] = "answered" /\ Via(c) = "a2a" =>
        Means(lines[c], response[c]) /\ response[c].artefacts = <<>>

\* A consult that was begun ends, unless its A2A server goes on sending for
\* ever, each line, comments among them, giving it another window; or never
\* sends the headers of the stream it was asked for, which no timer bounds.
TalkingOrDone ==
    \A c \in Calls :
        \/ pc[c] = "asking" ~> pc[c] = "done"
        \/ []<><<Line(c) \/ KeepAlive(c)>>_vars
        \/ <>[](Asking(c) /\ link[c] = "submitted")
=============================================================================
