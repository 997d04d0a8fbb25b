--------------------------- MODULE ConsultsProofs ---------------------------
(* Proofs about Consults, for any calls, workers, subagents and artefacts. *)
EXTENDS Consults, SequenceTheorems, WellFoundedInduction, TLAPS

-----------------------------------------------------------------------------
(* Types, and what a handler that is awaited says about its call.          *)

Artefact == [name : DOMAIN Safe, content : DOMAIN Digest]
AllPaths == {ArtefactPath(a) : a \in Artefact}
Event == [call : Calls \cup {None}, paths : SUBSET AllPaths, status : Terminal \cup {"none"}]

CallTypes ==
    /\ DOMAIN pc = Calls /\ DOMAIN outcome = Calls /\ DOMAIN response = Calls
    /\ log \in Seq(Event)
    /\ posted \subseteq Calls
    /\ \A c \in Calls : /\ response[c].artefacts \in Seq(Artefact)
                        /\ response[c].status \in Terminal \cup {"none"}

\* A handler a request awaits runs for a call that is out on the bus: it is
\* what keeps a late one from answering a call that is settled.
Awaited ==
    /\ handler \in Workers \cup {None}
    /\ serving \in [Calls -> Workers \cup {None}]
    /\ \A c \in Calls : serving[c] # None => pc[c] = "asking" /\ Via(c) = "bus"

-----------------------------------------------------------------------------
(* The moves of a consult, of which every step makes one.                  *)

Elsewhere(c) == \A d \in Calls \ {c} : /\ pc'[d] = pc[d] /\ outcome'[d] = outcome[d]
                                       /\ response'[d] = response[d]

Move(c, from, to, how) ==
    /\ pc[c] \in from /\ pc'[c] = to
    /\ outcome'[c] = how
    /\ response'[c] = response[c]
    /\ Elsewhere(c)

Ended(c) == /\ \E how \in {"unknown", "invalid", "blocked", "raised"} :
                  Move(c, {"new"}, "done", how)
            /\ UNCHANGED <<docs, log, posted>>

Begun(c) == Move(c, {"new"}, "asking", outcome[c]) /\ UNCHANGED <<docs, log, posted>>

Heard(c) == /\ pc[c] = "asking" /\ pc'[c] = "answered"
            /\ outcome'[c] = outcome[c]
            /\ response'[c].artefacts \in Seq(Artefact)
            /\ response'[c].status \in Terminal
            /\ Elsewhere(c)
            /\ UNCHANGED <<docs, log, posted>>

Failed(c) == /\ \E how \in {"failed", "timeout"} :
                   Move(c, {"new", "asking"}, "logging", how)
             /\ UNCHANGED <<docs, log, posted>>

Stored(c) == /\ Move(c, {"answered"}, "logging", outcome[c])
             /\ docs' = persist_artefacts(docs, response[c].artefacts)
             /\ UNCHANGED <<log, posted>>

Broken(c) == /\ Move(c, {"answered"}, "done", "raised")
             /\ \E n \in 0..(Len(response[c].artefacts) - 1) :
                   docs' = persist_artefacts(docs, SubSeq(response[c].artefacts, 1, n))
             /\ UNCHANGED <<log, posted>>

Died(c) == /\ Move(c, {"answered", "logging", "append", "logged"}, "done", "killed")
           /\ UNCHANGED <<docs, log, posted>>

Tried(c) == /\ \E to \in {"logging", "append"} :
                  Move(c, {"logging", "append"}, to, outcome[c])
            /\ UNCHANGED <<docs, log, posted>>

Recorded(c) ==
    /\ Move(c, {"append"}, IF outcome[c] = "none" THEN "logged" ELSE "done", outcome[c])
    /\ log' = Append(log, ConsultEvent(c))
    /\ UNCHANGED <<docs, posted>>

Hooked(c) == /\ \E how \in {"answered", "raised"} : Move(c, {"logged"}, "done", how)
             /\ posted' = posted \cup {c}
             /\ UNCHANGED <<docs, log>>

Moves(c) == \/ Ended(c) \/ Begun(c) \/ Heard(c) \/ Failed(c) \/ Stored(c) \/ Broken(c)
            \/ Died(c) \/ Tried(c) \/ Recorded(c) \/ Hooked(c)

Idle == UNCHANGED <<pc, outcome, response, docs, log, posted>>

Elsewise == /\ log' = Append(log, [call |-> None, paths |-> {}, status |-> "completed"])
            /\ UNCHANGED <<pc, outcome, response, docs, posted>>

\* What every step of call c keeps of CallTypes and Awaited.
Kept(c) ==
    /\ DOMAIN pc' = Calls /\ DOMAIN outcome' = Calls /\ DOMAIN response' = Calls
    /\ handler' = handler /\ registry' = registry
    /\ serving' \in [Calls -> Workers \cup {None}]
    /\ \A d \in Calls \ {c} : serving'[d] = serving[d]
    /\ serving'[c] # None => pc'[c] = "asking" /\ Via(c) = "bus"

CallAct(c) ==
    \/ Refused(c) \/ Blocked(c) \/ Ask(c)
    \/ Answer(c) \/ Connect(c) \/ Line(c) \/ KeepAlive(c) \/ Quiet(c) \/ LastLine(c)
    \/ Closed(c) \/ Fails(c) \/ TimesOut(c)
    \/ Proceed(c) \/ PersistRaises(c) \/ Killed(c)

LEMMA Opening ==
    ASSUME CallTypes, Awaited, NEW c \in Calls, Refused(c) \/ Blocked(c) \/ Ask(c)
    PROVE  Moves(c) /\ Kept(c)
<1> USE DEF dispatch, bus, Kept, Move, Elsewhere, Goto, EndsAs, CallTypes, Awaited
<1>1. CASE Refused(c)
  <2>1. Ended(c)
    BY <1>1 DEF Refused, Ended
  <2> QED
    BY <1>1, <2>1 DEF Refused, Moves
<1>2. CASE Blocked(c)
  <2>1. Ended(c)
    BY <1>2 DEF Blocked, Ended
  <2> QED
    BY <1>2, <2>1 DEF Blocked, Moves
<1>3. CASE Ask(c)
  <2>1. Begun(c)
    BY <1>3 DEF Ask, Begun
  <2>2. \/ Via(c) = "bus" /\ serving' = [serving EXCEPT ![c] = handler] /\ handler' = handler
        \/ serving' = serving /\ handler' = handler
    BY <1>3 DEF Ask, Request
  <2> QED
    BY <1>3, <2>1, <2>2 DEF Ask, Moves
<1> QED
  BY <1>1, <1>2, <1>3

\* The response to a consult over A2A, which returns no artefacts.
LEMMA A2AResponse ==
    ASSUME NEW p, NEW r, r = Bare(Response(p)), Ends(p)
    PROVE  r.artefacts \in Seq(Artefact) /\ r.status \in Terminal
<1>1. r.artefacts = <<>>
  BY DEF Response, Bare
<1>2. r.status = Dispatched(p).type
  BY DEF Response, Bare
<1> QED
  BY <1>1, <1>2, EmptySeq DEF Ends

LEMMA ClosedResponse ==
    ASSUME NEW r, r = Bare(StreamClosed)
    PROVE  r.artefacts \in Seq(Artefact) /\ r.status \in Terminal
<1>1. r.artefacts = <<>> /\ r.status = "failed"
  BY DEF StreamClosed, Bare
<1> QED
  BY <1>1, EmptySeq DEF Terminal

LEMMA AtEndResponse ==
    ASSUME NEW c \in Calls, NEW r, r = Bare(AtEnd(c))
    PROVE  r.artefacts \in Seq(Artefact) /\ r.status \in Terminal
  BY A2AResponse, ClosedResponse DEF AtEnd

LEMMA AnsweredMoves ==
    ASSUME CallTypes, NEW c \in Calls, NEW r, Answered(c, r), pc[c] = "asking",
           r.artefacts \in Seq(Artefact), r.status \in Terminal,
           UNCHANGED <<outcome, docs, log, posted>>
    PROVE  /\ Heard(c) /\ pc'[c] = "answered"
           /\ DOMAIN pc' = Calls /\ DOMAIN outcome' = Calls /\ DOMAIN response' = Calls
  BY DEF CallTypes, Answered, Goto, Heard, Elsewhere

LEMMA Consulting ==
    ASSUME CallTypes, Awaited, NEW c \in Calls,
           \/ Answer(c) \/ Connect(c) \/ Line(c) \/ KeepAlive(c) \/ Quiet(c) \/ LastLine(c)
           \/ Closed(c) \/ Fails(c) \/ TimesOut(c)
    PROVE  (Moves(c) \/ Idle) /\ Kept(c)
<1>1. ASSUME serving' = serving, UNCHANGED <<handler, registry>>,
             DOMAIN pc' = Calls, DOMAIN outcome' = Calls, DOMAIN response' = Calls,
             pc'[c] = pc[c] \/ Via(c) # "bus"
      PROVE  Kept(c)
  BY <1>1 DEF Kept, Awaited
<1>2. ASSUME serving' = [serving EXCEPT ![c] = None], UNCHANGED <<handler, registry>>,
             DOMAIN pc' = Calls, DOMAIN outcome' = Calls, DOMAIN response' = Calls
      PROVE  Kept(c)
  BY <1>2 DEF Kept, Awaited
<1>3. CASE Answer(c)
  <2>1. \/ Via(c) = "bus" /\ Returns(c)
        \/ Via(c) = "async" /\ pc[c] = "asking" /\ UNCHANGED bus
    BY <1>3 DEF Answer
  <2>2. pc[c] = "asking"
    BY <2>1 DEF Returns, Awaited
  <2>3. PICK status \in {"completed", "failed"}, artefacts \in Deliverables :
           Answered(c, [status |-> status, text |-> <<>>, artefacts |-> artefacts])
    BY <1>3 DEF Answer
  <2>4. artefacts \in Seq(Artefact) /\ status \in Terminal
    BY DeliverablesOK DEF Artefact, Terminal
  <2>5. UNCHANGED <<registry, outcome, docs, log, posted>>
    BY <1>3 DEF Answer
  <2>6. /\ Heard(c) /\ pc'[c] = "answered"
        /\ DOMAIN pc' = Calls /\ DOMAIN outcome' = Calls /\ DOMAIN response' = Calls
    BY <2>2, <2>3, <2>4, <2>5, AnsweredMoves
  <2> QED
    BY <1>1, <1>2, <2>1, <2>5, <2>6 DEF Returns, bus, Moves
<1>4. CASE Connect(c) \/ Line(c) \/ KeepAlive(c) \/ Quiet(c)
  <2>1. UNCHANGED <<bus, dispatch>>
    BY <1>4 DEF Connect, Line, KeepAlive, Quiet
  <2> QED
    BY <1>1, <2>1 DEF bus, dispatch, Idle, CallTypes
<1>5. CASE LastLine(c) \/ Closed(c)
  <2>1. /\ Asking(c) /\ UNCHANGED <<bus, registry, outcome, docs, log, posted>>
    BY <1>5 DEF LastLine, Closed
  <2>2. PICK r : /\ Answered(c, r)
                 /\ r.artefacts \in Seq(Artefact) /\ r.status \in Terminal
    BY <1>5, A2AResponse, AtEndResponse DEF LastLine, Closed, ReceiveLast
  <2>3. /\ Heard(c) /\ DOMAIN pc' = Calls /\ DOMAIN outcome' = Calls /\ DOMAIN response' = Calls
    BY <2>1, <2>2, AnsweredMoves DEF Asking
  <2> QED
    BY <1>1, <2>1, <2>3 DEF bus, Moves, Asking
<1>6. ASSUME NEW how \in {"failed", "timeout"}, pc[c] \in {"new", "asking"},
             Goto(c, "logging"), outcome' = [outcome EXCEPT ![c] = how],
             UNCHANGED <<registry, response, docs, log, posted>>
      PROVE  /\ Moves(c)
             /\ DOMAIN pc' = Calls /\ DOMAIN outcome' = Calls /\ DOMAIN response' = Calls
  <2>1. Failed(c)
    BY <1>6 DEF Failed, Move, Elsewhere, Goto, CallTypes
  <2> QED
    BY <1>6, <2>1 DEF Moves, Goto, CallTypes
<1>7. ASSUME Fails(c) \/ TimesOut(c)
      PROVE  /\ \E how \in {"failed", "timeout"} : outcome' = [outcome EXCEPT ![c] = how]
             /\ pc[c] \in {"new", "asking"} /\ Goto(c, "logging")
             /\ UNCHANGED <<registry, response, docs, log, posted>>
             /\ \/ UNCHANGED bus /\ (Via(c) # "bus" \/ pc[c] = "new")
                \/ serving' = [serving EXCEPT ![c] = None] /\ handler' = handler
  BY <1>7 DEF Fails, TimesOut, Returns, Expires
<1>8. CASE Fails(c) \/ TimesOut(c)
  <2>1. /\ Moves(c) /\ UNCHANGED registry
        /\ DOMAIN pc' = Calls /\ DOMAIN outcome' = Calls /\ DOMAIN response' = Calls
    BY <1>6, <1>7, <1>8
  <2>2. CASE UNCHANGED bus /\ pc[c] = "new"
    <3>1. serving'[c] = None
      BY <2>2 DEF Awaited, bus
    <3> QED
      BY <2>1, <2>2, <3>1 DEF Kept, Awaited, bus
  <2> QED
    BY <1>1, <1>2, <1>7, <1>8, <2>1, <2>2 DEF bus
<1> QED
  BY <1>3, <1>4, <1>5, <1>8

LEMMA Settling ==
    ASSUME CallTypes, Awaited, NEW c \in Calls,
           Proceed(c) \/ PersistRaises(c) \/ Killed(c)
    PROVE  Moves(c) /\ Kept(c)
<1>1. ASSUME pc[c] # "asking", UNCHANGED <<bus, registry>>,
             DOMAIN pc' = Calls, DOMAIN outcome' = Calls, DOMAIN response' = Calls
      PROVE  Kept(c)
  BY <1>1 DEF Kept, Awaited, bus
<1> USE DEF CallTypes, Goto, EndsAs, Move, Elsewhere
<1>2. CASE Persist(c)
  <2>1. Stored(c)
    BY <1>2 DEF Persist, Stored
  <2> QED
    BY <1>1, <1>2, <2>1 DEF Persist, Moves
<1>3. CASE ReadOffset(c)
  <2>1. Tried(c)
    BY <1>3 DEF ReadOffset, Tried
  <2> QED
    BY <1>1, <1>3, <2>1 DEF ReadOffset, Moves
<1>4. CASE AppendWins(c)
  <2>1. Recorded(c)
    BY <1>4 DEF AppendWins, Recorded
  <2> QED
    BY <1>1, <1>4, <2>1 DEF AppendWins, Moves
<1>5. CASE AppendLoses(c)
  <2>1. Tried(c)
    BY <1>5 DEF AppendLoses, Tried
  <2> QED
    BY <1>1, <1>5, <2>1 DEF AppendLoses, Moves
<1>6. CASE Post(c)
  <2>1. Hooked(c)
    BY <1>6 DEF Post, Hooked
  <2> QED
    BY <1>1, <1>6, <2>1 DEF Post, Moves
<1>7. CASE PersistRaises(c)
  <2>1. Broken(c)
    BY <1>7 DEF PersistRaises, Broken
  <2> QED
    BY <1>1, <1>7, <2>1 DEF PersistRaises, Moves
<1>8. CASE Killed(c)
  <2>1. Died(c)
    BY <1>8 DEF Killed, Died
  <2> QED
    BY <1>1, <1>8, <2>1 DEF Killed, Moves
<1> QED
  BY <1>2, <1>3, <1>4, <1>5, <1>6, <1>7, <1>8 DEF Proceed

\* The artefacts a consult returned are at paths, and its event is one.
LEMMA PathsType ==
    ASSUME CallTypes, NEW c \in Calls
    PROVE  Paths(c) \subseteq AllPaths /\ ConsultEvent(c) \in Event
<1>1. /\ response[c].artefacts \in Seq(Artefact)
      /\ response[c].status \in Terminal \cup {"none"}
  BY DEF CallTypes
<1>2. ASSUME NEW i \in DOMAIN response[c].artefacts
      PROVE  response[c].artefacts[i] \in Artefact
  BY <1>1, LenProperties, ElementOfSeq
<1>3. Paths(c) \subseteq AllPaths
  BY <1>2 DEF Paths, AllPaths
<1>4. ConsultEvent(c) \in Event
  BY <1>1, <1>3 DEF ConsultEvent, Event, Terminal
<1> QED
  BY <1>3, <1>4

\* Every step is a move of one consult, an event of someone else, or neither,
\* and keeps CallTypes and Awaited.
LEMMA Steps ==
    ASSUME CallTypes, Awaited, [Next]_vars
    PROVE  /\ CallTypes' /\ Awaited'
           /\ Idle \/ Elsewise \/ \E c \in Calls : Moves(c)
<1>1. ASSUME NEW c \in Calls, CallAct(c) PROVE (Moves(c) \/ Idle) /\ Kept(c)
  BY <1>1, Opening, Consulting, Settling DEF CallAct
<1>2. ASSUME Idle, UNCHANGED registry PROVE CallTypes'
  BY <1>2 DEF CallTypes, Idle
<1>3. ASSUME NEW c \in Calls, Moves(c), Kept(c) PROVE CallTypes'
  <2>1. /\ DOMAIN pc' = Calls /\ DOMAIN outcome' = Calls /\ DOMAIN response' = Calls
    BY <1>3 DEF Kept
  <2>2. log' \in Seq(Event)
    <3>1. CASE log' = log
      BY <3>1 DEF CallTypes
    <3>2. CASE log' = Append(log, ConsultEvent(c))
      BY <3>2, PathsType, AppendProperties DEF CallTypes
    <3> QED
      BY <1>3, <3>1, <3>2 DEF Moves, Ended, Begun, Heard, Failed, Stored, Broken, Died,
                              Tried, Recorded, Hooked
  <2>3. posted' \subseteq Calls
    BY <1>3 DEF Moves, Ended, Begun, Heard, Failed, Stored, Broken, Died,
                Tried, Recorded, Hooked, CallTypes
  <2>4. ASSUME NEW d \in Calls
        PROVE  /\ response'[d].artefacts \in Seq(Artefact)
               /\ response'[d].status \in Terminal \cup {"none"}
    <3>1. response'[d] = response[d] \/ (Heard(c) /\ d = c)
      <4>1. Heard(c) \/ (response'[c] = response[c] /\ Elsewhere(c))
        BY <1>3 DEF Moves, Ended, Begun, Failed, Stored, Broken, Died,
                    Tried, Recorded, Hooked, Move
      <4>2. d # c => response'[d] = response[d]
        BY <4>1 DEF Heard, Elsewhere
      <4> QED
        BY <4>1, <4>2
    <3> QED
      BY <3>1 DEF CallTypes, Heard
  <2> QED
    BY <2>1, <2>2, <2>3, <2>4 DEF CallTypes
<1>4. ASSUME NEW c \in Calls, Moves(c) \/ Idle, Kept(c) PROVE Awaited'
  <2>1. \A d \in Calls \ {c} : pc'[d] = pc[d]
    BY <1>4 DEF Moves, Ended, Begun, Heard, Failed, Stored, Broken, Died,
                Tried, Recorded, Hooked, Move, Elsewhere, Idle
  <2> QED
    BY <1>4, <2>1 DEF Kept, Awaited, Via
<1>5. CASE Other
  <2>1. Elsewise /\ UNCHANGED <<bus, registry>>
    BY <1>5 DEF Other, Elsewise
  <2>2. [call |-> None, paths |-> {}, status |-> "completed"] \in Event
    BY DEF Event, Terminal
  <2>3. log' \in Seq(Event)
    BY <2>1, <2>2, AppendProperties DEF Elsewise, CallTypes
  <2>4. CallTypes'
    BY <2>1, <2>3 DEF CallTypes, Elsewise
  <2>5. Awaited'
    BY <2>1 DEF Awaited, Via, Elsewise, bus
  <2> QED
    BY <2>1, <2>4, <2>5
<1>6. CASE Workers_
  <2>1. Idle /\ UNCHANGED <<registry, serving>> /\ handler' \in Workers \cup {None}
    BY <1>6 DEF Workers_, Idle, dispatch, Subscribe, Stop
  <2> QED
    BY <1>2, <2>1 DEF Awaited, Via, Idle
<1>7. CASE Reader \/ UNCHANGED vars
  <2>1. Idle /\ UNCHANGED <<registry, bus>>
    BY <1>7 DEF Reader, vars, Idle, dispatch
  <2> QED
    BY <1>2, <2>1 DEF Awaited, Via, Idle, bus
<1>8. ASSUME NEW c \in Calls, CallAct(c) PROVE CallTypes' /\ Awaited' /\ (Moves(c) \/ Idle)
  <2>1. Kept(c) /\ (Moves(c) \/ Idle)
    BY <1>1, <1>8
  <2>2. UNCHANGED registry
    BY <2>1 DEF Kept
  <2> QED
    BY <1>2, <1>3, <1>4, <2>1, <2>2
<1> QED
  BY <1>5, <1>6, <1>7, <1>8 DEF Next, CallAct

LEMMA InitInv == Init => CallTypes /\ Awaited
<1> SUFFICES ASSUME Init PROVE CallTypes /\ Awaited
  OBVIOUS
<1>1. log \in Seq(Event) /\ \A c \in Calls : response[c].artefacts \in Seq(Artefact)
  BY EmptySeq DEF Init, NoResponse
<1> QED
  BY <1>1, SameCalls DEF Init, BusInit, CallTypes, Awaited, NoResponse

LEMMA CallInv == Spec => [](CallTypes /\ Awaited)
<1>1. Init => CallTypes /\ Awaited
  BY InitInv
<1>2. (CallTypes /\ Awaited) /\ [Next]_vars => (CallTypes /\ Awaited)'
  BY Steps
<1> QED
  BY <1>1, <1>2, PTL DEF Spec

-----------------------------------------------------------------------------
(* A settled consult stays settled.                                        *)

\* No move starts at the end, and a move leaves the other consults alone.
LEMMA MoveFrame ==
    ASSUME NEW c \in Calls, Moves(c)
    PROVE  /\ pc[c] # "done" /\ posted' \in {posted, posted \cup {c}}
           /\ Elsewhere(c)
  BY DEF Moves, Ended, Begun, Heard, Failed, Stored, Broken, Died, Tried, Recorded,
         Hooked, Move

\* A consult the model has its reply to is over: a handler or stream that is
\* late changes neither its outcome nor its answer, and no hook fires for it.
THEOREM SettledForGood == Spec => SettledOnce
<1>1. CallTypes /\ Awaited /\ [Next]_vars =>
         [\A c \in Calls : pc[c] = "done" =>
            /\ pc'[c] = "done" /\ outcome'[c] = outcome[c] /\ response'[c] = response[c]
            /\ (c \in posted') = (c \in posted)]_vars
  <2> SUFFICES ASSUME CallTypes, Awaited, Next, NEW c \in Calls, pc[c] = "done"
               PROVE  /\ pc'[c] = "done" /\ outcome'[c] = outcome[c]
                      /\ response'[c] = response[c]
                      /\ (c \in posted') = (c \in posted)
    OBVIOUS
  <2>1. CASE Idle \/ Elsewise
    BY <2>1 DEF Idle, Elsewise
  <2>2. ASSUME NEW d \in Calls, Moves(d)
        PROVE  /\ pc'[c] = "done" /\ outcome'[c] = outcome[c]
               /\ response'[c] = response[c]
               /\ (c \in posted') = (c \in posted)
    BY <2>2, MoveFrame DEF Elsewhere
  <2> QED
    BY <2>1, <2>2, Steps
<1> QED
  BY <1>1, CallInv, PTL DEF Spec, SettledOnce

-----------------------------------------------------------------------------
(* One worker per topic.                                                   *)

Subscriptions ==
    /\ DOMAIN sub = Workers
    /\ \A w \in Workers : sub[w] \in {"new", "active", "unsubscribed"}
    /\ ActiveSubscribed

\* A worker that has started and was not stopped is the one requests reach.
THEOREM ActiveWorkersSubscribed == Spec => []ActiveSubscribed
<1>1. Init => Subscriptions
  BY NoneApart DEF Init, BusInit, Subscriptions, ActiveSubscribed
<1>2. Subscriptions /\ [Next]_vars => Subscriptions'
  <2> SUFFICES ASSUME Subscriptions, [Next]_vars PROVE Subscriptions'
    OBVIOUS
  <2>1. CASE UNCHANGED <<handler, sub>>
    BY <2>1 DEF Subscriptions, ActiveSubscribed
  <2>2. ASSUME NEW w \in Workers, Subscribe(w) PROVE Subscriptions'
    BY <2>2, NoneApart DEF Subscribe, Subscriptions, ActiveSubscribed
  <2>3. ASSUME NEW w \in Workers, Stop(w) PROVE Subscriptions'
    BY <2>3, NoneApart DEF Stop, Subscriptions, ActiveSubscribed
  <2>4. ASSUME NEW c \in Calls, CallAct(c) PROVE UNCHANGED <<handler, sub>>
    BY <2>4 DEF CallAct, Refused, Blocked, Ask, Answer, Connect, Line, KeepAlive, Quiet,
                LastLine, Closed, Fails, TimesOut, Proceed, Persist, ReadOffset, AppendWins,
                AppendLoses, Post, PersistRaises, Killed, bus, Request, Returns, Expires
  <2>5. CASE Other \/ Reader \/ UNCHANGED vars
    BY <2>1, <2>5 DEF Other, Reader, vars, bus
  <2>6. CASE Workers_
    BY <2>2, <2>3, <2>6 DEF Workers_
  <2> QED
    BY <2>1, <2>4, <2>5, <2>6 DEF Next, CallAct
<1>3. Subscriptions => ActiveSubscribed
  BY DEF Subscriptions
<1> QED
  BY <1>1, <1>2, <1>3, PTL DEF Spec

-----------------------------------------------------------------------------
(* One event for each consult.                                             *)

Mine(l, c) == {i \in DOMAIN l : l[i].call = c}

\* What the log l must hold of call c at label p, with outcome o, the status st
\* of its response, and the post hooks of those in F fired.
Recording(l, c, p, o, st, F) ==
    /\ \A i, j \in Mine(l, c) : i = j
    /\ \A i \in Mine(l, c) :
          l[i].status = IF o \in {"failed", "timeout"} THEN "failed" ELSE st
    /\ p # "done" => c \notin F
    /\ \/ p \in {"new", "asking", "answered"} /\ o = "none" /\ Mine(l, c) = {}
       \/ p \in {"logging", "append"} /\ o \in {"none", "failed", "timeout"}
            /\ Mine(l, c) = {}
       \/ p = "logged" /\ o = "none" /\ Mine(l, c) # {}
       \/ p = "done" /\ o \in {"unknown", "invalid", "blocked"} /\ Mine(l, c) = {} /\ c \notin F
       \/ p = "done" /\ o \in {"raised", "killed"}
            /\ (c \in F => Mine(l, c) # {} /\ o = "raised")
       \/ p = "done" /\ o \in {"failed", "timeout"} /\ Mine(l, c) # {} /\ c \notin F
       \/ p = "done" /\ o = "answered" /\ Mine(l, c) # {} /\ c \in F

RecordInv ==
    \A c \in Calls :
       Recording(log, c, pc[c], outcome[c], response[c].status, posted)

\* An event of someone else is not c's; one of c's own is its only one.
LEMMA OthersEvent ==
    ASSUME NEW l \in Seq(Event), NEW e \in Event, NEW c, e.call # c
    PROVE  /\ Mine(Append(l, e), c) = Mine(l, c)
           /\ \A i \in Mine(l, c) : Append(l, e)[i] = l[i]
<1> DEFINE m == Append(l, e)
<1>1. /\ Len(l) \in Nat /\ DOMAIN l = 1..Len(l) /\ DOMAIN m = 1..Len(l) + 1
      /\ m[Len(l) + 1] = e /\ \A i \in 1..Len(l) : m[i] = l[i]
  BY AppendProperties, LenProperties
<1> HIDE DEF m
<1>2. \A i : i \in DOMAIN m <=> i \in DOMAIN l \/ i = Len(l) + 1
  BY <1>1
<1>3. Mine(m, c) = Mine(l, c) /\ \A i \in Mine(l, c) : m[i] = l[i]
  BY <1>1, <1>2 DEF Mine
<1> QED
  BY <1>3 DEF m

LEMMA OwnEvent ==
    ASSUME NEW l \in Seq(Event), NEW e \in Event, Mine(l, e.call) = {}
    PROVE  /\ Mine(Append(l, e), e.call) = {Len(l) + 1}
           /\ Append(l, e)[Len(l) + 1] = e
<1> DEFINE m == Append(l, e)
<1>1. /\ Len(l) \in Nat /\ DOMAIN l = 1..Len(l) /\ DOMAIN m = 1..Len(l) + 1
      /\ m[Len(l) + 1] = e /\ \A i \in 1..Len(l) : m[i] = l[i]
  BY AppendProperties, LenProperties
<1> HIDE DEF m
<1>2. \A i : i \in DOMAIN m <=> i \in DOMAIN l \/ i = Len(l) + 1
  BY <1>1
<1>3. Mine(m, e.call) = {Len(l) + 1} /\ m[Len(l) + 1] = e
  BY <1>1, <1>2 DEF Mine
<1> QED
  BY <1>3 DEF m

\* An event of another call leaves what the log holds of c.
LEMMA RecordingStays ==
    ASSUME NEW l \in Seq(Event), NEW e \in Event, NEW c, e.call # c,
           NEW p, NEW o, NEW st, NEW F,
           Recording(l, c, p, o, st, F)
    PROVE  Recording(Append(l, e), c, p, o, st, F)
<1>1. /\ Mine(Append(l, e), c) = Mine(l, c)
      /\ \A i \in Mine(l, c) : Append(l, e)[i] = l[i]
  BY OthersEvent
<1> QED
  BY <1>1 DEF Recording

\* Every step keeps it: the event is appended on the way out of the retry loop
\* and nowhere else, and the hooks are fired once it is there.
LEMMA RecordStep ==
    CallTypes /\ Awaited /\ RecordInv /\ [Next]_vars => RecordInv'
<1> SUFFICES ASSUME CallTypes, Awaited, RecordInv, [Next]_vars PROVE RecordInv'
  OBVIOUS
<1> DEFINE Rec(c) == Recording(log, c, pc[c], outcome[c], response[c].status, posted)
<1>1. \A c \in Calls : Rec(c)
  BY DEF RecordInv
<1>2. SUFFICES ASSUME NEW c \in Calls PROVE Rec(c)'
  BY DEF RecordInv
<1>3. CASE Idle
  BY <1>1, <1>3 DEF Idle
<1>4. CASE Elsewise
  <2> DEFINE e == [call |-> None, paths |-> {}, status |-> "completed"]
  <2>1. e \in Event /\ e.call # c
    BY NoneApart, SameCalls DEF Event, Terminal
  <2>2. /\ log' = Append(log, e)
        /\ UNCHANGED <<pc, outcome, response, posted>>
    BY <1>4 DEF Elsewise
  <2> HIDE DEF e
  <2>3. Rec(c)
    BY <1>1
  <2>4. Recording(Append(log, e), c, pc[c], outcome[c], response[c].status, posted)
    BY <2>1, <2>3, RecordingStays DEF CallTypes
  <2> QED
    BY <2>2, <2>4
<1>5. ASSUME NEW d \in Calls \ {c}, Moves(d) PROVE Rec(c)'
  <2>1. /\ pc'[c] = pc[c] /\ outcome'[c] = outcome[c] /\ response'[c] = response[c]
        /\ (c \in posted') = (c \in posted)
    BY <1>5, MoveFrame DEF Elsewhere
  <2>2. CASE log' = log
    <3>1. Rec(c)
      BY <1>1
    <3> QED
      BY <2>1, <2>2, <3>1 DEF Recording
  <2>3. CASE log' = Append(log, ConsultEvent(d))
    <3>1. ConsultEvent(d) \in Event /\ ConsultEvent(d).call # c
      BY PathsType DEF ConsultEvent
    <3>2. Rec(c)
      BY <1>1
    <3>3. Recording(Append(log, ConsultEvent(d)), c, pc[c], outcome[c],
                    response[c].status, posted)
      BY <3>1, <3>2, RecordingStays DEF CallTypes
    <3>4. Recording(log', c, pc'[c], outcome'[c], response'[c].status, posted)
      BY <2>1, <2>3, <3>3
    <3> QED
      BY <2>1, <3>4 DEF Recording
  <2> QED
    BY <1>5, <2>2, <2>3 DEF Moves, Ended, Begun, Heard, Failed, Stored, Broken, Died,
                            Tried, Recorded, Hooked
<1>6. CASE Moves(c)
  <2>1. Rec(c)
    BY <1>1
  <2>2. CASE Ended(c) \/ Begun(c)
    BY <2>1, <2>2 DEF Ended, Begun, Move, Recording
  <2>3. CASE Heard(c)
    BY <2>1, <2>3 DEF Heard, Recording
  <2>4. CASE Failed(c)
    BY <2>1, <2>4 DEF Failed, Move, Recording
  <2>5. CASE Stored(c) \/ Broken(c) \/ Tried(c)
    BY <2>1, <2>5 DEF Stored, Broken, Tried, Move, Recording
  <2>6. CASE Died(c)
    BY <2>1, <2>6 DEF Died, Move, Recording
  <2>7. CASE Recorded(c)
    <3> DEFINE e == ConsultEvent(c)
    <3>1. e \in Event /\ e.call = c
      BY PathsType DEF ConsultEvent
    <3>2. Mine(log, c) = {} /\ outcome[c] \in {"none", "failed", "timeout"} /\ c \notin posted
      BY <2>1, <2>7 DEF Recorded, Move, Recording
    <3>3. e.status = IF outcome[c] \in {"failed", "timeout"} THEN "failed"
                     ELSE response[c].status
      BY <3>2 DEF ConsultEvent
    <3>4. log' = Append(log, e) /\ posted' = posted
      BY <2>7 DEF Recorded
    <3> HIDE DEF e
    <3>5. Mine(log', c) = {Len(log) + 1} /\ log'[Len(log) + 1] = e
      BY <3>1, <3>2, <3>4, OwnEvent DEF CallTypes
    <3>6. /\ outcome'[c] = outcome[c] /\ response'[c] = response[c]
          /\ pc'[c] = IF outcome[c] = "none" THEN "logged" ELSE "done"
      BY <2>7 DEF Recorded, Move
    <3> QED
      BY <3>2, <3>3, <3>4, <3>5, <3>6 DEF Recording
  <2>8. CASE Hooked(c)
    BY <2>1, <2>8 DEF Hooked, Move, Recording
  <2> QED
    BY <1>6, <2>2, <2>3, <2>4, <2>5, <2>6, <2>7, <2>8 DEF Moves
<1> QED
  BY <1>3, <1>4, <1>5, <1>6, Steps

\* A consult whose answer or error the model is given has exactly one event,
\* with its status; the post hooks were fired for those that were answered.
THEOREM OneRecordEach == Spec => []OneRecordPerConsult
<1>1. Init => RecordInv
  BY DEF Init, RecordInv, Recording, Mine
<1>2. CallTypes /\ Awaited /\ RecordInv /\ [Next]_vars => RecordInv'
  BY RecordStep
<1>3. RecordInv => OneRecordPerConsult
  BY DEF RecordInv, Recording, OneRecordPerConsult, Mine
<1> QED
  BY <1>1, <1>2, <1>3, CallInv, PTL DEF Spec

-----------------------------------------------------------------------------
(* Artefacts: what is stored, and what the events say is.                  *)

\* The directory is the first two segments of an artefact's path, and the third
\* tells its content.
LEMMA PathParts ==
    ASSUME NEW a \in Artefact
    PROVE  /\ Len(ArtefactPath(a)) = 3 /\ Len(Directory) = 2
           /\ ArtefactPath(a)[1] = Directory[1] /\ ArtefactPath(a)[2] = Directory[2]
           /\ ArtefactPath(a)[3] = <<Digest[a.content], Safe[a.name]>>
<1> DEFINE x == <<Digest[a.content], Safe[a.name]>>
           S == {"project", "artefacts", x}
<1>1. Directory \in Seq(S) /\ Len(Directory) = 2
  BY DEF Directory
<1>2. ArtefactPath(a) = Append(Directory, x) /\ x \in S
  BY DEF ArtefactPath
<1> HIDE DEF x, S
<1>3. /\ Len(Append(Directory, x)) = Len(Directory) + 1
      /\ Append(Directory, x)[Len(Directory) + 1] = x
      /\ \A i \in 1..Len(Directory) : Append(Directory, x)[i] = Directory[i]
  <2> DEFINE d == Directory
  <2>1. d \in Seq(S) /\ x \in S
    BY <1>1, <1>2
  <2> HIDE DEF d
  <2>2. /\ Len(Append(d, x)) = Len(d) + 1 /\ Append(d, x)[Len(d) + 1] = x
        /\ \A i \in 1..Len(d) : Append(d, x)[i] = d[i]
    BY <2>1, AppendProperties
  <2> QED
    BY <2>2 DEF d
<1>4. 1 \in 1..Len(Directory) /\ 2 \in 1..Len(Directory)
  BY <1>1
<1> QED
  BY <1>1, <1>2, <1>3, <1>4 DEF x

LEMMA SamePathSameContent ==
    ASSUME NEW a \in Artefact, NEW b \in Artefact, ArtefactPath(a) = ArtefactPath(b)
    PROVE  a.content = b.content
<1>1. Digest[a.content] = Digest[b.content]
  BY PathParts
<1>2. a.content \in DOMAIN Digest /\ b.content \in DOMAIN Digest
  BY DEF Artefact
<1> QED
  BY <1>1, <1>2, DigestApart

LEMMA GreatestExists ==
    ASSUME NEW n \in Nat, NEW S, S \subseteq 1..n, S # {}
    PROVE  \E m \in S : \A k \in S : m >= k
<1> DEFINE R == OpToRel(<, Nat)
           T == {n - k : k \in S}
<1>1. IsWellFoundedOn(R, Nat)
  BY NatLessThanWellFounded
<1>2. \A x, y \in Nat : <<y, x>> \in R <=> y < x
  BY DEF OpToRel
<1>3. T \subseteq Nat /\ T # {}
  <2>1. \A k \in S : n - k \in Nat
    OBVIOUS
  <2> QED
    BY <2>1
<1> HIDE DEF R, T
<1>4. PICK t \in T : \A u \in T : ~ (<<u, t>> \in R)
  BY <1>1, <1>3, WFMin
<1>5. PICK m \in S : t = n - m
  BY <1>4 DEF T
<1>6. ASSUME NEW k \in S PROVE m >= k
  <2>1. n - k \in T
    BY DEF T
  <2>2. n - k \in Nat /\ n - m \in Nat /\ ~ (n - k < n - m)
    BY <1>2, <1>3, <1>4, <1>5, <2>1
  <2>3. k \in Int /\ m \in Int
    OBVIOUS
  <2> QED
    BY <2>2, <2>3
<1> QED
  BY <1>6

\* What is stored at an artefact's path is its content.
Faithful(d) ==
    /\ DOMAIN d \subseteq AllPaths
    /\ \A a \in Artefact : ArtefactPath(a) \in DOMAIN d => d[ArtefactPath(a)] = a.content

PathsOf(artefacts) == {ArtefactPath(artefacts[i]) : i \in DOMAIN artefacts}

\* Writing artefacts adds their paths, and changes nothing that was there: two
\* that meet at one path have one content.
LEMMA Persisting ==
    ASSUME NEW d, Faithful(d), NEW artefacts \in Seq(Artefact),
           NEW e, e = persist_artefacts(d, artefacts)
    PROVE  Faithful(e) /\ DOMAIN e = DOMAIN d \cup PathsOf(artefacts)
<1> DEFINE writes(p) == {i \in DOMAIN artefacts : ArtefactPath(artefacts[i]) = p}
<1>1. /\ Len(artefacts) \in Nat /\ DOMAIN artefacts = 1..Len(artefacts)
      /\ \A i \in DOMAIN artefacts : artefacts[i] \in Artefact
  BY LenProperties, ElementOfSeq
<1>2. e = [p \in DOMAIN d \cup PathsOf(artefacts) |->
             IF writes(p) = {} THEN d[p] ELSE artefacts[Max(writes(p))].content]
  BY DEF persist_artefacts, PathsOf
<1>3. DOMAIN e = DOMAIN d \cup PathsOf(artefacts)
  BY <1>2
<1>4. PathsOf(artefacts) \subseteq AllPaths
  BY <1>1 DEF PathsOf, AllPaths
<1>5. ASSUME NEW a \in Artefact, ArtefactPath(a) \in DOMAIN e
      PROVE  e[ArtefactPath(a)] = a.content
  <2> DEFINE p == ArtefactPath(a)
             W == writes(p)
  <2>1. CASE W = {}
    <3>1. p \in DOMAIN d
      BY <1>3, <1>5, <2>1 DEF PathsOf
    <3>2. e[p] = d[p]
      BY <1>2, <1>3, <1>5, <2>1
    <3> QED
      BY <3>1, <3>2 DEF Faithful
  <2>2. CASE W # {}
    <3>1. W \subseteq 1..Len(artefacts)
      BY <1>1
    <3>2. e[p] = artefacts[Max(W)].content
      BY <1>2, <1>3, <1>5, <2>2
    <3> HIDE DEF W
    <3>3. Max(W) \in W
      <4>1. \E m \in W : \A k \in W : m >= k
        BY <1>1, <2>2, <3>1, GreatestExists
      <4> QED
        BY <4>1 DEF Max
    <3>4. artefacts[Max(W)] \in Artefact /\ ArtefactPath(artefacts[Max(W)]) = p
      BY <1>1, <3>3 DEF W
    <3> QED
      BY <3>2, <3>4, SamePathSameContent
  <2> QED
    BY <2>1, <2>2
<1> QED
  BY <1>3, <1>4, <1>5 DEF Faithful

\* What l and d must hold of call c at label p, whose response has these
\* artefacts: once they are written they stay, for the event will name them.
NamedOf(l, d, c, p, artefacts) ==
    /\ p \in {"new", "asking"} => artefacts = <<>>
    /\ p \in {"logging", "append"} => PathsOf(artefacts) \subseteq DOMAIN d
    /\ \A i \in Mine(l, c) : /\ l[i].paths = PathsOf(artefacts)
                             /\ PathsOf(artefacts) \subseteq DOMAIN d

NamedInv ==
    /\ Faithful(docs)
    /\ \A c \in Calls : NamedOf(log, docs, c, pc[c], response[c].artefacts)

\* Some of a consult's artefacts have no other paths than all of them.
LEMMA SomePaths ==
    ASSUME NEW artefacts \in Seq(Artefact), NEW n \in 0..(Len(artefacts) - 1)
    PROVE  /\ SubSeq(artefacts, 1, n) \in Seq(Artefact)
           /\ PathsOf(SubSeq(artefacts, 1, n)) \subseteq PathsOf(artefacts)
<1>1. /\ Len(artefacts) \in Nat /\ DOMAIN artefacts = 1..Len(artefacts)
      /\ \A i \in 1..Len(artefacts) : artefacts[i] \in Artefact
  BY LenProperties, ElementOfSeq
<1> DEFINE s == SubSeq(artefacts, 1, n)
<1>2. \A i \in 1..n : artefacts[i] \in Artefact /\ i \in 1..Len(artefacts)
  BY <1>1
<1>3. 1 \in Int /\ n \in Int
  BY <1>1
<1>4. /\ s \in Seq(Artefact) /\ Len(s) = IF 1 <= n THEN n - 1 + 1 ELSE 0
      /\ \A i \in 1..n - 1 + 1 : s[i] = artefacts[1 + i - 1]
  BY <1>2, <1>3, SubSeqProperties
<1> HIDE DEF s
<1>5. DOMAIN s = 1..n /\ \A i \in 1..n : s[i] = artefacts[i]
  BY <1>1, <1>4, LenProperties
<1>6. PathsOf(s) \subseteq PathsOf(artefacts)
  BY <1>1, <1>2, <1>5 DEF PathsOf
<1> QED
  BY <1>4, <1>6 DEF s

\* Documents are only added, and what is at a path stays faithful.
LEMMA DocsGrow ==
    ASSUME CallTypes, Awaited, Faithful(docs), [Next]_vars
    PROVE  /\ Faithful(docs') /\ DOMAIN docs \subseteq DOMAIN docs'
           /\ \/ docs' = docs
              \/ \E c \in Calls : /\ Stored(c)
                                  /\ DOMAIN docs' = DOMAIN docs \cup Paths(c)
              \/ \E c \in Calls : /\ Broken(c)
                                  /\ DOMAIN docs' \subseteq DOMAIN docs \cup Paths(c)
<1>1. CASE docs' = docs
  BY <1>1
<1>2. ASSUME NEW c \in Calls, Stored(c)
      PROVE  Faithful(docs') /\ DOMAIN docs' = DOMAIN docs \cup Paths(c)
  <2>1. response[c].artefacts \in Seq(Artefact)
    BY DEF CallTypes
  <2>2. docs' = persist_artefacts(docs, response[c].artefacts)
    BY <1>2 DEF Stored
  <2>3. Faithful(docs') /\ DOMAIN docs' = DOMAIN docs \cup PathsOf(response[c].artefacts)
    BY <2>1, <2>2, Persisting
  <2> QED
    BY <2>3 DEF Paths, PathsOf
<1>3. ASSUME NEW c \in Calls, Broken(c)
      PROVE  /\ Faithful(docs') /\ DOMAIN docs \subseteq DOMAIN docs'
             /\ DOMAIN docs' \subseteq DOMAIN docs \cup Paths(c)
  <2> DEFINE artefacts == response[c].artefacts
  <2>1. artefacts \in Seq(Artefact)
    BY DEF CallTypes
  <2>2. PICK n \in 0..(Len(artefacts) - 1) :
           docs' = persist_artefacts(docs, SubSeq(artefacts, 1, n))
    BY <1>3 DEF Broken
  <2> HIDE DEF artefacts
  <2>3. /\ SubSeq(artefacts, 1, n) \in Seq(Artefact)
        /\ PathsOf(SubSeq(artefacts, 1, n)) \subseteq PathsOf(artefacts)
    BY <2>1, SomePaths
  <2>4. Faithful(docs') /\ DOMAIN docs' = DOMAIN docs \cup PathsOf(SubSeq(artefacts, 1, n))
    BY <2>2, <2>3, Persisting
  <2> QED
    BY <2>3, <2>4 DEF Paths, PathsOf, artefacts
<1>4. Idle \/ Elsewise \/ \E c \in Calls : Moves(c)
  BY Steps
<1> QED
  BY <1>1, <1>2, <1>3, <1>4 DEF Idle, Elsewise, Moves, Ended, Begun, Heard, Failed,
     Died, Tried, Recorded, Hooked

\* More documents and others' events leave what is named of c.
LEMMA NamedStays ==
    ASSUME NEW l, NEW m, NEW c, Mine(m, c) = Mine(l, c),
           \A i \in Mine(l, c) : m[i] = l[i],
           NEW d, NEW e, DOMAIN d \subseteq DOMAIN e, NEW p, NEW artefacts,
           NamedOf(l, d, c, p, artefacts)
    PROVE  NamedOf(m, e, c, p, artefacts)
  BY DEF NamedOf

\* Every step keeps it: no consult returns an answer twice, so its event names
\* what it wrote before.
LEMMA NamedStep ==
    CallTypes /\ Awaited /\ RecordInv /\ NamedInv /\ [Next]_vars => NamedInv'
<1> SUFFICES ASSUME CallTypes, Awaited, RecordInv, NamedInv, [Next]_vars PROVE NamedInv'
  OBVIOUS
<1>1. Faithful(docs') /\ DOMAIN docs \subseteq DOMAIN docs'
  BY DocsGrow DEF NamedInv
<1>2. SUFFICES ASSUME NEW c \in Calls
               PROVE  NamedOf(log, docs, c, pc[c], response[c].artefacts)'
  BY <1>1 DEF NamedInv
<1> DEFINE artefacts == response[c].artefacts
<1>3. NamedOf(log, docs, c, pc[c], artefacts)
  BY DEF NamedInv
<1>4. ASSUME NEW e \in Event, e.call # c, log' = log \/ log' = Append(log, e),
             pc'[c] = pc[c], response'[c] = response[c]
      PROVE  NamedOf(log', docs', c, pc'[c], response'[c].artefacts)
  <2>1. Mine(log', c) = Mine(log, c) /\ \A i \in Mine(log, c) : log'[i] = log[i]
    <3>1. /\ Mine(Append(log, e), c) = Mine(log, c)
          /\ \A i \in Mine(log, c) : Append(log, e)[i] = log[i]
      BY <1>4, OthersEvent DEF CallTypes
    <3> QED
      BY <1>4, <3>1
  <2>2. NamedOf(log', docs', c, pc[c], artefacts)
    BY <1>1, <1>3, <2>1, NamedStays
  <2> QED
    BY <1>4, <2>2
<1>5. CASE Idle \/ Elsewise
  <2> DEFINE e == [call |-> None, paths |-> {}, status |-> "completed"]
  <2>1. e \in Event /\ e.call # c
    BY NoneApart, SameCalls DEF Event, Terminal
  <2>2. /\ log' = log \/ log' = Append(log, e)
        /\ pc'[c] = pc[c] /\ response'[c] = response[c]
    BY <1>5 DEF Idle, Elsewise
  <2> QED
    BY <1>4, <2>1, <2>2
<1>6. ASSUME NEW d \in Calls \ {c}, Moves(d)
      PROVE  NamedOf(log', docs', c, pc'[c], response'[c].artefacts)
  <2>1. pc'[c] = pc[c] /\ response'[c] = response[c]
    BY <1>6, MoveFrame DEF Elsewhere
  <2>2. log' = log \/ log' = Append(log, ConsultEvent(d))
    BY <1>6 DEF Moves, Ended, Begun, Heard, Failed, Stored, Broken, Died,
                Tried, Recorded, Hooked
  <2>3. ConsultEvent(d) \in Event /\ ConsultEvent(d).call # c
    BY PathsType DEF ConsultEvent
  <2> QED
    BY <1>4, <2>1, <2>2, <2>3
<1>7. ASSUME Moves(c) PROVE NamedOf(log', docs', c, pc'[c], response'[c].artefacts)
  <2>1. Recording(log, c, pc[c], outcome[c], response[c].status, posted)
    BY DEF RecordInv
  <2>2. \/ pc[c] \in {"new", "asking", "answered", "logging", "append"} /\ Mine(log, c) = {}
        \/ pc[c] \in {"logged", "done"}
    BY <2>1 DEF Recording
  <2>3. CASE Heard(c)
    <3>1. Mine(log', c) = {} /\ pc'[c] = "answered"
      BY <2>2, <2>3 DEF Heard
    <3> QED
      BY <3>1 DEF NamedOf
  <2>4. ASSUME Failed(c) PROVE NamedOf(log', docs', c, pc'[c], response'[c].artefacts)
    <3>1. pc[c] \in {"new", "asking"} /\ Mine(log', c) = {} /\ response'[c] = response[c]
      BY <2>2, <2>4 DEF Failed, Move
    <3>2. artefacts = <<>>
      BY <1>3, <3>1 DEF NamedOf
    <3>3. PathsOf(response'[c].artefacts) = {}
      BY <3>1, <3>2, EmptySeq DEF PathsOf
    <3>4. pc'[c] = "logging"
      BY <2>4 DEF Failed, Move
    <3> QED
      BY <3>1, <3>3, <3>4 DEF NamedOf
  <2>5. ASSUME Stored(c) PROVE NamedOf(log', docs', c, pc'[c], response'[c].artefacts)
    <3>1. /\ Mine(log', c) = {} /\ pc'[c] = "logging" /\ response'[c] = response[c]
          /\ docs' = persist_artefacts(docs, artefacts)
      BY <2>2, <2>5 DEF Stored, Move
    <3>2. artefacts \in Seq(Artefact)
      BY DEF CallTypes
    <3> HIDE DEF artefacts
    <3>3. PathsOf(artefacts) \subseteq DOMAIN docs'
      <4>1. Faithful(docs)
        BY DEF NamedInv
      <4>2. DOMAIN docs' = DOMAIN docs \cup PathsOf(artefacts)
        BY <3>1, <3>2, <4>1, Persisting
      <4> QED
        BY <4>2
    <3>4. response'[c].artefacts = artefacts
      BY <3>1 DEF artefacts
    <3> QED
      BY <3>1, <3>3, <3>4 DEF NamedOf
  <2>6. ASSUME Recorded(c) PROVE NamedOf(log', docs', c, pc'[c], response'[c].artefacts)
    <3> DEFINE e == ConsultEvent(c)
    <3>1. e \in Event /\ e.call = c /\ e.paths = PathsOf(artefacts)
      BY PathsType DEF ConsultEvent, Paths, PathsOf
    <3>2. /\ log' = Append(log, e) /\ response'[c] = response[c]
          /\ pc[c] = "append" /\ pc'[c] \in {"logged", "done"}
      BY <2>6 DEF Recorded, Move
    <3> HIDE DEF e
    <3>3. Mine(log', c) = {Len(log) + 1} /\ log'[Len(log) + 1] = e
      BY <2>2, <3>1, <3>2, OwnEvent DEF CallTypes
    <3>4. PathsOf(artefacts) \subseteq DOMAIN docs'
      BY <1>1, <1>3, <3>2 DEF NamedOf
    <3> QED
      BY <3>1, <3>2, <3>3, <3>4 DEF NamedOf
  <2>7. ASSUME \/ Ended(c) \/ Begun(c) \/ Broken(c) \/ Died(c) \/ Tried(c) \/ Hooked(c)
        PROVE  NamedOf(log', docs', c, pc'[c], response'[c].artefacts)
    <3>1. /\ log' = log /\ response'[c] = response[c]
          /\ \/ pc'[c] = "done"
             \/ pc[c] = "new" /\ pc'[c] = "asking"
             \/ pc[c] \in {"logging", "append"} /\ pc'[c] \in {"logging", "append"}
      BY <2>7 DEF Ended, Begun, Broken, Died, Tried, Hooked, Move
    <3> HIDE DEF artefacts
    <3>2. response'[c].artefacts = artefacts
      BY <3>1 DEF artefacts
    <3> QED
      BY <1>1, <1>3, <3>1, <3>2 DEF NamedOf
  <2> QED
    BY <1>7, <2>3, <2>4, <2>5, <2>6, <2>7 DEF Moves
<1> QED
  BY <1>5, <1>6, <1>7, Steps

LEMMA InitNamed == Init => RecordInv /\ NamedInv
<1> SUFFICES ASSUME Init PROVE RecordInv /\ NamedInv
  OBVIOUS
<1>1. RecordInv
  BY DEF Init, RecordInv, Recording, Mine
<1>2. DOMAIN docs = {} /\ DOMAIN log = {}
  BY DEF Init
<1>3. \A c \in Calls : response[c].artefacts = <<>> /\ pc[c] = "new"
  BY DEF Init, NoResponse
<1>4. NamedInv
  BY <1>2, <1>3 DEF NamedInv, Faithful, NamedOf, Mine
<1> QED
  BY <1>1, <1>4

\* ls of the directory shows every artefact stored.
LEMMA Listed ==
    ASSUME NEW P, NEW a \in Artefact, NEW p, p = ArtefactPath(a), p \in P
    PROVE  [name |-> p[Len(p)], kind |-> "file"] \in list_dir(P, Directory)
<1>1. /\ Len(p) = 3 /\ Len(Directory) = 2
      /\ p[1] = Directory[1] /\ p[2] = Directory[2]
  BY PathParts
<1>2. SubSeq(Directory, 1, 2) = SubSeq(p, 1, 2)
  <2> DEFINE S == {Directory[1], Directory[2]}
  <2>1. /\ \A i \in 1..2 : Directory[i] \in S
        /\ \A i \in 1..2 : p[i] = Directory[i]
    BY <1>1
  <2> HIDE DEF S
  <2>2. /\ SubSeq(Directory, 1, 2) \in Seq(S) /\ Len(SubSeq(Directory, 1, 2)) = 2
        /\ \A i \in 1..2 : SubSeq(Directory, 1, 2)[i] = Directory[i]
    <3>1. /\ SubSeq(Directory, 1, 2) \in Seq(S)
          /\ Len(SubSeq(Directory, 1, 2)) = IF 1 <= 2 THEN 2 - 1 + 1 ELSE 0
          /\ \A i \in 1..2 - 1 + 1 : SubSeq(Directory, 1, 2)[i] = Directory[1 + i - 1]
      BY <2>1, SubSeqProperties
    <3> QED
      BY <3>1
  <2>3. /\ SubSeq(p, 1, 2) \in Seq(S) /\ Len(SubSeq(p, 1, 2)) = 2
        /\ \A i \in 1..2 : SubSeq(p, 1, 2)[i] = p[i]
    <3>1. \A i \in 1..2 : p[i] \in S
      BY <2>1
    <3>2. /\ SubSeq(p, 1, 2) \in Seq(S)
          /\ Len(SubSeq(p, 1, 2)) = IF 1 <= 2 THEN 2 - 1 + 1 ELSE 0
          /\ \A i \in 1..2 - 1 + 1 : SubSeq(p, 1, 2)[i] = p[1 + i - 1]
      BY <3>1, SubSeqProperties
    <3> QED
      BY <3>2
  <2> QED
    BY <2>1, <2>2, <2>3, SeqEqual
<1>3. IsPrefix(Directory, p)
  BY <1>1, <1>2 DEF IsPrefix
<1>4. p \in {q \in list_docs(P, Directory) : Len(q) > Len(Directory)}
  BY <1>1, <1>3 DEF list_docs
<1>5. /\ Len(p) = Len(Directory) + 1
      /\ [name |-> p[Len(p)], kind |-> "file"]
           = [name |-> p[Len(Directory) + 1],
              kind |-> IF Len(p) = Len(Directory) + 1 THEN "file" ELSE "directory"]
  BY <1>1
<1> QED
  BY <1>4, <1>5 DEF list_dir

\* Whatever other consults wrote since, every path an event names leads to the
\* bytes that consult returned, and ls shows it.
THEOREM NamedArtefactsStay == Spec => []NamedArtefactsKept
<1>1. Init => RecordInv /\ NamedInv
  BY InitNamed
<1>2. CallTypes /\ Awaited /\ RecordInv /\ NamedInv /\ [Next]_vars => RecordInv' /\ NamedInv'
  BY RecordStep, NamedStep
<1>3. CallTypes /\ NamedInv => NamedArtefactsKept
  <2> SUFFICES ASSUME CallTypes, NamedInv, NEW c \in Calls, NEW e \in ToSet(log), e.call = c
               PROVE  /\ \A i \in DOMAIN response[c].artefacts :
                            LET a == response[c].artefacts[i] IN
                            /\ ArtefactPath(a) \in e.paths \cap DOMAIN docs
                            /\ docs[ArtefactPath(a)] = a.content
                      /\ \A p \in e.paths :
                            [name |-> p[Len(p)], kind |-> "file"]
                              \in list_dir(DOMAIN docs, Directory)
    BY DEF NamedArtefactsKept
  <2>1. PICK k \in DOMAIN log : e = log[k]
    BY DEF ToSet
  <2>2. k \in Mine(log, c)
    BY <2>1 DEF Mine
  <2>3. e.paths = PathsOf(response[c].artefacts) /\ e.paths \subseteq DOMAIN docs
    BY <2>1, <2>2 DEF NamedInv, NamedOf
  <2>4. Faithful(docs) /\ response[c].artefacts \in Seq(Artefact)
    BY DEF NamedInv, CallTypes
  <2>5. ASSUME NEW i \in DOMAIN response[c].artefacts
        PROVE  /\ response[c].artefacts[i] \in Artefact
               /\ ArtefactPath(response[c].artefacts[i]) \in e.paths \cap DOMAIN docs
               /\ docs[ArtefactPath(response[c].artefacts[i])]
                    = response[c].artefacts[i].content
    <3>1. response[c].artefacts[i] \in Artefact
      BY <2>4, LenProperties, ElementOfSeq
    <3>2. ArtefactPath(response[c].artefacts[i]) \in e.paths
      BY <2>3 DEF PathsOf
    <3> QED
      BY <2>3, <2>4, <3>1, <3>2 DEF Faithful
  <2>6. ASSUME NEW p \in e.paths
        PROVE  [name |-> p[Len(p)], kind |-> "file"] \in list_dir(DOMAIN docs, Directory)
    <3>1. PICK i \in DOMAIN response[c].artefacts : p = ArtefactPath(response[c].artefacts[i])
      BY <2>3 DEF PathsOf
    <3> QED
      BY <2>3, <2>5, <3>1, Listed
  <2> QED
    BY <2>5, <2>6
<1> QED
  BY <1>1, <1>2, <1>3, CallInv, PTL DEF Spec

\* Who accounts for a stored document p.
Explained(p) ==
    \/ \E i \in DOMAIN log : p \in log[i].paths
    \/ \E c \in Calls : /\ p \in Paths(c)
                        /\ pc[c] \in {"logging", "append"} \/ outcome[c] \in {"raised", "killed"}

OrphanInv == \A p \in DOMAIN docs : Explained(p)

\* Every step keeps it: a consult stops accounting for what it wrote only with
\* its event.
LEMMA OrphanStep ==
    CallTypes /\ Awaited /\ RecordInv /\ NamedInv /\ OrphanInv /\ [Next]_vars => OrphanInv'
<1> SUFFICES ASSUME CallTypes, Awaited, RecordInv, NamedInv, OrphanInv, [Next]_vars,
                    NEW p \in DOMAIN docs'
             PROVE  Explained(p)'
  BY DEF OrphanInv
<1>1. ASSUME NEW e \in Event, log' = log \/ log' = Append(log, e)
      PROVE  \A i \in DOMAIN log : i \in DOMAIN log' /\ log'[i] = log[i]
  <2>1. /\ DOMAIN log = 1..Len(log) /\ Len(log) \in Nat
        /\ DOMAIN Append(log, e) = 1..Len(log) + 1
        /\ \A i \in 1..Len(log) : Append(log, e)[i] = log[i]
    BY AppendProperties, LenProperties DEF CallTypes
  <2> QED
    BY <1>1, <2>1
<1>2. CASE Idle \/ Elsewise
  <2> DEFINE e == [call |-> None, paths |-> {}, status |-> "completed"]
  <2>1. e \in Event
    BY DEF Event, Terminal
  <2>2. UNCHANGED <<pc, outcome, response, docs>> /\ (log' = log \/ log' = Append(log, e))
    BY <1>2 DEF Idle, Elsewise
  <2>3. \A i \in DOMAIN log : i \in DOMAIN log' /\ log'[i] = log[i]
    BY <1>1, <2>1, <2>2
  <2>4. Explained(p)
    BY <2>2 DEF OrphanInv
  <2> QED
    BY <2>2, <2>3, <2>4 DEF Explained, Paths
<1>3. ASSUME NEW c \in Calls, Moves(c) PROVE Explained(p)'
  <2>1. ConsultEvent(c) \in Event
    BY PathsType
  <2>2. log' = log \/ log' = Append(log, ConsultEvent(c))
    BY <1>3 DEF Moves, Ended, Begun, Heard, Failed, Stored, Broken, Died,
                Tried, Recorded, Hooked
  <2>3. \A i \in DOMAIN log : i \in DOMAIN log' /\ log'[i] = log[i]
    BY <1>1, <2>1, <2>2
  <2>4. Elsewhere(c)
    BY <1>3, MoveFrame
  <2>5. CASE p \notin DOMAIN docs
    <3>1. /\ p \in Paths(c) /\ response'[c] = response[c]
          /\ pc'[c] = "logging" \/ outcome'[c] = "raised"
      <4>1. PICK d \in Calls : \/ Stored(d) /\ p \in Paths(d)
                               \/ Broken(d) /\ p \in Paths(d)
        BY <2>5, DocsGrow DEF NamedInv
      <4>2. d = c
        BY <1>3, <2>4, <4>1 DEF Stored, Broken, Move, Elsewhere, Moves, Ended, Begun, Heard,
           Failed, Died, Tried, Recorded, Hooked
      <4> QED
        BY <4>1, <4>2 DEF Stored, Broken, Move
    <3> QED
      BY <3>1 DEF Explained, Paths
  <2>6. CASE \E i \in DOMAIN log : p \in log[i].paths
    BY <2>3, <2>6 DEF Explained
  <2>7. ASSUME NEW d \in Calls \ {c}, p \in Paths(d),
               pc[d] \in {"logging", "append"} \/ outcome[d] \in {"raised", "killed"}
        PROVE  Explained(p)'
    BY <2>4, <2>7 DEF Explained, Paths, Elsewhere
  <2>8. CASE /\ p \in Paths(c)
             /\ pc[c] \in {"logging", "append"} \/ outcome[c] \in {"raised", "killed"}
    <3>1. pc[c] \in {"logging", "append"}
      <4>1. Recording(log, c, pc[c], outcome[c], response[c].status, posted)
        BY DEF RecordInv
      <4>2. pc[c] # "done"
        BY <1>3, MoveFrame
      <4> QED
        BY <2>8, <4>1, <4>2 DEF Recording
    <3>2. \/ Died(c) \/ Tried(c) \/ Recorded(c)
      BY <1>3, <3>1 DEF Moves, Ended, Begun, Heard, Failed, Stored, Broken, Hooked, Move
    <3>3. CASE Died(c) \/ Tried(c)
      BY <2>8, <3>3 DEF Died, Tried, Move, Explained, Paths
    <3>4. CASE Recorded(c)
      <4>1. log' = Append(log, ConsultEvent(c))
        BY <3>4 DEF Recorded
      <4>2. Len(log) + 1 \in DOMAIN log' /\ log'[Len(log) + 1] = ConsultEvent(c)
        BY <2>1, <4>1, AppendProperties, LenProperties DEF CallTypes
      <4>3. p \in ConsultEvent(c).paths
        BY <2>8 DEF ConsultEvent
      <4> QED
        BY <4>2, <4>3 DEF Explained
    <3> QED
      BY <3>2, <3>3, <3>4
  <2> QED
    BY <2>5, <2>6, <2>7, <2>8 DEF OrphanInv, Explained
<1> QED
  BY <1>2, <1>3, Steps

\* An artefact no event names is that of a consult which is about to record its
\* own or was broken off.
THEOREM OrphansAreExplained == Spec => []OrphansExplained
<1>1. Init => RecordInv /\ NamedInv /\ OrphanInv
  BY InitNamed DEF Init, OrphanInv
<1>2. CallTypes /\ Awaited /\ RecordInv /\ NamedInv /\ OrphanInv /\ [Next]_vars
         => RecordInv' /\ NamedInv' /\ OrphanInv'
  BY RecordStep, NamedStep, OrphanStep
<1>3. OrphanInv => OrphansExplained
  BY DEF OrphanInv, Explained, OrphansExplained, ToSet
<1> QED
  BY <1>1, <1>2, <1>3, CallInv, PTL DEF Spec
=============================================================================
