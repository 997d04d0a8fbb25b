------------------------------ MODULE A2AStream ------------------------------
(***************************************************************************)
(* The task stream of an A2A subagent (subagents/a2a.py): the task is      *)
(* submitted by one request and its stream opened by another; then lines   *)
(* of server-sent events are parsed one at a time under a watchdog, until  *)
(* an event ends the consult.  Between the two nothing is timed.           *)
(*                                                                         *)
(* A line is an event: field, a data: field or the blank line that ends an *)
(* event; comments only keep the watchdog quiet.  The text in a data line  *)
(* is the line's position, 0 when its payload has none; texts join as      *)
(* sequences.                                                              *)
(***************************************************************************)
EXTENDS Naturals, Sequences, SequencesExt

CONSTANTS Calls,       \* consults
          EventTypes,  \* values of event: lines
          MaxBlocks    \* bound: events a server sends in one stream

ASSUME MaxBlocksNat == MaxBlocks \in Nat

VARIABLES lines,       \* call -> the lines received so far
          parser,      \* call -> _aiter_sse_events' and _stream_task's locals
          fresh,       \* call -> the timer that runs, if one does, has time left
          link         \* call -> how far its two requests are

stream == <<lines, parser, fresh, link>>

Terminal == {"completed", "input-required", "failed"}
Blank == [field |-> "blank"]
EventLine(t) == [field |-> "event", type |-> t]
DataLine(x) == [field |-> "data", text |-> x]
LineTypes == {Blank} \cup [field : {"event"}, type : EventTypes]
                     \cup [field : {"data"}, text : Nat]

NoType == "None"
ASSUME NoTypeApart == NoType \notin EventTypes
Start == [type |-> NoType, data |-> <<>>, working |-> <<>>]

-----------------------------------------------------------------------------
(* What the parser does with a line.                                       *)

\* _extract_text of _parse_data: the text of the buffered data lines, of which
\* an event has one at most.
Text(data) == IF data = <<0>> THEN <<>> ELSE data

Buffered(p) == p.type # NoType \/ p.data # <<>>

\* The event a blank line, or the end of the stream, dispatches; one without
\* an event: line is a "message", which nothing handles.
Dispatched(p) ==
    [type |-> IF p.type = NoType THEN "message" ELSE p.type, text |-> Text(p.data)]

\* The response to a terminal event: its text, else what was said before it.
Response(p) ==
    LET e == Dispatched(p)
    IN  [status |-> e.type, text |-> IF e.text = <<>> THEN p.working ELSE e.text]

Ends(p) == Buffered(p) /\ Dispatched(p).type \in Terminal

StreamClosed == [status |-> "failed", text |-> <<"closed">>]

\* The locals after a blank line that did not end the consult.
AfterBlank(p) ==
    [type |-> NoType, data |-> <<>>,
     working |-> IF Dispatched(p).type = "working"
                 THEN p.working \o Dispatched(p).text ELSE p.working]

Buffer(p, l) ==
    CASE l.field = "event" -> [p EXCEPT !.type = l.type]
      [] l.field = "data"  -> [p EXCEPT !.data = Append(@, l.text)]
      [] l.field = "blank" -> AfterBlank(p)

-----------------------------------------------------------------------------
StreamInit ==
    /\ lines = [c \in Calls |-> <<>>]
    /\ parser = [c \in Calls |-> Start]
    /\ fresh = [c \in Calls |-> FALSE]
    /\ link = [c \in Calls |-> "none"]

\* tasks/send is posted, under the client's own timeout.
Submit(c) ==
    /\ lines' = [lines EXCEPT ![c] = <<>>]
    /\ parser' = [parser EXCEPT ![c] = Start]
    /\ fresh' = [fresh EXCEPT ![c] = TRUE]
    /\ link' = [link EXCEPT ![c] = "submitting"]

\* It is answered and the stream asked for, with timeout=None: until the
\* headers come no timer runs, the watchdog only bounding reads of lines.
Submitted(c) ==
    /\ link[c] = "submitting"
    /\ link' = [link EXCEPT ![c] = "submitted"]
    /\ fresh' = [fresh EXCEPT ![c] = FALSE]
    /\ UNCHANGED <<lines, parser>>

\* The headers have come: the first line is awaited under the watchdog.
Open(c) ==
    /\ link[c] = "submitted"
    /\ link' = [link EXCEPT ![c] = "streaming"]
    /\ fresh' = [fresh EXCEPT ![c] = TRUE]
    /\ UNCHANGED <<lines, parser>>

\* What a server may send next (bound: an event has one event: and one data:
\* line at most and is not empty, MaxBlocks events are ended).
Sendable(c) ==
    LET blocks == Cardinality({i \in DOMAIN lines[c] : lines[c][i] = Blank}) IN
    IF blocks = MaxBlocks THEN {}
    ELSE (IF Buffered(parser[c]) THEN {Blank} ELSE {})
         \cup {EventLine(t) : t \in IF parser[c].type = NoType THEN EventTypes ELSE {}}
         \cup {DataLine(x) : x \in IF parser[c].data = <<>>
                                   THEN {0, Len(lines[c]) + 1} ELSE {}}

\* A line arrives that does not end the consult.
Receive(c, l) ==
    /\ link[c] = "streaming"
    /\ l \in Sendable(c)
    /\ ~(l = Blank /\ Ends(parser[c]))
    /\ lines' = [lines EXCEPT ![c] = Append(@, l)]
    /\ parser' = [parser EXCEPT ![c] = Buffer(@, l)]
    /\ fresh' = [fresh EXCEPT ![c] = TRUE]
    /\ UNCHANGED link

\* The blank line after a terminal event: the consult has its response.
ReceiveLast(c) ==
    /\ link[c] = "streaming"
    /\ Blank \in Sendable(c)
    /\ Ends(parser[c])
    /\ lines' = [lines EXCEPT ![c] = Append(@, Blank)]
    /\ UNCHANGED <<parser, fresh, link>>

\* A comment resets the watchdog and does nothing else; so does a part of the
\* answer to tasks/send for the client's timeout, which is per read.
Comment(c) ==
    /\ link[c] # "submitted"
    /\ fresh' = [fresh EXCEPT ![c] = TRUE]
    /\ UNCHANGED <<lines, parser, link>>

\* The time of the timer that runs passes without a line.
Silence(c) ==
    /\ fresh[c]
    /\ fresh' = [fresh EXCEPT ![c] = FALSE]
    /\ UNCHANGED <<lines, parser, link>>

\* The client's timeout of tasks/send is over, an HTTP error.
Unanswered(c) == link[c] = "submitting" /\ ~fresh[c]

\* The watchdog's window is over, a SubagentTimeout.
Unheard(c) == link[c] = "streaming" /\ ~fresh[c]

\* Mutant: what is buffered is dropped when the stream ends.
AtEnd_DropsBuffer(c) == StreamClosed

\* The response when the stream ends: a buffered event is dispatched first.
AtEnd(c) == IF Ends(parser[c]) THEN Response(parser[c]) ELSE StreamClosed

-----------------------------------------------------------------------------
(* What a stream says, told from all of its lines at once.                 *)

\* The event a line belongs to: one more than the blank lines before it.
BlockOf(s, i) == 1 + Cardinality({j \in 1..(i - 1) : s[j] = Blank})
Blocks(s) == {BlockOf(s, i) : i \in {j \in DOMAIN s : s[j] # Blank}}

TypeOfBlock(s, b) ==
    LET named == {i \in DOMAIN s : BlockOf(s, i) = b /\ s[i].field = "event"}
    IN  IF named = {} THEN "message" ELSE s[Max(named)].type

\* The texts in the data lines of the events B, which are in their order.
Said(s, B) ==
    {s[i].text : i \in {j \in DOMAIN s : s[j].field = "data" /\ BlockOf(s, j) \in B}} \ {0}
InOrder(text, S) ==
    ToSet(text) = S /\ \A i, j \in DOMAIN text : i < j => text[i] < text[j]

\* The first terminal event answers, with its own text or with all that the
\* working events before it said; without one the stream has failed.
Means(s, r) ==
    LET terminal == {b \in Blocks(s) : TypeOfBlock(s, b) \in Terminal}
        first == Min(terminal)
        before == {b \in Blocks(s) : b < first /\ TypeOfBlock(s, b) = "working"}
        own == Said(s, {first})
    IN  IF terminal = {} THEN r.status = StreamClosed.status /\ r.text = StreamClosed.text
        ELSE /\ r.status = TypeOfBlock(s, first)
             /\ InOrder(r.text, IF own # {} THEN own ELSE Said(s, before))
=============================================================================
