----------------------------- MODULE MessageBus -----------------------------
(***************************************************************************)
(* One topic of the in-memory request/reply bus (messaging.py): workers    *)
(* that subscribe, serve and stop, and the requests their handlers run.    *)
(*                                                                         *)
(* A handler is a coroutine a request awaits; asyncio.timeout cancels it.  *)
(***************************************************************************)
EXTENDS Naturals, FiniteSets

CONSTANTS Requests,    \* requests on the topic
          Workers,     \* MessagingSubagentWorkers
          None

ASSUME NoneApart == None \notin Workers \cup Requests

VARIABLES handler,     \* _handlers.get(topic)
          sub,         \* worker -> its Subscription: new, active, unsubscribed
          serving      \* request -> the worker whose handler it awaits

bus == <<handler, sub, serving>>

BusInit ==
    /\ handler = None
    /\ sub = [w \in Workers |-> "new"]
    /\ serving = [r \in Requests |-> None]

\* A worker starts; on a topic that has a subscriber its constructor raises.
Subscribe(w) ==
    /\ sub[w] = "new"
    /\ handler = None
    /\ handler' = w
    /\ sub' = [sub EXCEPT ![w] = "active"]
    /\ UNCHANGED serving

\* Mutant: without the _unsubscribed flag each call removes whoever is there.
Stop_Repeats(w) ==
    /\ sub[w] # "new"
    /\ handler' = None
    /\ sub' = [sub EXCEPT ![w] = "unsubscribed"]
    /\ UNCHANGED serving

\* stop(): requests that are being served go on; called again it does nothing.
Stop(w) ==
    /\ sub[w] = "active"
    /\ handler' = None
    /\ sub' = [sub EXCEPT ![w] = "unsubscribed"]
    /\ UNCHANGED serving

\* request(): the handler is looked up once, NoSubscriberError if there is none.
Request(r) ==
    /\ handler # None
    /\ serving' = [serving EXCEPT ![r] = handler]
    /\ UNCHANGED <<handler, sub>>

NoSubscriber == handler = None

\* The handler returned or raised.
Returns(r) ==
    /\ serving[r] # None
    /\ serving' = [serving EXCEPT ![r] = None]
    /\ UNCHANGED <<handler, sub>>

\* Mutant: the request gives up, its handler runs on.
Expires_RunsOn(r) ==
    /\ serving[r] # None
    /\ UNCHANGED bus

\* The timeout: the handler is cancelled.
Expires(r) ==
    /\ serving[r] # None
    /\ serving' = [serving EXCEPT ![r] = None]
    /\ UNCHANGED <<handler, sub>>

-----------------------------------------------------------------------------
\* A worker that has started and was not stopped is the one requests reach,
\* however often the workers before it are stopped again.
ActiveSubscribed == \A w \in Workers : sub[w] = "active" <=> handler = w
=============================================================================
