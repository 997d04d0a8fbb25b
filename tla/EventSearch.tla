----------------------------- MODULE EventSearch -----------------------------
(***************************************************************************)
(* Searching the event log (event_search.py) while its writers append: the *)
(* search_event_log tool's newest-first page of matching events, and a     *)
(* reader that pages the way EventQuery documents, asking again from the   *)
(* offset after the last one it has seen.                                  *)
(*                                                                         *)
(* A query's filters come down to the clients whose events match it.       *)
(***************************************************************************)
EXTENDS EventLog, SequencesExt

CONSTANTS Queries,    \* what readers look for: a project, the clients that match
          Limit,      \* EventQuery.limit
          MaxPages    \* bound: pages a reader asks for

ASSUME QueriesTyped == Queries \subseteq [project : Projects, clients : SUBSET Clients]
ASSUME PagingNat == Limit \in Nat /\ MaxPages \in Nat

VARIABLES query,      \* the reader's, the same for all its pages
          pages,      \* the offsets on each page the reader was given
          upto        \* how long the log was when the reader last asked

reader == <<query, pages, upto>>

_matches(e, clients) == e.event # Garbled /\ e.event[1] \in clients

\* Mutant: only events after offset_from.
search_events_Exclusive(project, clients, offset_from) ==
    LET log == logs[project]
        filtered == {i \in offset_from + 2..Len(log) : _matches(log[i], clients)}
        newer(i, j) == log[i].offset > log[j].offset
        newest == {i \in filtered : Cardinality({j \in filtered : newer(j, i)}) < Limit}
        sorted == CHOOSE s \in [1..Cardinality(newest) -> newest] :
                     \A i, j \in DOMAIN s : i < j => newer(s[i], s[j])
    IN  [i \in DOMAIN sorted |-> log[sorted[i]]]

\* The newest Limit of the events that match from offset_from on, newest first.
search_events(project, clients, offset_from) ==
    LET log == logs[project]
        filtered == {i \in offset_from + 1..Len(log) : _matches(log[i], clients)}
        newer(i, j) == log[i].offset > log[j].offset
        newest == {i \in filtered : Cardinality({j \in filtered : newer(j, i)}) < Limit}
        sorted == CHOOSE s \in [1..Cardinality(newest) -> newest] :
                     \A i, j \in DOMAIN s : i < j => newer(s[i], s[j])
    IN  [i \in DOMAIN sorted |-> log[sorted[i]]]

Offsets(page) == [i \in DOMAIN page |-> page[i].offset]
OnPages == UNION {ToSet(pages[k]) : k \in DOMAIN pages}

\* offset_from = last seen + 1: None, hence 0, before anything was seen.
NextOffset == IF OnPages = {} THEN 0 ELSE Max(OnPages) + 1

-----------------------------------------------------------------------------
SearchInit ==
    /\ Init
    /\ query \in Queries
    /\ pages = <<>>
    /\ upto = 0

\* One search_event_log call: events are read once, under the log's lock.
Page ==
    /\ Len(pages) < MaxPages
    /\ pages' = Append(pages, Offsets(
                    search_events(query.project, query.clients, NextOffset)))
    /\ upto' = Len(logs[query.project])
    /\ UNCHANGED <<vars, query>>

SearchNext ==
    \/ Next /\ UNCHANGED reader
    \/ Page

SearchSpec == SearchInit /\ [][SearchNext]_<<vars, reader>> /\ Fairness

-----------------------------------------------------------------------------
(* Correctness.                                                            *)

\* "Re-query with offset_from = last_seen_offset + 1 to fetch the next page",
\* as far as it holds: each page continues where the one before ended, no event
\* comes twice, and a matching event the reader asked past is missing only if
\* it is older than everything on a page that was full, where no later page
\* can reach it.
SkippedByFullPages ==
    damage = {} =>
      LET log == logs[query.project]
          due == {i \in 0..(upto - 1) : _matches(log[i + 1], query.clients)} IN
      /\ OnPages \subseteq due
      /\ \A k, l \in DOMAIN pages : \A i \in DOMAIN pages[k], j \in DOMAIN pages[l] :
            k < l \/ (k = l /\ i > j) => pages[k][i] < pages[l][j]
      /\ \A e \in due \ OnPages : \E k \in DOMAIN pages :
            Len(pages[k]) = Limit /\ \A i \in DOMAIN pages[k] : e < pages[k][i]
=============================================================================
