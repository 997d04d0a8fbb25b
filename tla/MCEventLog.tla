----------------------------- MODULE MCEventLog -----------------------------
(* Instance of EventSearch for TLC: the values of its constants are in     *)
(* MCEventLog.cfg.  Three clients contend for two projects; the reader     *)
(* pages through one, for all of its events or for those of two clients.   *)
EXTENDS EventSearch

CONSTANTS c1, c2, p1

ReaderQueries == [project : {p1}, clients : {Clients, {c1, c2}}]
=============================================================================
