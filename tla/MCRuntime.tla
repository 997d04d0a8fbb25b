----------------------------- MODULE MCRuntime ------------------------------
(* Instances of Runtime for TLC: an agent's run and a direct caller on one *)
(* project, which is new or has one flushed event of the direct caller's.  *)
EXTENDS Runtime, TLC
CONSTANTS run1, user, open, note, advisor, look, status, notes
NewProject == <<>>
OldProject == <<[by |-> user, action |-> note, nth |-> 0, try |-> 0]>>
DeclaredReads == (open :> {status}) @@ (note :> {status})
DeclaredWrites == (open :> {status}) @@ (note :> {notes})
=============================================================================
