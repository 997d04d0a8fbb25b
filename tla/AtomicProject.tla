--------------------------- MODULE AtomicProject ----------------------------
(***************************************************************************)
(* What a project promises the callers of its actions, whatever instances  *)
(* there are and however their steps interleave: actions commit one at a   *)
(* time, each allowed by its show_when in exactly the state its            *)
(* predecessors left, each published as a whole before the next commits,   *)
(* and no other effect is ever published.                                  *)
(***************************************************************************)
EXTENDS Naturals, Sequences

CONSTANTS Exec,         \* executions: records with at least an action field
          Once,         \* actions that are only allowed once
          Seeds         \* what has been committed and published already

VARIABLES history,      \* committed executions, in commit order
          published     \* the effects a reader of the project finds

vars == <<history, published>>

Committed == {history[i] : i \in 1..Len(history)}

Allowed(e) == e.action \in Once => \A f \in Committed : f.action # e.action

Init == history = Seeds /\ published = Committed

Commit(e) ==
    /\ published = Committed
    /\ e \notin Committed
    /\ Allowed(e)
    /\ history' = Append(history, e)
    /\ UNCHANGED published

Publish ==
    /\ published' = Committed
    /\ UNCHANGED history

Next == Publish \/ \E e \in Exec : Commit(e)

Spec == Init /\ [][Next]_vars
=============================================================================
