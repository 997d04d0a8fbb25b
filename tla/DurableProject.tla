--------------------------- MODULE DurableProject ----------------------------
(***************************************************************************)
(* What is left of AtomicProject when publications can be lost and notes   *)
(* that are no actions share the history.  Actions still commit one at a   *)
(* time, each allowed by its show_when in exactly the state all its        *)
(* predecessors left, published or not; while some of them are not         *)
(* published, only their author commits; and what is published is          *)
(* everything committed so far.  All of this is promised until somebody    *)
(* forces an entry.                                                        *)
(***************************************************************************)
EXTENDS Naturals, Sequences

CONSTANTS Exec,         \* executions: records with fields by and action
          Actions,      \* what makes an event of the history an action
          Once,         \* actions that are only allowed once
          Seeds         \* what has been committed and published already

VARIABLES history,      \* committed actions and notes, in commit order
          published,    \* the effects a reader of the project finds
          forced        \* whether an entry has been forced

vars == <<history, published, forced>>

CommittedBy(n) == {e \in {history[i] : i \in 1..n} : e.action \in Actions}
Committed == CommittedBy(Len(history))
Unpublished == Committed \ published

Allowed(e) == e.action \in Once => \A f \in Committed : f.action # e.action

Init == history = Seeds /\ published = Committed /\ forced = FALSE

Commit(e) ==
    /\ history' = Append(history, e)
    /\ e.action \in Actions
    /\ e \notin Committed
    /\ Allowed(e)
    /\ \A f \in Unpublished : f.by = e.by
    /\ UNCHANGED published

Note ==
    /\ Len(history') = Len(history) + 1
    /\ history' = Append(history, history'[Len(history')])
    /\ history'[Len(history')].action \notin Actions
    /\ UNCHANGED published

Publish == published' = Committed /\ UNCHANGED history

Promised == Note \/ Publish \/ \E e \in Exec : Commit(e)

Next == forced' \/ (~forced /\ ~forced' /\ Promised)

Spec == Init /\ [][Next]_vars

-----------------------------------------------------------------------------
(* What follows from the promise alone, whoever keeps it.                  *)

\* An action that is allowed once has been committed at most once.
OnlyOnce ==
    forced \/ \A i, j \in 1..Len(history) :
                 history[i].action = history[j].action /\ history[i].action \in Once
                   => i = j

\* A reader finds exactly what was committed up to some point.
PublishedIsPast ==
    forced \/ \E n \in 0..Len(history) : published = CommittedBy(n)

\* All that is committed and not published is of one author.
OneAuthor == forced \/ \A e, f \in Unpublished : e.by = f.by
=============================================================================
