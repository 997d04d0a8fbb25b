----------------------------- MODULE MCConsults -----------------------------
(* Instance of Consults for TLC: the values of its constants are here and  *)
(* in MCConsults.cfg.  Two consults in process; or one over A2A, of        *)
(* a name that was loaded, and one of a name that was not; or a reader.    *)
EXTENDS Consults

CONSTANTS k1, k2

Names == {"analyst", "clerk"}
Consulted == (k1 :> "analyst") @@ (k2 :> "clerk")

Own(analyst, clerk) == [analyst |-> analyst, clerk |-> clerk]
AllSetups ==
    {[own |-> Own("bus", "bus"),   cards |-> <<>>],
     [own |-> Own("bus", "async"), cards |-> <<"analyst", "clerk">>],
     [own |-> Own("none", "none"), cards |-> <<"analyst", "analyst", "clerk">>],
     [own |-> Own("none", "none"), cards |-> <<>>]}

\* Two reports of the same name with different bytes; one the other consult
\* may return too, under a name that sanitises to the same.
Returned == {<<>>,
             <<[name |-> "report.pdf", content |-> "old"], [name |-> "my notes", content |-> "n"]>>,
             <<[name |-> "report.pdf", content |-> "new"], [name |-> "my_notes", content |-> "n"]>>}
Digests == [old |-> "d0", new |-> "d1", n |-> "d2"]
SafeNames == ("report.pdf" :> "report.pdf") @@ ("my notes" :> "my_notes") @@ ("my_notes" :> "my_notes")
=============================================================================
