------------------------------ MODULE MCWorld -------------------------------
(* Instances of World for TLC; the values of its constants are in the .cfg *)
(* files.  A project either is new or has one event, committed by an       *)
(* earlier instance of some world.                                         *)
EXTENDS World
CONSTANTS w1, w2, edit, open
NewProject == <<>>
OldProject == <<[by |-> w1, action |-> edit, nth |-> 0, try |-> 0]>>
=============================================================================
