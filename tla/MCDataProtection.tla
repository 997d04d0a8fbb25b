-------------------------- MODULE MCDataProtection --------------------------
(* Instance of DataProtection for TLC: the values of its constants are in  *)
(* MCDataProtection.cfg.  Addresses and versions are interchangeable.      *)
EXTENDS DataProtection, TLC

Interchangeable == Permutations(Emails) \cup Permutations(Versions)
=============================================================================
