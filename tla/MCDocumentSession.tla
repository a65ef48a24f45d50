-------------------------- MODULE MCDocumentSession --------------------------
(* Small instances of DocumentSession.                                     *)
EXTENDS DocumentSession, TLC

Symmetry == Permutations(Models) \cup Permutations(Paths)
=============================================================================
