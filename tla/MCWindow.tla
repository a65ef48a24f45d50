------------------------------ MODULE MCWindow ------------------------------
(* Small instances of Window.                                              *)
EXTENDS Window, TLC

Symmetry == Permutations(TabIds) \cup Permutations(Paths)
=============================================================================
