------------------------------- MODULE MCSave -------------------------------
(* Small instances of Save.                                                *)
EXTENDS Save, TLC

Symmetry == Permutations(Savers) \cup Permutations(Inodes)
=============================================================================
