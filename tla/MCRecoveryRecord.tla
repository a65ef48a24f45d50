--------------------------- MODULE MCRecoveryRecord ---------------------------
(* Small instances of RecoveryRecord.                                      *)
EXTENDS RecoveryRecord, TLC

Symmetry == Permutations(Versions)
=============================================================================
