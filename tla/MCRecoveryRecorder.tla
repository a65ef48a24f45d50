-------------------------- MODULE MCRecoveryRecorder --------------------------
(* Small instances of RecoveryRecorder.                                    *)
EXTENDS RecoveryRecorder, TLC

Symmetry == Permutations(Lanes) \cup Permutations(Keys) \cup Permutations(Records)
              \cup Permutations(Versions)
=============================================================================
