--------------------------- MODULE MCRecoveryStore ---------------------------
(* Small instances of RecoveryStore.                                       *)
EXTENDS RecoveryStore, TLC

Symmetry == Permutations(Agents) \cup Permutations(Records)

\* States are told apart up to the headers of leases that are gone and that no
\* call refers to: the next record of that name starts without one.
Referred == directories \cup {call[a].record : a \in Agents}
View == <<directories, leases, headers \cap Referred, manifests, contents, locks, owners, call>>
=============================================================================
