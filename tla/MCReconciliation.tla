-------------------------- MODULE MCReconciliation --------------------------
\* Symmetries for the runs of Reconciliation.
EXTENDS Reconciliation, TLC

SuratSymmetry == Permutations(Surat) \cup Permutations(Key)
Symmetry      == SuratSymmetry \cup Permutations(Merger)
=============================================================================
