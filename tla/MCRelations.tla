----------------------------- MODULE MCRelations -----------------------------
\* Symmetries for the run of Relations.
EXTENDS Relations, TLC

Symmetry == Permutations(Surat \ Secret) \cup Permutations(Ref) \cup Permutations(Cc)
              \cup Permutations(Request)
=============================================================================
