----------------------------- MODULE MCDisposisi -----------------------------
EXTENDS DisposisiCard, TLC

Symmetry == Permutations(Request) \cup Permutations(Row)
=============================================================================
