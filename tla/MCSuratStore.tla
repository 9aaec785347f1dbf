---------------------------- MODULE MCSuratStore ----------------------------
EXTENDS SuratStore, TLC

Symmetry == Permutations(Tx) \cup Permutations(Nomor)
=============================================================================
