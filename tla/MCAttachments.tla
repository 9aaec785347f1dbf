---------------------------- MODULE MCAttachments ----------------------------
\* Symmetries for the run of Attachments.
EXTENDS Attachments, TLC

Symmetry == Permutations(Request) \cup Permutations(Att)
=============================================================================
