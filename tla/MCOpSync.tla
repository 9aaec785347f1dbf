------------------------------ MODULE MCOpSync ------------------------------
\* Values for the constants of OpSync.
EXTENDS OpSync, TLC

CONSTANTS d1, d2, o1, o2, o3, s1, s2

\* Request slots are interchangeable, and so are operations of one device and row.
RequestSymmetry == Permutations(Request)
FullSymmetry == Permutations(Request) \cup Permutations(Op)

\* Every operation of one device edits the same row.
OneDevice == [o \in Op |-> d1]
OneSurat  == [o \in Op |-> s1]

\* Two devices edit the same row.
TwoDevices == [o \in Op |-> IF o = o1 THEN d1 ELSE d2]

\* Clocks in step with the server's, and one that runs ahead of it.
InStep == [d \in Device |-> 0]
Ahead  == [d \in Device |-> IF d = d1 THEN 1 ELSE 0]
=============================================================================
