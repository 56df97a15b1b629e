---------------------------- MODULE MCE2ECanary ----------------------------
\* Instance of E2ECanary for TLC: operators are interchangeable.
EXTENDS E2ECanary, TLC

Interchangeable == Permutations(Operators)
=============================================================================
