--------------------------- MODULE MCReleaseVerifier -------------------------
\* Instance of ReleaseVerifier for TLC: operators are interchangeable.
EXTENDS ReleaseVerifier, TLC

MCSelections == {<<"C029">>, <<"C024">>, <<"C024", "C027", "C029">>, <<"C029", "C027">>}

Interchangeable == Permutations(Operators)
=============================================================================
