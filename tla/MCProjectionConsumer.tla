------------------------ MODULE MCProjectionConsumer ------------------------
(* Instances of ProjectionConsumer for TLC. *)
EXTENDS ProjectionConsumer, TLC

\* Consumer ids and content hashes are interchangeable in the safety runs.
Interchangeable == Permutations(Consumer) \cup Permutations(Hash)

=============================================================================
