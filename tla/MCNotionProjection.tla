------------------------- MODULE MCNotionProjection -------------------------
(* Instances of NotionProjection for TLC. *)
EXTENDS NotionProjection, TLC

Interchangeable == Permutations(Consumer) \cup Permutations(Page)

=============================================================================
