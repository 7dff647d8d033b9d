-------------------------- MODULE MCDocumentQuery --------------------------
(* DocumentQuery for TLC: queries are interchangeable. *)
EXTENDS DocumentQuery, TLC

Symmetry == Permutations(Queries)
=============================================================================
