----------------------------- MODULE MCReports -----------------------------
(* Instances of Reports for TLC; the cfgs name the sets. *)
EXTENDS Reports, TLC

\* All of these are only ever compared for equality.
Symmetry == Permutations(Uploads) \cup Permutations(Workers)
            \cup Permutations(Keys) \cup Permutations(Files)
=============================================================================
