----------------------------- MODULE MCPipeline -----------------------------
(* Instances of Pipeline for TLC; the cfgs name the sets. *)
EXTENDS PipelineInvariant, TLC

\* Uploads, workers, keys and files are only ever compared for equality.
Symmetry == Permutations(Uploads) \cup Permutations(Workers)
            \cup Permutations(Keys) \cup Permutations(Files)
=============================================================================
