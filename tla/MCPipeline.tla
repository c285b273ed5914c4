----------------------------- MODULE MCPipeline -----------------------------
(***************************************************************************)
(* Small instances of the pipeline for TLC.                                *)
(***************************************************************************)
EXTENDS PipelineProperties, TLC

CONSTANTS e1, e2, j1, j2, p1, p2, w1, w2, f1

(* Publishers and workers are interchangeable.                             *)
Symmetry == Permutations(Publishers) \cup Permutations(Workers)
=============================================================================
