----------------------------- MODULE MCPipeline -----------------------------
(* VideoPipeline for TLC: rows and workers are interchangeable.            *)
EXTENDS VideoPipeline, TLC

Symmetry == Permutations(Videos) \cup Permutations(Workers)
=============================================================================
