------------------------- MODULE MCPipelineHandles -------------------------
(* Small instances of PipelineHandles.  Objects and handles of one kind are *)
(* interchangeable; no property checked with this symmetry is a liveness    *)
(* property.                                                               *)
EXTENDS PipelineHandles, TLC

Symmetry ==
    Permutations(Pipelines) \cup Permutations(Streams)
    \cup Permutations(Handles) \cup Permutations(Sessions)

=============================================================================
