--------------------------- MODULE MCLoopHarness ---------------------------
(* Small instances of LoopHarness; the .cfg files give the constants.      *)
(* Workers are interchangeable; the run that checks liveness properties    *)
(* does not use the symmetry.                                              *)
EXTENDS LoopHarness, TLC

Symmetry == Permutations(Workers)

=============================================================================
