--------------------------- MODULE MCDiagnostics ---------------------------
(* Small instances of Diagnostics: two threads, sentences that fit in the   *)
(* first buffer, that need a second, and that outgrow another's second.     *)
EXTENDS Diagnostics, TLC

CONSTANTS t1, t2

Symmetry == Permutations({t1, t2})

=============================================================================
