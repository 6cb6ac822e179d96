----------------------------- MODULE MCLifecycle -----------------------------
(***************************************************************************)
(* Small instances of Lifecycle for TLC.                                   *)
(***************************************************************************)
EXTENDS Lifecycle, TLC

CONSTANTS r1, r2, SIGINT, SIGTERM

OnMain == {Main}
OnAnyThread == Threads

Symmetry == Permutations({r1, r2})
=============================================================================
