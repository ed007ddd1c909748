--------------------------- MODULE MCBackfillLifecycle --------------------------
(* Small instances of BackfillLifecycle. *)
EXTENDS BackfillLifecycle, TLC

CONSTANTS l1, l2

Lanes == Permutations({l1, l2})
===============================================================================
