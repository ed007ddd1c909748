---------------------------- MODULE MCStreamCursor ----------------------------
(* Small instances of StreamCursor. *)
EXTENDS StreamCursor, TLC

CONSTANTS l1, l2

Lanes == Permutations(Lane)
===============================================================================
