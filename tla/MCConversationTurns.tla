--------------------------- MODULE MCConversationTurns ---------------------------
(* Small instances of ConversationTurns. *)
EXTENDS ConversationTurns

\* Two turns side by side, or one with progress events and faults.
TurnAllowances == {[turns |-> 2, steps |-> 0, faults |-> 0],
                   [turns |-> 1, steps |-> 1, faults |-> 2]}
===============================================================================
