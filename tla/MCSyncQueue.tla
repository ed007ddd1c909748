----------------------------- MODULE MCSyncQueue ------------------------------
(* Small instances of SyncQueue. *)
EXTENDS SyncQueue

CONSTANTS j1, j2, l1, l2, w1

\* Both lanes run in one process and share its worker id, as in production.
SharedWorker == [l \in Lane |-> w1]

\* One job of the first queue a lane polls, one of the last.
FirstAndLast == [j \in Job |-> IF j = j1 THEN 1 ELSE 3]
===============================================================================
