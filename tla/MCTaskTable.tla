---------------------------- MODULE MCTaskTable -----------------------------
(* A small instance of TaskTable for TLC: the table holds a system task    *)
(* and a task that creates and deletes; others may be created.             *)
EXTENDS TaskTable

CONSTANTS d, a, b, c, x, y

MCTable == <<d, NULL, a>>
=============================================================================
