---------------------------- MODULE MCTaskLists ----------------------------
(* TaskLists on the main task and four tasks it creates.                    *)
EXTENDS TaskLists

CONSTANTS main, t1, t2, t3, t4

MCTask == {main, t1, t2, t3, t4}
=============================================================================
