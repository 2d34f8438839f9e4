---------------------------- MODULE MCScheduler ----------------------------
(* Scheduler on the main task, the cleaner and three more tasks.            *)
EXTENDS Scheduler

CONSTANTS main, cleaner, t1, t2, t3, m1, m2

MCTask == {main, cleaner, t1, t2, t3}
MCSmallTask == {main, cleaner, t1, t2}
=============================================================================
