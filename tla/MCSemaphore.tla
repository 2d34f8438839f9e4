---------------------------- MODULE MCSemaphore ----------------------------
(* Semaphore on the main task and two more, sharing one semaphore.          *)
EXTENDS Semaphore

CONSTANTS main, cleaner, t1, t2, s1

MCTask == {main, cleaner, t1, t2}
=============================================================================
