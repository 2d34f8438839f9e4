------------------------------ MODULE MCMutex ------------------------------
(* Mutex on the main task and two more, contending for one mutex or two.    *)
EXTENDS Mutex

CONSTANTS main, cleaner, t1, t2, m1, m2

MCTask == {main, cleaner, t1, t2}
=============================================================================
