------------------------------ MODULE CxaGuard ------------------------------
(***************************************************************************)
(* Support/cxa_guard.cpp: tasks that reach static objects for the first    *)
(* time.  One mutex protects all initialisations and is held while a       *)
(* constructor runs; it is not recursive.  Constructors may need other     *)
(* static objects, and may fail (__cxa_guard_abort).                       *)
(***************************************************************************)
EXTENDS Integers, Sequences

GX == INSTANCE SequencesExt

CONSTANTS
  User,      \* tasks
  Object,    \* static objects, each with a guard
  NoUser

ASSUME GuardAssumption == NoUser \notin User

VARIABLES
  cxaGuard,      \* holder of the mutex
  initialized, inuse,   \* bits of the guards: sets of objects
  doing,         \* stack of <<object, step>> of a task, the innermost last
  built,         \* history: objects whose constructor ran to its end
  aborts,        \* history: an initialisation was aborted
  guardPanic     \* "__guard in bad state"

guardVars == <<cxaGuard, initialized, inuse, doing, built, aborts, guardPanic>>

GuardInit ==
  /\ cxaGuard = NoUser /\ initialized = {} /\ inuse = {}
  /\ doing = [t \in User |-> <<>>]
  /\ built = [o \in Object |-> 0] /\ aborts = FALSE /\ guardPanic = FALSE

In(t, o, step) == ~guardPanic /\ doing[t] # <<>> /\ GX!Last(doing[t]) = <<o, step>>
Goto(t, o, step) == doing' = [doing EXCEPT ![t] = Append(GX!Front(@), <<o, step>>)]
Leave(t) == doing' = [doing EXCEPT ![t] = GX!Front(@)]

(* Code that uses the object: at top level, or in another's constructor.     *)
Reach(t, o) ==
  /\ ~guardPanic
  /\ doing[t] # <<>> => GX!Last(doing[t])[2] = "construct"
  /\ \A i \in DOMAIN doing[t] : doing[t][i][1] # o
  /\ doing' = [doing EXCEPT ![t] = Append(@, <<o, IF o \in initialized THEN "use" ELSE "lock">>)]
  /\ UNCHANGED <<cxaGuard, initialized, inuse, built, aborts, guardPanic>>

Use(t, o) ==
  /\ In(t, o, "use") /\ Leave(t)
  /\ UNCHANGED <<cxaGuard, initialized, inuse, built, aborts, guardPanic>>

GuardLock(t, o) ==
  /\ In(t, o, "lock") /\ cxaGuard = NoUser
  /\ cxaGuard' = t /\ Goto(t, o, "check")
  /\ UNCHANGED <<initialized, inuse, built, aborts, guardPanic>>

(* Fault: the state is not looked at again under the lock.                   *)
CheckOnlyOnce(t, o) ==
  /\ In(t, o, "check")
  /\ inuse' = inuse \cup {o} /\ Goto(t, o, "construct")
  /\ UNCHANGED <<cxaGuard, initialized, built, aborts, guardPanic>>
(* The rest of __cxa_guard_acquire                                          *)
Check(t, o) ==
  /\ In(t, o, "check")
  /\ \/ /\ o \in initialized
        /\ cxaGuard' = NoUser /\ Goto(t, o, "use") /\ UNCHANGED <<inuse, guardPanic>>
     \/ /\ o \notin initialized /\ o \in inuse
        /\ guardPanic' = TRUE /\ UNCHANGED <<cxaGuard, inuse, doing>>
     \/ /\ o \notin initialized /\ o \notin inuse
        /\ inuse' = inuse \cup {o} /\ Goto(t, o, "construct")
        /\ UNCHANGED <<cxaGuard, guardPanic>>
  /\ UNCHANGED <<initialized, built, aborts>>

Constructed(t, o) ==
  /\ In(t, o, "construct") /\ Goto(t, o, "release")
  /\ built' = [built EXCEPT ![o] = @ + 1]
  /\ UNCHANGED <<cxaGuard, initialized, inuse, aborts, guardPanic>>

(* __cxa_guard_release: the bit, then the mutex.  Fault: the other order,    *)
(* with a look at the guard in between.                                      *)
UnlockFirst(t, o) ==
  \/ /\ In(t, o, "release") /\ Goto(t, o, "unlock") /\ cxaGuard' = NoUser
     /\ UNCHANGED <<initialized, inuse, built, aborts, guardPanic>>
  \/ /\ In(t, o, "unlock") /\ Goto(t, o, "use") /\ initialized' = initialized \cup {o}
     /\ UNCHANGED <<cxaGuard, inuse, built, aborts, guardPanic>>
GuardRelease(t, o) ==
  \/ /\ In(t, o, "release") /\ Goto(t, o, "unlock") /\ initialized' = initialized \cup {o}
     /\ UNCHANGED <<cxaGuard, inuse, built, aborts, guardPanic>>
  \/ /\ In(t, o, "unlock") /\ Goto(t, o, "use") /\ cxaGuard' = NoUser
     /\ UNCHANGED <<initialized, inuse, built, aborts, guardPanic>>

(* __cxa_guard_abort: the mutex, then the bit                               *)
GuardAbort(t, o) ==
  \/ /\ In(t, o, "construct") /\ Goto(t, o, "abort")
     /\ cxaGuard' = NoUser /\ aborts' = TRUE
     /\ UNCHANGED <<initialized, inuse, built, guardPanic>>
  \/ /\ In(t, o, "abort") /\ Leave(t) /\ inuse' = inuse \ {o}
     /\ UNCHANGED <<cxaGuard, initialized, built, aborts, guardPanic>>

GuardNext ==
  \E t \in User, o \in Object :
    \/ Reach(t, o) \/ Use(t, o) \/ GuardLock(t, o) \/ Check(t, o)
    \/ Constructed(t, o) \/ GuardRelease(t, o) \/ GuardAbort(t, o)

GuardSpec == GuardInit /\ [][GuardNext]_guardVars

(***************************************************************************)
(* Properties.                                                             *)
(***************************************************************************)
(* Whatever tasks race for it, an object is constructed to its end at most   *)
(* once, and nobody uses it before that.                                    *)
BuiltOnceBeforeUse ==
  /\ \A o \in Object : built[o] <= 1
  /\ \A t \in User, o \in Object : In(t, o, "use") => built[o] = 1

(* The panic in acquire needs an aborted initialisation: between its unlock  *)
(* and its clearing of the bit another task may find the guard in use.       *)
PanicNeedsAbort == guardPanic => aborts

(* A task waits for a mutex that it holds itself only if a constructor needs *)
(* another object that is not initialised: the case that the comment in the  *)
(* code wants a recursive mutex for.                                        *)
SelfWaitNeedsNesting ==
  \A t \in User, o \in Object :
    (In(t, o, "lock") /\ cxaGuard = t) =>
      \E i \in 1..(Len(doing[t]) - 1) : doing[t][i][2] = "construct"

(* The guards keep their promise to racing tasks, and the two ways in which  *)
(* they stop a task for good have the causes the code admits.               *)
GuardsHold == BuiltOnceBeforeUse /\ PanicNeedsAbort /\ SelfWaitNeedsNesting

(* "All static object initializations are protected by the single, global,   *)
(* recursive mutex": a constructor that needs another object which is not    *)
(* initialised gets the mutex again.  It is not recursive, as the FIXME next *)
(* to the sentence says, and the task waits for itself.                      *)
NestedInitialisation == \A t \in User, o \in Object : In(t, o, "lock") => cxaGuard # t
=============================================================================
