-------------------------- MODULE MCSchedulerLock --------------------------
(***************************************************************************)
(* The two sides of an interrupt.  SchedulerLock: three tasks, sections    *)
(* nested twice, one interrupt frame on top of another.  Interrupts: the   *)
(* PICs with the timer, one line of each side of the boundary between them *)
(* and one that has no handler of its own.  Serial: a driver whose handler *)
(* takes a lock that tasks take too.  They share no state, and every       *)
(* behaviour is one of subject.                                            *)
(***************************************************************************)
EXTENDS SchedulerLock, Interrupts, MCSerial

CONSTANTS t1, t2, t3

VARIABLE subject

MCTask == {t1, t2, t3}

MCInit ==
  /\ subject \in {"lock", "interrupts", "serial"}
  /\ Init /\ InterruptInit /\ SerialInit

(* The serial port may rest, or wait for ever for a lock (RegionReached):   *)
(* deadlock is looked for in the other two.                                 *)
SerialRests == subject = "serial" /\ UNCHANGED <<subject, vars, interruptVars, serialVars>>

MCNext ==
  \/ subject = "lock" /\ Next /\ UNCHANGED <<interruptVars, serialVars, subject>>
  \/ subject = "interrupts" /\ InterruptNext /\ UNCHANGED <<vars, serialVars, subject>>
  \/ subject = "serial" /\ SerialNext /\ UNCHANGED <<vars, interruptVars, subject>>
  \/ SerialRests

InterruptsStep(A) == subject = "interrupts" /\ A

(* A line that is raised again and again, and its handler, are not starved  *)
(* by lines of higher priority; the timer is started and ticks on; a        *)
(* sleeping task gets the CPU again and again.                              *)
InterruptFairness ==
  /\ \A i \in Line : SF_interruptVars(InterruptsStep(interruptHandler(i)))
  /\ WF_interruptVars(InterruptsStep(Raise(0)))
  /\ WF_interruptVars(InterruptsStep(registerHandler(0)))
  /\ \A t \in Sleeper : SF_interruptVars(InterruptsStep(Wake(t)))

MCSpec ==
  MCInit /\ [][MCNext]_<<subject, vars, interruptVars, serialVars>> /\ InterruptFairness
=============================================================================
