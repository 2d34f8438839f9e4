--------------------------- MODULE SchedulerLock ---------------------------
(***************************************************************************)
(* The scheduler lock of Kernel/Scheduler/tasks.cpp and the context switch *)
(* it protects, statement by statement.                                    *)
(*                                                                         *)
(* The kernel runs on one CPU.  Its only protection is the interrupt flag: *)
(* _aquire_scheduler_lock masks interrupts and counts two things, how many *)
(* sections are open (_scheduler_postpone_count) and how many holds there  *)
(* are on the interrupt flag (_scheduler_lock).  A request to schedule     *)
(* inside a section is only noted (_scheduler_postponed); the outermost    *)
(* release serves it, and the task that is switched in drops the hold of   *)
(* the task that was switched out.                                         *)
(*                                                                         *)
(* Every action is a piece of code that runs on the stack of the task cpu, *)
(* the interrupt handlers included: they run on the interrupted stack.     *)
(* Which tasks the lists hold, and in which order, is the business of      *)
(* module Scheduler; here a READY task is one that a dequeue may return.   *)
(***************************************************************************)
EXTENDS Integers

CONSTANTS
  Task,      \* the task control blocks
  First,     \* _first_task, the one kernelEntry runs on
  MaxNest,   \* bound: open _aquire_scheduler_lock sections on one stack
  MaxIrq     \* bound: interrupt frames on one stack

ASSUME FirstAssumption == First \in Task
ASSUME NestAssumption == MaxNest \in Nat \ {0}
ASSUME IrqAssumption == MaxIrq \in Nat \ {0}

VARIABLES
  interrupts,      \* the CPU's interrupt flag
  scheduler_lock,  \* _scheduler_lock
  postpone_count,  \* _scheduler_postpone_count
  postponed,       \* _scheduler_postponed
  cpu,             \* the task whose stack the CPU is running on
  idling,          \* current_task = NULL: cpu is only borrowed by the idle loop
  state,           \* task.state
  pc,              \* where the code on a task's stack stands
  nest,            \* sections opened on a task's stack and not yet released
  irq              \* interrupt frames on a task's stack, the idle loop's excepted

vars == <<interrupts, scheduler_lock, postpone_count, postponed, cpu, idling,
          state, pc, nest, irq>>
lockVars == <<interrupts, scheduler_lock, postpone_count>>

(* WAITING stands for SLEEPING, BLOCKED and PAUSED; UNUSED is a control     *)
(* block no task lives in: not created yet, or freed by the cleaner.        *)
States == {"UNUSED", "RUNNING", "READY", "WAITING", "STOPPED"}

(* "fresh": a stack made by tasks_new, that returns into _task_starting;    *)
(* "code": C code outside the steps below; "schedule": the outermost        *)
(* release is about to call _schedule; "unlock": it is about to drop its    *)
(* hold on _scheduler_lock, and a task that is switched out is suspended    *)
(* there; "halted": the hlt of the idle loop.                               *)
Points == {"fresh", "code", "schedule", "unlock", "halted"}

TypeOK ==
  /\ interrupts \in BOOLEAN
  /\ scheduler_lock \in Nat
  /\ postpone_count \in Nat
  /\ postponed \in BOOLEAN
  /\ cpu \in Task
  /\ idling \in BOOLEAN
  /\ state \in [Task -> States]
  /\ pc \in [Task -> Points]
  /\ nest \in [Task -> 0..MaxNest]
  /\ irq \in [Task -> 0..MaxIrq]

(* What tasks_init leaves behind, with interrupts on as in kernelEntry.     *)
Init ==
  /\ interrupts = TRUE
  /\ scheduler_lock = 0
  /\ postpone_count = 0
  /\ postponed = FALSE
  /\ cpu = First
  /\ idling = FALSE
  /\ state = [t \in Task |-> IF t = First THEN "RUNNING" ELSE "UNUSED"]
  /\ pc = [t \in Task |-> IF t = First THEN "code" ELSE "fresh"]
  /\ nest = [t \in Task |-> 0]
  /\ irq = [t \in Task |-> 0]

Ready == {t \in Task : state[t] = "READY"}
InCode == pc[cpu] = "code"
InSection == InCode /\ nest[cpu] > 0

(***************************************************************************)
(* The lock.                                                               *)
(***************************************************************************)
AquireSchedulerLock ==
  /\ InCode
  /\ nest[cpu] < MaxNest
  /\ interrupts' = FALSE
  /\ postpone_count' = postpone_count + 1
  /\ scheduler_lock' = scheduler_lock + 1
  /\ nest' = [nest EXCEPT ![cpu] = @ + 1]
  /\ UNCHANGED <<postponed, cpu, idling, state, pc, irq>>

(* The test of the outermost release, after the decrement.                  *)
OutermostBeforeDecrement == postpone_count = 0
Outermost == postpone_count' = 0

(* _release_scheduler_lock up to the call of _schedule, if it makes one.    *)
ReleaseSchedulerLock ==
  /\ InSection
  /\ postpone_count' = postpone_count - 1
  /\ nest' = [nest EXCEPT ![cpu] = @ - 1]
  /\ IF Outermost /\ postponed
       THEN /\ postponed' = FALSE
            /\ pc' = [pc EXCEPT ![cpu] = "schedule"]
       ELSE /\ UNCHANGED postponed
            /\ pc' = [pc EXCEPT ![cpu] = "unlock"]
  /\ UNCHANGED <<interrupts, scheduler_lock, cpu, idling, state, irq>>

(* Faults: sti before the last hold is gone; a new task that keeps the      *)
(* hold; a new task that goes through all of _release_scheduler_lock.       *)
DropHoldEarlySti ==
  /\ pc[cpu] \in {"unlock", "fresh"}
  /\ scheduler_lock' = scheduler_lock - 1
  /\ interrupts' = TRUE
  /\ pc' = [pc EXCEPT ![cpu] = "code"]
  /\ UNCHANGED <<postpone_count, postponed, cpu, idling, state, nest, irq>>
DropHoldNotAtStart ==
  /\ pc[cpu] \in {"unlock", "fresh"}
  /\ scheduler_lock' = scheduler_lock - (IF pc[cpu] = "fresh" THEN 0 ELSE 1)
  /\ interrupts' = (interrupts \/ scheduler_lock' = 0)
  /\ pc' = [pc EXCEPT ![cpu] = "code"]
  /\ UNCHANGED <<postpone_count, postponed, cpu, idling, state, nest, irq>>
DropHoldReleases ==
  /\ pc[cpu] \in {"unlock", "fresh"}
  /\ scheduler_lock' = scheduler_lock - 1
  /\ postpone_count' = postpone_count - (IF pc[cpu] = "fresh" THEN 1 ELSE 0)
  /\ interrupts' = (interrupts \/ scheduler_lock' = 0)
  /\ pc' = [pc EXCEPT ![cpu] = "code"]
  /\ UNCHANGED <<postponed, cpu, idling, state, nest, irq>>

(* The end of _release_scheduler_lock, and all of _task_starting.           *)
DropHold ==
  /\ pc[cpu] \in {"unlock", "fresh"}
  /\ scheduler_lock' = scheduler_lock - 1
  /\ interrupts' = (interrupts \/ scheduler_lock' = 0)
  /\ pc' = [pc EXCEPT ![cpu] = "code"]
  /\ UNCHANGED <<postpone_count, postponed, cpu, idling, state, nest, irq>>

(***************************************************************************)
(* _schedule.  Inside a section it only leaves a note.                     *)
(***************************************************************************)
PostponeSchedule ==
  /\ InSection
  /\ postpone_count # 0
  /\ postponed' = TRUE
  /\ UNCHANGED <<lockVars, cpu, idling, state, pc, nest, irq>>

(* What tasks_switch_to makes of the state of the task it switches out.     *)
RequeuedAlways(s) == "READY"
Requeued(s) == IF s = "RUNNING" THEN "READY" ELSE s

(* tasks_switch_to(next): only a task that was running goes back to READY.  *)
SwitchTo(next) ==
  /\ state' = [[state EXCEPT ![cpu] = Requeued(@)]
                      EXCEPT ![next] = "RUNNING"]
  /\ pc' = [pc EXCEPT ![cpu] = "unlock"]
  /\ cpu' = next

(* Fault: the idle check (current_task = NULL) is gone.                     *)
SwitchWhileIdle ==
  /\ pc[cpu] = "schedule" /\ postpone_count = 0
  /\ idling' = FALSE
  /\ \E next \in Ready : SwitchTo(next)
  /\ UNCHANGED <<lockVars, postponed, nest, irq>>

(* An interrupt handler asked for a switch while the CPU idles.             *)
ScheduleWhileIdle ==
  /\ pc[cpu] = "schedule" /\ postpone_count = 0
  /\ idling
  /\ pc' = [pc EXCEPT ![cpu] = "unlock"]
  /\ UNCHANGED <<lockVars, postponed, cpu, idling, state, nest, irq>>

ScheduleSame ==
  /\ pc[cpu] = "schedule" /\ postpone_count = 0
  /\ ~idling
  /\ Ready = {} /\ state[cpu] = "RUNNING"
  /\ pc' = [pc EXCEPT ![cpu] = "unlock"]
  /\ UNCHANGED <<lockVars, postponed, cpu, idling, state, nest, irq>>

(* Nothing to run: borrow this stack, sti, hlt.                             *)
ScheduleIdle ==
  /\ pc[cpu] = "schedule" /\ postpone_count = 0
  /\ ~idling
  /\ Ready = {} /\ state[cpu] # "RUNNING"
  /\ idling' = TRUE
  /\ interrupts' = TRUE
  /\ pc' = [pc EXCEPT ![cpu] = "halted"]
  /\ UNCHANGED <<scheduler_lock, postpone_count, postponed, cpu, state, nest, irq>>

ScheduleSwitch ==
  /\ pc[cpu] = "schedule" /\ postpone_count = 0
  /\ ~idling
  /\ \E next \in Ready : SwitchTo(next)
  /\ UNCHANGED <<lockVars, postponed, idling, nest, irq>>

(* The idle loop wakes, masks interrupts and finds a task.                  *)
IdleWake ==
  /\ pc[cpu] = "halted"
  /\ interrupts' = FALSE
  /\ idling' = FALSE
  /\ \E next \in Ready : SwitchTo(next)
  /\ UNCHANGED <<scheduler_lock, postpone_count, postponed, nest, irq>>

(***************************************************************************)
(* What sections do to task states.                                        *)
(***************************************************************************)
(* Fault: the task changes its state and never asks for a switch.           *)
BlockWithoutSchedule(reason) ==
  /\ InSection
  /\ ~idling
  /\ state[cpu] = "RUNNING"
  /\ state' = [state EXCEPT ![cpu] = reason]
  /\ UNCHANGED <<lockVars, postponed, cpu, idling, pc, nest, irq>>

(* tasks_block_current, tasks_nano_sleep_until and tasks_exit: give up the  *)
(* CPU and call _schedule, all under the lock.                              *)
BlockCurrent(reason) ==
  /\ InSection
  /\ ~idling
  /\ state[cpu] = "RUNNING"
  /\ reason = "STOPPED" => irq[cpu] = 0
  /\ state' = [state EXCEPT ![cpu] = reason]
  /\ postponed' = TRUE
  /\ UNCHANGED <<lockVars, cpu, idling, pc, nest, irq>>

(* tasks_unblock and _wakeup.  The idle loop's own task may be woken.       *)
Wakeup(t) ==
  /\ InSection
  /\ state[t] = "WAITING" /\ (t # cpu \/ idling)
  /\ state' = [state EXCEPT ![t] = "READY"]
  /\ UNCHANGED <<lockVars, postponed, cpu, idling, pc, nest, irq>>

(* tasks_new, which takes no lock.                                          *)
TasksNew(t) ==
  /\ InCode /\ ~idling /\ state[cpu] = "RUNNING"
  /\ state[t] = "UNUSED"
  /\ state' = [state EXCEPT ![t] = "READY"]
  /\ pc' = [pc EXCEPT ![t] = "fresh"]
  /\ irq' = [irq EXCEPT ![t] = 0]
  /\ UNCHANGED <<lockVars, postponed, cpu, idling, nest>>

(* _clean_stopped_task: the stack page and the control block are freed.     *)
CleanStoppedTask(t) ==
  /\ InSection /\ ~idling /\ state[cpu] = "RUNNING"
  /\ state[t] = "STOPPED"
  /\ state' = [state EXCEPT ![t] = "UNUSED"]
  /\ UNCHANGED <<lockVars, postponed, cpu, idling, pc, nest, irq>>

(***************************************************************************)
(* Interrupts: the gate masks them, iret restores the flag that was set.   *)
(***************************************************************************)
InterruptTask ==
  /\ interrupts /\ InCode
  /\ irq[cpu] < MaxIrq
  /\ interrupts' = FALSE
  /\ irq' = [irq EXCEPT ![cpu] = @ + 1]
  /\ UNCHANGED <<scheduler_lock, postpone_count, postponed, cpu, idling, state, pc, nest>>

ReturnToTask ==
  /\ InCode /\ ~idling /\ nest[cpu] = 0
  /\ irq[cpu] > 0
  /\ irq' = [irq EXCEPT ![cpu] = @ - 1]
  /\ interrupts' = TRUE
  /\ UNCHANGED <<scheduler_lock, postpone_count, postponed, cpu, idling, state, pc, nest>>

InterruptIdle ==
  /\ interrupts /\ pc[cpu] = "halted"
  /\ interrupts' = FALSE
  /\ pc' = [pc EXCEPT ![cpu] = "code"]
  /\ UNCHANGED <<scheduler_lock, postpone_count, postponed, cpu, idling, state, nest, irq>>

ReturnToIdle ==
  /\ InCode /\ idling /\ nest[cpu] = 0
  /\ interrupts' = TRUE
  /\ pc' = [pc EXCEPT ![cpu] = "halted"]
  /\ UNCHANGED <<scheduler_lock, postpone_count, postponed, cpu, idling, state, nest, irq>>

Next ==
  \/ AquireSchedulerLock
  \/ ReleaseSchedulerLock
  \/ DropHold
  \/ PostponeSchedule
  \/ ScheduleWhileIdle
  \/ ScheduleSame
  \/ ScheduleIdle
  \/ ScheduleSwitch
  \/ IdleWake
  \/ \E reason \in {"WAITING", "STOPPED"} : BlockCurrent(reason)
  \/ \E t \in Task : Wakeup(t) \/ TasksNew(t) \/ CleanStoppedTask(t)
  \/ InterruptTask
  \/ ReturnToTask
  \/ InterruptIdle
  \/ ReturnToIdle

Spec == Init /\ [][Next]_vars

(***************************************************************************)
(* Properties.                                                             *)
(***************************************************************************)
(* While any section is open, on whichever stack, no interrupt can arrive:  *)
(* _scheduler_lock > 0 keeps the flag cleared.  The idle loop's sti; hlt is *)
(* the one exception, and there the hold is the idle loop's own.            *)
SectionsMasked == interrupts => (scheduler_lock = 0 \/ pc[cpu] = "halted")

(* A task that has left its sections and its interrupt handlers runs with   *)
(* interrupts on and both counters at zero, however many switches through   *)
(* other tasks' sections lie between: holds dropped by the task switched in *)
(* always balance the holds taken by the task switched out.                 *)
PreemptibleOutside ==
  (InCode /\ ~idling /\ nest[cpu] = 0 /\ irq[cpu] = 0)
     => (interrupts /\ scheduler_lock = 0 /\ postpone_count = 0)

(* A task that blocked, slept or exited inside nested sections runs no code *)
(* after its last release: the postponed _schedule takes the CPU away.      *)
BlockedLeavesCpu ==
  (InCode /\ ~idling /\ nest[cpu] = 0) => state[cpu] = "RUNNING"

(* No request to schedule outlives the outermost release.                   *)
NoRequestForgotten == postponed => nest[cpu] > 0

(* The CPU changes stacks only where the incoming task's one DropHold       *)
(* settles the account: no open section, exactly one hold, flag cleared.    *)
SwitchesBalanced ==
  [][cpu' # cpu => /\ postpone_count = 0
                   /\ scheduler_lock = 1
                   /\ ~interrupts']_vars

(* A task that called tasks_exit never runs again; its stack is freed only  *)
(* when the CPU has left it, by the idle loop as well.                      *)
StoppedIsFinal ==
  [][\A t \in Task : state[t] = "STOPPED" =>
        \/ state'[t] = "STOPPED"
        \/ state'[t] = "UNUSED" /\ cpu # t]_vars
=============================================================================
