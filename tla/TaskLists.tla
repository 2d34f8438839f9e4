----------------------------- MODULE TaskLists -----------------------------
(***************************************************************************)
(* The ready and the sleeping list as the pointer structures they are,     *)
(* with the operations of tasks.cpp that move tasks between them.          *)
(*                                                                         *)
(* Everything that holds the scheduler lock is one step, except that the   *)
(* timer handler's walk is one step per iteration, with its local pointers *)
(* pre, task and next.  tasks_new takes no lock: it is one step per        *)
(* statement of _enqueue_task, and the timer handler may come between any  *)
(* two of them unless the caller masked interrupts (InterruptsMasked).     *)
(***************************************************************************)
EXTENDS TaskList, FiniteSets

CONSTANTS
  Main,              \* _first_task, which calls tasks_new in kernelEntry
  InterruptsMasked   \* is tasks_new called with interrupts masked?

ASSUME MainAssumption == Main \in Task
ASSUME MaskedAssumption == InterruptsMasked \in BOOLEAN
ASSUME FiniteAssumption == IsFiniteSet(Task)

VARIABLES
  current,   \* current_task
  ready,     \* tasks_ready
  sleeping,  \* tasks_sleeping
  taskNext,  \* task.next
  created,   \* the tasks that exist, or are being made by tasks_new
  walk,      \* the locals of _on_timer: pre, task, need_schedule
  making     \* the progress of a tasks_new: the task, a copy of tail

taskVars == <<current, ready, sleeping, taskNext, created, walk, making>>

NotWalking == [on |-> FALSE, pre |-> NULL, task |-> NULL, need |-> FALSE]
NotMaking == [at |-> "none", task |-> NULL, tail |-> NULL]

TaskListsTypeOK ==
  /\ current \in Pointer
  /\ ready \in ListType /\ sleeping \in ListType
  /\ taskNext \in NextType
  /\ created \subseteq Task
  /\ walk \in [on : BOOLEAN, pre : Pointer, task : Pointer, need : BOOLEAN]
  /\ making \in [at : {"none", "testHead", "setHead", "testTail", "linkTail",
                       "clearNext", "setTail"},
                 task : Pointer, tail : Pointer]

TaskListsInit ==
  /\ current = Main
  /\ ready = EmptyList /\ sleeping = EmptyList
  /\ taskNext = [t \in Task |-> NULL]
  /\ created = {Main}
  /\ walk = NotWalking
  /\ making = NotMaking

(* The code of the current task runs between operations of the scheduler.   *)
Calls(t) == current = t /\ ~walk.on /\ (t = Main => making.at = "none")

(***************************************************************************)
(* _schedule and tasks_switch_to.                                          *)
(***************************************************************************)
DequeueReady ==
  /\ current' = ready.head
  /\ ready' = DequeueList(ready, taskNext)
  /\ taskNext' = DequeueNext(ready, taskNext)

(* The list is taken from before the running task goes back into it.        *)
Switch ==
  LET rest == DequeueList(ready, taskNext)
  IN  /\ current' = ready.head
      /\ ready' = EnqueueList(rest, current)
      /\ taskNext' = EnqueueNext(rest, DequeueNext(ready, taskNext), current)

TasksSchedule(t) ==
  /\ Calls(t) /\ ready.head # NULL
  /\ Switch
  /\ UNCHANGED <<sleeping, created, walk, making>>

(* tasks_nano_sleep_until: into the sleeping list, then _schedule.          *)
NanoSleep(t) ==
  /\ Calls(t)
  /\ sleeping' = EnqueueList(sleeping, t)
  /\ LET linked == EnqueueNext(sleeping, taskNext, t)
     IN  IF ready.head = NULL
           THEN /\ current' = NULL
                /\ taskNext' = linked
                /\ UNCHANGED ready
           ELSE /\ current' = ready.head
                /\ ready' = DequeueList(ready, linked)
                /\ taskNext' = DequeueNext(ready, linked)
  /\ UNCHANGED <<created, walk, making>>

IdleWake ==
  /\ current = NULL /\ ~walk.on /\ ready.head # NULL
  /\ DequeueReady
  /\ UNCHANGED <<sleeping, created, walk, making>>

(***************************************************************************)
(* _on_timer.                                                              *)
(***************************************************************************)
OnTimer ==
  /\ ~walk.on
  /\ InterruptsMasked => making.at = "none"
  /\ walk' = [on |-> TRUE, pre |-> NULL, task |-> sleeping.head, need |-> FALSE]
  /\ UNCHANGED <<current, ready, sleeping, taskNext, created, making>>

(* Fault: _remove_task is not told the predecessor.                         *)
RemovePredecessorLost(nxt, task) == NULL
RemovePredecessor(nxt, task) == walk.pre

(* Fault: pre = task in both branches.                                      *)
WakeSleeperAdvances ==
  LET t == walk.task
      rest == RemoveNext(taskNext, t, walk.pre)
  IN  /\ walk.on /\ t # NULL
      /\ ~BogusRemove(taskNext, t, walk.pre)
      /\ sleeping' = RemoveList(sleeping, taskNext, t, walk.pre)
      /\ ready' = EnqueueList(ready, t)
      /\ taskNext' = EnqueueNext(ready, rest, t)
      /\ walk' = [walk EXCEPT !.pre = t, !.task = taskNext[t], !.need = TRUE]
      /\ UNCHANGED <<current, created, making>>
WakeSleeper ==
  LET t == walk.task
      pre == RemovePredecessor(taskNext, t)
      rest == RemoveNext(taskNext, t, pre)
  IN  /\ walk.on /\ t # NULL
      /\ ~BogusRemove(taskNext, t, pre)
      /\ sleeping' = RemoveList(sleeping, taskNext, t, pre)
      /\ ready' = EnqueueList(ready, t)
      /\ taskNext' = EnqueueNext(ready, rest, t)
      /\ walk' = [walk EXCEPT !.task = taskNext[t], !.need = TRUE]
      /\ UNCHANGED <<current, created, making>>

PassSleeper ==
  /\ walk.on /\ walk.task # NULL
  /\ walk' = [walk EXCEPT !.pre = walk.task, !.task = taskNext[walk.task]]
  /\ UNCHANGED <<current, ready, sleeping, taskNext, created, making>>

(* A woken task or an expired time slice asks for a switch.                 *)
OnTimerEnd ==
  /\ walk.on /\ walk.task = NULL
  /\ walk' = NotWalking
  /\ \/ /\ current # NULL /\ ready.head # NULL
        /\ Switch
     \/ /\ walk.need => (current = NULL \/ ready.head = NULL)
        /\ UNCHANGED <<current, ready, taskNext>>
  /\ UNCHANGED <<sleeping, created, making>>

(***************************************************************************)
(* tasks_new, from the main task: make the control block, enqueue it.      *)
(***************************************************************************)
Making(at) == current = Main /\ ~walk.on /\ making.at = at

MakeTask(t) ==
  /\ Making("none") /\ t \notin created
  /\ created' = created \cup {t}
  /\ taskNext' = [taskNext EXCEPT ![t] = NULL]
  /\ making' = [at |-> "testHead", task |-> t, tail |-> NULL]
  /\ UNCHANGED <<current, ready, sleeping, walk>>

TestHead ==
  /\ Making("testHead")
  /\ making' = [making EXCEPT !.at = IF ready.head = NULL THEN "setHead" ELSE "testTail"]
  /\ UNCHANGED <<current, ready, sleeping, taskNext, created, walk>>

SetHead ==
  /\ Making("setHead")
  /\ ready' = [ready EXCEPT !.head = making.task]
  /\ making' = [making EXCEPT !.at = "testTail"]
  /\ UNCHANGED <<current, sleeping, taskNext, created, walk>>

TestTail ==
  /\ Making("testTail")
  /\ making' = [making EXCEPT !.tail = ready.tail,
                              !.at = IF ready.tail = NULL THEN "clearNext" ELSE "linkTail"]
  /\ UNCHANGED <<current, ready, sleeping, taskNext, created, walk>>

LinkTail ==
  /\ Making("linkTail")
  /\ taskNext' = [taskNext EXCEPT ![making.tail] = making.task]
  /\ making' = [making EXCEPT !.at = "clearNext"]
  /\ UNCHANGED <<current, ready, sleeping, created, walk>>

ClearNext ==
  /\ Making("clearNext")
  /\ taskNext' = [taskNext EXCEPT ![making.task] = NULL]
  /\ making' = [making EXCEPT !.at = "setTail"]
  /\ UNCHANGED <<current, ready, sleeping, created, walk>>

(* Fault: the tail still names the old last task.                           *)
TailKept ==
  /\ Making("setTail")
  /\ making' = NotMaking
  /\ UNCHANGED <<current, ready, sleeping, taskNext, created, walk>>
SetTail ==
  /\ Making("setTail")
  /\ ready' = [ready EXCEPT !.tail = making.task]
  /\ making' = NotMaking
  /\ UNCHANGED <<current, sleeping, taskNext, created, walk>>

TasksNew ==
  \/ \E t \in Task : MakeTask(t)
  \/ TestHead \/ SetHead \/ TestTail \/ LinkTail \/ ClearNext \/ SetTail

TimerStep == OnTimer \/ WakeSleeper \/ PassSleeper \/ OnTimerEnd

TaskListsNext ==
  \/ \E t \in Task : TasksSchedule(t) \/ NanoSleep(t)
  \/ IdleWake
  \/ TimerStep
  \/ TasksNew

TaskListsSpec == TaskListsInit /\ [][TaskListsNext]_taskVars

(***************************************************************************)
(* Properties.                                                             *)
(***************************************************************************)
(* The tasks met by following the next pointers from the head.              *)
Walked(list) ==
  LET reach[i \in 1..(Cardinality(Task) + 1)] ==
        IF i = 1 THEN list.head
        ELSE IF reach[i - 1] = NULL THEN NULL ELSE taskNext[reach[i - 1]]
  IN  [i \in 1..Cardinality({i \in DOMAIN reach : reach[i] # NULL}) |-> reach[i]]

Chain(list) == IF list.head = NULL THEN <<>> ELSE Walked(list)

On(list) == {Chain(list)[i] : i \in DOMAIN Chain(list)}

(* The pointers implement the two queues: every operation does to the       *)
(* chains what it promises, whatever the lengths, and tasks_new takes       *)
(* effect at the one store that makes the task reachable.                   *)
Queues == INSTANCE TaskQueues WITH
            running <- current, readyQ <- Chain(ready), sleepQ <- Chain(sleeping)
ImplementsQueues == Queues!Spec

(* _remove_task's sanity check ("something's not right...") never panics,   *)
(* and no link that a walk may follow is uninitialised.                     *)
RemoveNeverBogus ==
  /\ TaskListsTypeOK
  /\ (walk.on /\ walk.task # NULL)
        => ~BogusRemove(taskNext, walk.task, RemovePredecessor(taskNext, walk.task))

(* Between operations every task that exists is running or can be reached   *)
(* from exactly one list, and the tails name the last tasks.                *)
NoTaskLost ==
  making.at = "none" =>
    /\ created = On(ready) \cup On(sleeping) \cup ({current} \ {NULL})
    /\ On(ready) \cap On(sleeping) = {} /\ current \notin On(ready) \cup On(sleeping)
    /\ IsList(ready, taskNext, Chain(ready)) /\ IsList(sleeping, taskNext, Chain(sleeping))
=============================================================================
