----------------------------- MODULE Scheduler -----------------------------
(***************************************************************************)
(* The task lists of Kernel/Scheduler/tasks.cpp: which task runs, and in   *)
(* which list every other task waits.                                      *)
(*                                                                         *)
(* An operation that holds the scheduler lock is one action: module        *)
(* SchedulerLock shows that interrupts stay masked while it is held and    *)
(* that the postponed _schedule runs at the outermost release.  Only the   *)
(* timer handler's walk over the sleeping list is taken apart, one action  *)
(* per iteration.  A list is the sequence of its tasks; module TaskLists   *)
(* relates it to the head, tail and next pointers of the code.             *)
(*                                                                         *)
(* Time is kept as differences: wakeup[t] is what is left until the task's *)
(* wakeup_time, elapsed is the time since _last_timer_time.                *)
(***************************************************************************)
EXTENDS Integers, Sequences

CONSTANTS
  Task,        \* the task control blocks
  Main,        \* _first_task
  Cleaner,     \* _cleaner_task
  Exiting,     \* the tasks whose entry function may return
  Sync,        \* the task_sync objects
  TimeSlice,   \* TIME_SLICE_SIZE
  MaxSleep,    \* bound: the longest sleep asked for
  NULL

ASSUME TaskAssumption ==
  /\ Main \in Task /\ Cleaner \in Task /\ Main # Cleaner
  /\ Exiting \subseteq Task \ {Main, Cleaner}
  /\ NULL \notin Task
ASSUME TimeAssumption == TimeSlice \in Nat \ {0} /\ MaxSleep \in Nat

VARIABLES
  current_task,  \* current_task, NULL while the CPU idles
  borrowed,      \* the task whose stack the idle loop borrows
  state,         \* task.state
  ready,         \* tasks_ready
  sleeping,      \* tasks_sleeping
  stopped,       \* tasks_stopped
  waiting,       \* task_sync.waiting
  wakeup,        \* task.wakeup_time, less the time now
  slice,         \* _time_slice_remaining
  elapsed,       \* the time now, less _last_timer_time
  scan,          \* _on_timer's place in the sleeping list, 0 outside it
  need_schedule  \* _on_timer's local

vars == <<current_task, borrowed, state, ready, sleeping, stopped, waiting,
          wakeup, slice, elapsed, scan, need_schedule>>
timerVars == <<scan, need_schedule>>

(* UNUSED: no task lives in this control block, its stack page is free.     *)
States == {"UNUSED", "RUNNING", "READY", "SLEEPING", "BLOCKED", "STOPPED", "PAUSED"}

Never == MaxSleep + 1  \* _wakeup's (0ULL - 1): no sleep is that long

Members(q) == {q[i] : i \in DOMAIN q}
Lesser(a, b) == IF a < b THEN a ELSE b

TypeOK ==
  /\ current_task \in Task \cup {NULL}
  /\ borrowed \in Task \cup {NULL}
  /\ state \in [Task -> States]
  /\ ready \in Seq(Task) /\ sleeping \in Seq(Task) /\ stopped \in Seq(Task)
  /\ waiting \in [Sync -> Seq(Task)]
  /\ wakeup \in [Task -> 0..Never]
  /\ slice \in 0..TimeSlice
  /\ elapsed \in 0..TimeSlice
  /\ scan \in Nat
  /\ need_schedule \in BOOLEAN

(* tasks_init: the main task runs, the cleaner is created PAUSED.           *)
Init ==
  /\ current_task = Main
  /\ borrowed = NULL
  /\ state = [t \in Task |-> CASE t = Main -> "RUNNING"
                               [] t = Cleaner -> "PAUSED"
                               [] OTHER -> "UNUSED"]
  /\ ready = <<>> /\ sleeping = <<>> /\ stopped = <<>>
  /\ waiting = [s \in Sync |-> <<>>]
  /\ wakeup = [t \in Task |-> Never]
  /\ slice = TimeSlice
  /\ elapsed = 0
  /\ scan = 0
  /\ need_schedule = FALSE

(***************************************************************************)
(* Lists.                                                                  *)
(***************************************************************************)
(* _enqueue_task.  Enqueueing a task that is in the list already makes it   *)
(* the tail where it stands: what followed it is no longer reachable.       *)
EnqueueAtHead(q, t) == <<t>> \o q
Enqueue(q, t) ==
  IF t \in Members(q)
    THEN SubSeq(q, 1, CHOOSE i \in DOMAIN q : q[i] = t)
    ELSE Append(q, t)

(* _remove_task on the i-th task.                                           *)
RemoveTask(q, i) == SubSeq(q, 1, i - 1) \o SubSeq(q, i + 1, Len(q))

(***************************************************************************)
(* _schedule, from a release with no section left open: st and rdy are the *)
(* states and the ready list the section leaves behind, since the time     *)
(* since _last_timer_time.                                                 *)
(***************************************************************************)
(* Fault: the task switched out is enqueued whatever its state.             *)
SwitchToRequeues(prev, st, rdy) ==
  /\ ready' = Enqueue(Tail(rdy), prev)
  /\ state' = [st EXCEPT ![prev] = IF @ = "RUNNING" THEN "READY" ELSE @,
                         ![Head(rdy)] = "RUNNING"]
  /\ current_task' = Head(rdy)
  /\ borrowed' = NULL
  /\ slice' = TimeSlice
  /\ elapsed' = 0
(* tasks_switch_to, for the task prev and the head of rdy.                  *)
SwitchTo(prev, st, rdy) ==
  LET next == Head(rdy)
      preempted == st[prev] = "RUNNING"
  IN  /\ ready' = IF preempted THEN Enqueue(Tail(rdy), prev) ELSE Tail(rdy)
      /\ state' = [st EXCEPT ![prev] = IF preempted THEN "READY" ELSE @,
                             ![next] = "RUNNING"]
      /\ current_task' = next
      /\ borrowed' = NULL
      /\ slice' = TimeSlice
      /\ elapsed' = 0

KeepRunning(st, rdy, since) ==
  /\ state' = st /\ ready' = rdy
  /\ slice' = TimeSlice
  /\ elapsed' = since
  /\ UNCHANGED <<current_task, borrowed>>

BeginIdle(st, rdy, since) ==
  /\ state' = st /\ ready' = rdy
  /\ slice' = 0
  /\ borrowed' = current_task
  /\ current_task' = NULL
  /\ elapsed' = since

Schedule(st, rdy, since) ==
  \/ rdy # <<>> /\ SwitchTo(current_task, st, rdy)
  \/ rdy = <<>> /\ st[current_task] = "RUNNING" /\ KeepRunning(st, rdy, since)
  \/ rdy = <<>> /\ st[current_task] # "RUNNING" /\ BeginIdle(st, rdy, since)

(* The idle loop dequeues a task after an interrupt.                        *)
IdleWake ==
  /\ scan = 0
  /\ current_task = NULL /\ ready # <<>>
  /\ SwitchTo(borrowed, state, ready)
  /\ UNCHANGED <<sleeping, stopped, waiting, wakeup, timerVars>>

(***************************************************************************)
(* The operations a task calls.  A running task executes its own code with *)
(* interrupts on, so the timer handler may come between any two of them.   *)
(***************************************************************************)
Calls(t) == scan = 0 /\ current_task = t /\ t # Cleaner

TasksNew(t, new) ==
  /\ Calls(t)
  /\ state[new] = "UNUSED"
  /\ state' = [state EXCEPT ![new] = "READY"]
  /\ ready' = Enqueue(ready, new)
  /\ UNCHANGED <<current_task, borrowed, sleeping, stopped, waiting, wakeup,
                 slice, elapsed, timerVars>>

TasksSchedule(t) ==
  /\ Calls(t)
  /\ Schedule(state, ready, elapsed)
  /\ UNCHANGED <<sleeping, stopped, waiting, wakeup, timerVars>>

(* kernelEntry's tasks_block_current(TASK_PAUSED): nobody unblocks it.      *)
BlockCurrentPaused(t) ==
  /\ Calls(t) /\ t = Main
  /\ Schedule([state EXCEPT ![t] = "PAUSED"], ready, elapsed)
  /\ UNCHANGED <<sleeping, stopped, waiting, wakeup, timerVars>>

NanoSleep(t, time) ==
  /\ Calls(t)
  /\ wakeup' = [wakeup EXCEPT ![t] = time]
  /\ sleeping' = Enqueue(sleeping, t)
  /\ Schedule([state EXCEPT ![t] = "SLEEPING"], ready, elapsed)
  /\ UNCHANGED <<stopped, waiting, timerVars>>

SyncBlock(t, s) ==
  /\ Calls(t)
  /\ waiting' = [waiting EXCEPT ![s] = Enqueue(@, t)]
  /\ Schedule([state EXCEPT ![t] = "BLOCKED"], ready, elapsed)
  /\ UNCHANGED <<sleeping, stopped, wakeup, timerVars>>

(* Every waiter is woken, in order; with none there is nothing to do.       *)
SyncUnblock(t, s) ==
  /\ Calls(t)
  /\ waiting[s] # <<>>
  /\ waiting' = [waiting EXCEPT ![s] = <<>>]
  /\ wakeup' = [u \in Task |-> IF u \in Members(waiting[s]) THEN Never ELSE wakeup[u]]
  /\ Schedule([u \in Task |-> IF u \in Members(waiting[s]) THEN "READY" ELSE state[u]],
              ready \o waiting[s], elapsed)
  /\ UNCHANGED <<sleeping, stopped, timerVars>>

(* tasks_exit: into the stopped list, wake the cleaner, switch away.        *)
ExitWithoutCleaner(t) ==
  /\ Calls(t) /\ t \in Exiting
  /\ stopped' = Enqueue(stopped, t)
  /\ Schedule([state EXCEPT ![t] = "STOPPED"], ready, elapsed)
  /\ UNCHANGED <<sleeping, waiting, wakeup, timerVars>>
TasksExit(t) ==
  /\ Calls(t) /\ t \in Exiting
  /\ stopped' = Enqueue(stopped, t)
  /\ Schedule([state EXCEPT ![t] = "STOPPED", ![Cleaner] = "READY"],
              Enqueue(ready, Cleaner), elapsed)
  /\ UNCHANGED <<sleeping, waiting, wakeup, timerVars>>

(* One iteration of _cleaner_task_impl: free every stopped task, pause.     *)
CleanerLoop ==
  /\ scan = 0 /\ current_task = Cleaner
  /\ stopped' = <<>>
  /\ Schedule([t \in Task |-> CASE t \in Members(stopped) -> "UNUSED"
                                [] t = Cleaner -> "PAUSED"
                                [] OTHER -> state[t]], ready, elapsed)
  /\ UNCHANGED <<sleeping, waiting, wakeup, timerVars>>

(***************************************************************************)
(* _on_timer.                                                              *)
(***************************************************************************)
(* Fault: a handler that does nothing while time slices are disabled.       *)
OnTimerIfSliced ==
  /\ scan = 0 /\ slice # 0
  /\ scan' = 1 /\ need_schedule' = FALSE
  /\ UNCHANGED <<current_task, borrowed, state, ready, sleeping, stopped,
                 waiting, wakeup, slice, elapsed>>
OnTimer ==
  /\ scan = 0
  /\ scan' = 1 /\ need_schedule' = FALSE
  /\ UNCHANGED <<current_task, borrowed, state, ready, sleeping, stopped,
                 waiting, wakeup, slice, elapsed>>

(* time >= task->wakeup_time                                                *)
ExpiredEarly(t) == wakeup[t] <= 1
Expired(t) == wakeup[t] = 0

WakeSleeper ==
  /\ scan \in DOMAIN sleeping
  /\ Expired(sleeping[scan])
  /\ state' = [state EXCEPT ![sleeping[scan]] = "READY"]
  /\ wakeup' = [wakeup EXCEPT ![sleeping[scan]] = Never]
  /\ ready' = Enqueue(ready, sleeping[scan])
  /\ sleeping' = RemoveTask(sleeping, scan)
  /\ need_schedule' = TRUE
  /\ UNCHANGED <<current_task, borrowed, stopped, waiting, slice, elapsed, scan>>

PassSleeper ==
  /\ scan \in DOMAIN sleeping
  /\ ~Expired(sleeping[scan])
  /\ scan' = scan + 1
  /\ UNCHANGED <<current_task, borrowed, state, ready, sleeping, stopped,
                 waiting, wakeup, slice, elapsed, need_schedule>>

(* Faults: > for >=; the whole slice for what remains of it.                *)
SliceOfWhole == elapsed > TimeSlice
SliceOverrun == elapsed > slice
(* time_delta >= _time_slice_remaining                                      *)
SliceExpired == elapsed >= slice

WantsSchedule == need_schedule \/ (slice # 0 /\ SliceExpired)

(* The end of the handler: account for the slice, schedule if asked to.     *)
OnTimerSchedule ==
  /\ scan > Len(sleeping)
  /\ current_task # NULL /\ WantsSchedule
  /\ scan' = 0 /\ need_schedule' = FALSE
  /\ Schedule(state, ready, IF slice # 0 THEN 0 ELSE elapsed)
  /\ UNCHANGED <<sleeping, stopped, waiting, wakeup>>

(* Nothing to schedule, or the CPU idles: then _schedule returns at once    *)
(* and the idle loop looks at the ready list itself.                        *)
OnTimerReturn ==
  /\ scan > Len(sleeping)
  /\ current_task = NULL \/ ~WantsSchedule
  /\ scan' = 0 /\ need_schedule' = FALSE
  /\ slice' = IF slice # 0 THEN slice - elapsed ELSE slice
  /\ elapsed' = IF slice # 0 THEN 0 ELSE elapsed
  /\ UNCHANGED <<current_task, borrowed, state, ready, sleeping, stopped,
                 waiting, wakeup>>

(* A unit of time passes.  Differences that no test tells apart any more    *)
(* stop changing.                                                           *)
Elapse ==
  /\ scan = 0
  /\ wakeup' = [t \in Task |-> IF wakeup[t] \in 1..MaxSleep THEN wakeup[t] - 1
                                                         ELSE wakeup[t]]
  /\ elapsed' = Lesser(elapsed + 1, TimeSlice)
  /\ UNCHANGED <<current_task, borrowed, state, ready, sleeping, stopped,
                 waiting, slice, timerVars>>

-----------------------------------------------------------------------------
Operation(t) ==
  \/ \E new \in Task : TasksNew(t, new)
  \/ TasksSchedule(t)
  \/ BlockCurrentPaused(t)
  \/ \E time \in 0..MaxSleep : NanoSleep(t, time)
  \/ \E s \in Sync : SyncBlock(t, s) \/ SyncUnblock(t, s)
  \/ TasksExit(t)

Timer == OnTimer \/ WakeSleeper \/ PassSleeper \/ OnTimerSchedule \/ OnTimerReturn

Next ==
  \/ \E t \in Task : Operation(t)
  \/ CleanerLoop
  \/ IdleWake
  \/ Timer
  \/ Elapse

Spec == Init /\ [][Next]_vars

(* The timer keeps interrupting and its handler ends.  Between interrupts   *)
(* time passes, and the interrupted code gets on: the idle loop when it     *)
(* finds a task, the cleaner when it is dispatched again and again.         *)
(* Nothing is assumed of the other tasks: a task may compute forever and    *)
(* never call the scheduler.                                                *)
Fairness ==
  /\ SF_vars(Elapse)
  /\ WF_vars(OnTimer)
  /\ WF_vars(WakeSleeper \/ PassSleeper \/ OnTimerSchedule \/ OnTimerReturn)
  /\ SF_vars(IdleWake)
  /\ SF_vars(CleanerLoop)

FairSpec == Spec /\ Fairness

(***************************************************************************)
(* Properties.                                                             *)
(***************************************************************************)
Distinct(q) == \A i, j \in DOMAIN q : q[i] = q[j] => i = j

(* The map of _state_lists: a READY task is in tasks_ready, a SLEEPING one  *)
(* in tasks_sleeping, a STOPPED one in tasks_stopped, a BLOCKED one in the  *)
(* list of the primitive it blocks on, each once and in no other list; the  *)
(* current task is the RUNNING one.  A task in a state without its list is  *)
(* never scheduled again.                                                   *)
StatesMatchLists ==
  /\ TypeOK
  /\ Distinct(ready) /\ Distinct(sleeping) /\ Distinct(stopped)
  /\ \A s \in Sync : Distinct(waiting[s])
  /\ \A t \in Task :
       /\ state[t] = "RUNNING" <=> t = current_task
       /\ state[t] = "READY" <=> t \in Members(ready)
       /\ state[t] = "SLEEPING" <=> t \in Members(sleeping)
       /\ state[t] = "STOPPED" <=> t \in Members(stopped)
       /\ state[t] = "BLOCKED" <=> \E s \in Sync : t \in Members(waiting[s])
  /\ \A s, r \in Sync : s # r => Members(waiting[s]) \cap Members(waiting[r]) = {}

(* READY tasks are in the ready list: the part of the map that the lists'   *)
(* double use of the cleaner puts at risk.                                  *)
ReadyTasksQueued == \A t \in Task : state[t] = "READY" => t \in Members(ready)

(* The idle loop never runs on the stack of a task the cleaner may free:    *)
(* tasks_exit makes the cleaner READY before the switch away from it.       *)
IdleStackLive ==
  current_task = NULL => state[borrowed] \notin {"UNUSED", "RUNNING", "STOPPED"}

(* Preemption is never switched off under a running task: a remaining       *)
(* slice of 0 means "no time slices" to the timer handler.                  *)
SliceArmed == current_task # NULL => slice > 0

(* No sleeper leaves the sleeping list before its time.                     *)
NoEarlyWake ==
  [][\A t \in Task : (state[t] = "SLEEPING" /\ state'[t] # "SLEEPING") => wakeup[t] = 0]_vars

(* Every READY task is dispatched: the timer preempts a task that never     *)
(* yields, and no task is overtaken forever.                                *)
ReadyRuns == \A t \in Task : state[t] = "READY" ~> state[t] = "RUNNING"

(* A sleep ends, also when it leaves the CPU idle.                          *)
SleepersWake == \A t \in Task : state[t] = "SLEEPING" ~> state[t] # "SLEEPING"

(* The stack and the control block of a task that exited are freed.         *)
StoppedCleaned == \A t \in Task : state[t] = "STOPPED" ~> state[t] = "UNUSED"
=============================================================================
