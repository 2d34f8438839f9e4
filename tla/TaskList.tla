------------------------------ MODULE TaskList ------------------------------
(***************************************************************************)
(* struct tasklist and its three operations: a singly linked list through  *)
(* the next field of the tasks, with a head and a tail pointer.  A list is *)
(* a record [head, tail]; nxt maps every task to its next pointer.         *)
(***************************************************************************)
EXTENDS Integers, Sequences

CONSTANTS Task, NULL

ASSUME NullAssumption == NULL \notin Task

Pointer == Task \cup {NULL}
ListType == [head : Pointer, tail : Pointer]
NextType == [Task -> Pointer]

EmptyList == [head |-> NULL, tail |-> NULL]

(* _enqueue_task(list, task)                                                *)
EnqueueList(list, task) ==
  [head |-> IF list.head = NULL THEN task ELSE list.head, tail |-> task]

EnqueueNext(list, nxt, task) ==
  [t \in Task |-> IF t = task THEN NULL
                  ELSE IF t = list.tail THEN task ELSE nxt[t]]

(* _dequeue_task(list), which returns list.head, for a list with a head     *)
DequeueList(list, nxt) ==
  [head |-> nxt[list.head],
   tail |-> IF nxt[list.head] = NULL THEN NULL ELSE list.tail]

DequeueNext(list, nxt) == [nxt EXCEPT ![list.head] = NULL]

(* _remove_task(list, task, previous); it panics on bogus arguments         *)
BogusRemove(nxt, task, previous) == previous # NULL /\ nxt[previous] # task

RemoveList(list, nxt, task, previous) ==
  [head |-> IF list.head = task THEN nxt[task] ELSE list.head,
   tail |-> IF list.tail = task THEN previous ELSE list.tail]

RemoveNext(nxt, task, previous) ==
  [t \in Task |-> IF t = task THEN NULL
                  ELSE IF t = previous THEN nxt[task] ELSE nxt[t]]

-----------------------------------------------------------------------------
(* The abstraction: the list is well formed and holds the tasks of q, in    *)
(* this order and each once.                                                *)
IsList(list, nxt, q) ==
  /\ q \in Seq(Task)
  /\ \A i, j \in 1..Len(q) : q[i] = q[j] => i = j
  /\ Len(q) = 0 => list.head = NULL /\ list.tail = NULL
  /\ Len(q) > 0 => list.head = q[1] /\ list.tail = q[Len(q)]
  /\ \A i \in 1..Len(q) : nxt[q[i]] = IF i = Len(q) THEN NULL ELSE q[i + 1]

(* The task is in none of the places of q.                                  *)
Outside(q, task) == \A i \in 1..Len(q) : q[i] # task
=============================================================================
