----------------------------- MODULE RingBuffer -----------------------------
(***************************************************************************)
(* Library/RingBuffer.hpp: a template over an array of S slots with a      *)
(* write index (head), a read index (tail) and a length.                   *)
(***************************************************************************)
EXTENDS Integers, Sequences

CONSTANTS
  S,      \* template parameter: number of slots
  T,      \* the values stored
  Zero,   \* T val = 0
  Unset   \* content of a slot nobody has written

ASSUME RingAssumption == S \in Nat \ {0} /\ Unset \notin T

VARIABLES
  data, head, tail, length, error,  \* the fields of the object
  answer                            \* return status and *buf of the last call

ring == <<data, head, tail, length, error>>
ringVars == <<ring, answer>>

Index == 0..(S - 1)
Errors == {"None", "InvalidValue", "BufferFull"}

RingInit ==
  /\ data = [i \in Index |-> Unset]
  /\ head = 0 /\ tail = 0 /\ length = 0 /\ error = "None"
  /\ answer = [status |-> 0, val |-> Zero]

IsEmpty == length = 0
(* Fault: full is taken to mean that the write index met the read index.    *)
FullByIndex == (head + 1) % S = tail
IsFull == length = S
Advance(i) == (i + 1) % S

Answers(status, val) == answer' = [status |-> status, val |-> val]

Enqueue(v) ==
  \/ /\ ~IsFull
     /\ data' = [data EXCEPT ![head] = v]
     /\ head' = Advance(head)
     /\ length' = length + 1
     /\ Answers(0, v)
     /\ UNCHANGED <<tail, error>>
  \/ /\ IsFull
     /\ error' = "BufferFull"
     /\ Answers(-1, v)
     /\ UNCHANGED <<data, head, tail, length>>

NothingThere ==
  /\ IsEmpty
  /\ error' = "InvalidValue"
  /\ Answers(-1, Zero)
  /\ UNCHANGED <<data, head, tail, length>>

Dequeue ==
  \/ /\ ~IsEmpty
     /\ Answers(0, data[tail])
     /\ tail' = Advance(tail)
     /\ length' = length - 1
     /\ UNCHANGED <<data, head, error>>
  \/ NothingThere

Peek ==
  \/ ~IsEmpty /\ Answers(0, data[tail]) /\ UNCHANGED ring
  \/ NothingThere

RingNext == (\E v \in T : Enqueue(v)) \/ Dequeue \/ Peek

RingSpec == RingInit /\ [][RingNext]_ringVars

(***************************************************************************)
(* Properties.                                                             *)
(***************************************************************************)
RingTypeOK ==
  /\ data \in [Index -> T \cup {Unset}]
  /\ head \in Index /\ tail \in Index /\ length \in 0..S /\ error \in Errors
  /\ answer \in [status : {0, -1}, val : T \cup {Zero}]

(* The indices and the length describe one window of the array: the write   *)
(* index is length slots after the read index, also across the end of the   *)
(* array, when the buffer is full and when it is empty again.               *)
WindowConsistent == head = (tail + length) % S

(* The k-th oldest value lies k - 1 slots after the read index.             *)
Contents == [k \in 1..length |-> data[(tail + k - 1) % S]]

BQ == INSTANCE BoundedQueue
        WITH Capacity <- S, Value <- T, queue <- Contents, reply <- answer

(* Enqueue, Dequeue and Peek are the operations of a FIFO queue of S        *)
(* values: nothing is lost, duplicated or reordered when the indices wrap,  *)
(* all S slots are usable and a refused call leaves the queue alone.        *)
RingIsQueue == BQ!QueueSpec
=============================================================================
