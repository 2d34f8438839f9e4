------------------------------- MODULE Serial -------------------------------
(***************************************************************************)
(* Devices/Serial/rs232.cpp: the receive interrupt fills a ring buffer that *)
(* read() empties.  The handler runs on the stack of the task it interrupts *)
(* and masked, until it calls unlock(): tasks_sync_unblock enables          *)
(* interrupts when it releases the scheduler lock, so that the rest of the  *)
(* handler is preempted and interrupted like any task.  The mutex is        *)
(* abstracted to its owner (Mutex has the detail); the UART is external.    *)
(***************************************************************************)
EXTENDS RingBuffer, FiniteSets

CONSTANTS
  Reader,    \* the tasks that call read()
  NoTask,    \* no owner
  Input,     \* the characters that arrive, a sequence of distinct numbers
  MaxRead,   \* bound on the count given to read()
  MaxDepth   \* bound on the frames on one stack

ASSUME SerialAssumption == Input \in Seq(Nat) /\ NoTask \notin Reader

CR == 13
NL == 10

VARIABLES
  line,      \* received by the UART, not yet read from its data register
  arrived,   \* number of characters received so far
  frames,    \* per task: its call of read() and the handlers on top of it
  owner,     \* task that holds mutex_rs232
  accepted,  \* history: what Enqueue stored, in that order
  taken,     \* history: what read() has returned
  overlap,   \* history: a ring operation began inside another
  crossed    \* history: a handler read its character inside another handler

serialVars == <<ringVars, line, arrived, frames, owner, accepted, taken, overlap, crossed>>

SerialInit ==
  /\ RingInit
  /\ line = <<>> /\ arrived = 0
  /\ frames = [t \in Reader |-> <<>>]
  /\ owner = NoTask
  /\ accepted = <<>> /\ taken = <<>>
  /\ overlap = FALSE /\ crossed = FALSE

Frame(pc, left) == [pc |-> pc, left |-> left, in |-> 0, reg |-> 0, slot |-> 0]

Depth(t) == Len(frames[t])
Top(t) == frames[t][Depth(t)]
At(t, pc) == Depth(t) > 0 /\ Top(t).pc = pc
Somewhere(pcs) == \E t \in Reader : \E i \in 1..Depth(t) : frames[t][i].pc \in pcs

Push(t, f) == frames' = [frames EXCEPT ![t] = Append(@, f)]
Pop(t) == frames' = [frames EXCEPT ![t] = SubSeq(@, 1, Len(@) - 1)]
Goto(t, f) == frames' = [frames EXCEPT ![t][Depth(t)] = f]

InEnqueue == {"store", "head", "inc"}
InDequeue == {"take", "dec"}
HasCharacter == {"enqueue"} \cup InEnqueue

RAIILock(t) == owner = NoTask /\ owner' = t
RAIIUnlock == owner' = NoTask

Histories == <<accepted, taken, overlap, crossed>>

(***************************************************************************)
(* The UART                                                                *)
(***************************************************************************)
Arrive ==
  /\ arrived < Len(Input)
  /\ arrived' = arrived + 1
  /\ line' = Append(line, Input[arrived'])
  /\ UNCHANGED <<ringVars, frames, owner, Histories>>

(* Edge triggered: no further interrupt before the handler of the last one  *)
(* has read the data register.  A task that waits for the mutex is not      *)
(* running and cannot be interrupted.                                       *)
Interrupts(t) ==
  /\ line # <<>>
  /\ ~Somewhere({"wait", "spin", "data"})
  /\ ~(At(t, "lock") /\ owner # NoTask)
  /\ Depth(t) < MaxDepth

(***************************************************************************)
(* callback: read_byte, then Enqueue.  With the mutex free, locking,       *)
(* finding received() and unlocking are one masked step.                   *)
(***************************************************************************)
CallbackFindsFree(t) ==
  /\ Interrupts(t) /\ owner = NoTask
  /\ Push(t, Frame("data", 0))
  /\ UNCHANGED <<ringVars, line, arrived, owner, Histories>>

CallbackBlocks(t) ==
  /\ Interrupts(t) /\ owner # NoTask
  /\ Push(t, Frame("wait", 0))
  /\ UNCHANGED <<ringVars, line, arrived, owner, Histories>>

CallbackLocks(t) ==
  /\ At(t, "wait") /\ RAIILock(t)
  /\ Goto(t, Frame("spin", 0))
  /\ UNCHANGED <<ringVars, line, arrived, Histories>>

Received(t) ==
  /\ At(t, "spin") /\ line # <<>>
  /\ RAIIUnlock
  /\ Goto(t, Frame("data", 0))
  /\ UNCHANGED <<ringVars, line, arrived, Histories>>

ToNewline(c) == IF c = CR THEN NL ELSE c

(* readByte(data), the conversion, and printf, which stores nothing here.   *)
ReadData(t) ==
  /\ At(t, "data") /\ line # <<>>
  /\ line' = Tail(line)
  /\ Goto(t, [Frame("enqueue", 0) EXCEPT !.in = ToNewline(Head(line))])
  /\ crossed' = (crossed \/ Somewhere(HasCharacter))
  /\ UNCHANGED <<ringVars, arrived, owner, accepted, taken, overlap>>

EnqueueTest(t) ==
  /\ At(t, "enqueue")
  /\ \/ /\ IsFull
        /\ error' = "BufferFull"
        /\ Pop(t)
        /\ UNCHANGED overlap
     \/ /\ ~IsFull
        /\ Goto(t, [Top(t) EXCEPT !.pc = "store", !.reg = length])
        /\ overlap' = (overlap \/ Somewhere(InEnqueue \cup InDequeue))
        /\ UNCHANGED error
  /\ UNCHANGED <<data, head, tail, length, answer, line, arrived, owner, accepted, taken, crossed>>

EnqueueStore(t) ==
  /\ At(t, "store")
  /\ data' = [data EXCEPT ![head] = Top(t).in]
  /\ Goto(t, [Top(t) EXCEPT !.pc = "head", !.slot = head])
  /\ accepted' = Append(accepted, Top(t).in)
  /\ UNCHANGED <<head, tail, length, error, answer, line, arrived, owner, taken, overlap, crossed>>

(* Fault: the write index is left where it is.                              *)
EnqueueSameSlot(t) ==
  /\ At(t, "head")
  /\ Goto(t, [Top(t) EXCEPT !.pc = "inc"])
  /\ UNCHANGED <<ringVars, line, arrived, owner, Histories>>
EnqueueHead(t) ==
  /\ At(t, "head")
  /\ head' = Advance(Top(t).slot)
  /\ Goto(t, [Top(t) EXCEPT !.pc = "inc"])
  /\ UNCHANGED <<data, tail, length, error, answer, line, arrived, owner, Histories>>

(* ++length: one instruction on memory, or a store of the value that the    *)
(* test loaded; a build may do either.                                      *)
EnqueueLength(t) ==
  /\ At(t, "inc")
  /\ length' \in {length + 1, Top(t).reg + 1}
  /\ Pop(t)
  /\ UNCHANGED <<data, head, tail, error, answer, line, arrived, owner, Histories>>

(***************************************************************************)
(* read                                                                    *)
(***************************************************************************)
Read(t, count) ==
  /\ Depth(t) = 0
  /\ Push(t, Frame("lock", count))
  /\ UNCHANGED <<ringVars, line, arrived, owner, Histories>>

ReadLock(t) ==
  /\ At(t, "lock") /\ RAIILock(t)
  /\ Goto(t, [Top(t) EXCEPT !.pc = "test"])
  /\ UNCHANGED <<ringVars, line, arrived, Histories>>

ReadTest(t) ==
  /\ At(t, "test")
  /\ \/ /\ Top(t).left = 0 \/ IsEmpty
        /\ Goto(t, [Top(t) EXCEPT !.pc = "unlock"])
        /\ UNCHANGED overlap
     \/ /\ Top(t).left > 0 /\ ~IsEmpty
        /\ Goto(t, [Top(t) EXCEPT !.pc = "take", !.reg = length])
        /\ overlap' = (overlap \/ Somewhere(InEnqueue))
  /\ UNCHANGED <<ringVars, line, arrived, owner, accepted, taken, crossed>>

(* Only read() moves the read index, with the mutex held.                   *)
DequeueTake(t) ==
  /\ At(t, "take")
  /\ taken' = Append(taken, data[tail])
  /\ tail' = Advance(tail)
  /\ Goto(t, [Top(t) EXCEPT !.pc = "dec"])
  /\ UNCHANGED <<data, head, length, error, answer, line, arrived, owner, accepted, overlap, crossed>>

DequeueLength(t) ==
  /\ At(t, "dec")
  /\ length' \in {length - 1, Top(t).reg - 1}
  /\ Goto(t, [Top(t) EXCEPT !.pc = "test", !.left = @ - 1])
  /\ UNCHANGED <<data, head, tail, error, answer, line, arrived, owner, Histories>>

ReadUnlock(t) ==
  /\ At(t, "unlock")
  /\ RAIIUnlock
  /\ Pop(t)
  /\ UNCHANGED <<ringVars, line, arrived, Histories>>

-----------------------------------------------------------------------------
SerialStep(t) ==
  \/ Received(t) \/ ReadData(t)
  \/ EnqueueTest(t) \/ EnqueueStore(t) \/ EnqueueHead(t) \/ EnqueueLength(t)
  \/ ReadTest(t) \/ DequeueTake(t) \/ DequeueLength(t) \/ ReadUnlock(t)

SerialNext ==
  \/ Arrive
  \/ \E t \in Reader :
       \/ CallbackFindsFree(t) \/ CallbackBlocks(t)
       \/ CallbackLocks(t) \/ ReadLock(t) \/ SerialStep(t)
       \/ \E count \in 1..MaxRead : Read(t, count)

(* No fairness: a handler that waits for the mutex may miss its wake-up      *)
(* (NoWaiterOnFreeMutex of module Mutex), so that nothing is promised to it. *)
SerialSpec == SerialInit /\ [][SerialNext]_serialVars

(***************************************************************************)
(* Properties.                                                             *)
(***************************************************************************)
(* Whatever way handlers and readers overlap, both indices stay inside the  *)
(* array: the races cost characters, never memory.                          *)
SerialIndicesSafe ==
  /\ head \in Index /\ tail \in Index /\ length \in Nat
  /\ owner \in Reader \cup {NoTask}

(* As long as no ring operation begins inside another one, what Enqueue      *)
(* stored comes out of read() complete and in order, although the handler   *)
(* enqueues outside the mutex that read() holds around Dequeue.             *)
FifoUnlessOverlap ==
  (~overlap /\ ~Somewhere(InEnqueue \cup InDequeue)) => accepted = taken \o Contents

(* Characters are stored in the order they arrived, carriage returns as     *)
(* newlines, dropped only when the buffer is full, as long as no handler    *)
(* runs between another one's readByte and its Enqueue.                     *)
ArrivalOrder ==
  ~crossed =>
    \E at \in [DOMAIN accepted -> 1..arrived] :
      \A i, j \in DOMAIN accepted :
        /\ accepted[i] = ToNewline(Input[at[i]]) /\ accepted[i] # CR
        /\ i < j => at[i] < at[j]

(* What the races between the handler and read() can and cannot do: they     *)
(* leave the indices in the array, and order and completeness are lost only  *)
(* by a handler inside a ring operation or between readByte and Enqueue.     *)
CharactersKept == SerialIndicesSafe /\ FifoUnlessOverlap /\ ArrivalOrder

(* "Inserting and removing data is done in a queue-like fashion": between    *)
(* two ring operations what was stored and not yet read is in the buffer, in *)
(* that order.  The handler enqueues outside the mutex that read() holds     *)
(* around Dequeue, and both change length.                                  *)
QueueLike == ~Somewhere(InEnqueue \cup InDequeue) => accepted = taken \o Contents

(* "Executed the provided function after locking the provided mutex": the    *)
(* region of read_byte is reached.  A handler on the stack of the task that   *)
(* holds the mutex in read() waits for itself and never reaches it.          *)
RegionReached == \A t \in Reader : At(t, "wait") => owner # t
=============================================================================
