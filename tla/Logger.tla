------------------------------- MODULE Logger -------------------------------
(***************************************************************************)
(* Logger.cpp: tasks that log through one buffer.  LogHelper locks and     *)
(* unlocks its mutex in one statement, because RAIIMutex(...) names no     *)
(* object, and then formats into the buffer and hands it to the writers.   *)
(* The buffer has two halves, so that formatting and printing take time.   *)
(***************************************************************************)
EXTENDS Integers, Sequences

LOCAL SX == INSTANCE SequencesExt

CONSTANTS
  Client,         \* tasks that log
  Writer,         \* functions given to addWriter
  MaxWriters,     \* m_maxWriterCount
  Level,          \* m_logLevel
  MaxLines,       \* bound: log calls of one task
  NoOne

ASSUME LoggerAssumption == NoOne \notin Client \cup Writer /\ MaxWriters \in Nat \ {0}

VARIABLES
  logMutex,    \* holder of m_logBufferMutex
  m_writers,   \* m_writers[1..m_writersIdx]
  m_logBuffer, \* whose text each half holds
  stage,       \* where a client is in LogHelper
  slot,        \* i of LogHelperPrint
  got,         \* history: <<writer, head, tail>> of the current call
  disturbed,   \* history: buffer or writers were changed during the call
  lines        \* log calls of a client so far

logVars == <<logMutex, m_writers, m_logBuffer, stage, slot, got, disturbed, lines>>

LoggerInit ==
  /\ logMutex = NoOne /\ m_writers = <<>> /\ m_logBuffer = <<NoOne, NoOne>>
  /\ stage = [t \in Client |-> "idle"] /\ slot = [t \in Client |-> 1]
  /\ got = [t \in Client |-> <<>>] /\ disturbed = [t \in Client |-> FALSE]
  /\ lines = [t \in Client |-> 0]

LogStep(t, from, to) == stage[t] = from /\ stage' = [stage EXCEPT ![t] = to]

(* Trace .. Error: a message below the level is dropped.                     *)
Log(t, lvl) ==
  /\ lines[t] < MaxLines /\ lvl >= Level
  /\ LogStep(t, "idle", "lock")
  /\ lines' = [lines EXCEPT ![t] = @ + 1]
  /\ got' = [got EXCEPT ![t] = <<>>] /\ disturbed' = [disturbed EXCEPT ![t] = FALSE]
  /\ UNCHANGED <<logMutex, m_writers, m_logBuffer, slot>>

LogLock(t) ==
  /\ LogStep(t, "lock", "unlock") /\ logMutex = NoOne /\ logMutex' = t
  /\ UNCHANGED <<m_writers, m_logBuffer, slot, got, disturbed, lines>>

LogUnlock(t) ==
  /\ LogStep(t, "unlock", "head") /\ logMutex' = NoOne
  /\ UNCHANGED <<m_writers, m_logBuffer, slot, got, disturbed, lines>>

(* Calls that have begun to write the buffer and are not through.            *)
Busy(u) == stage[u] \in {"tail", "print", "call"}
Disturb(t) == disturbed' = [u \in Client |-> disturbed[u] \/ (u # t /\ Busy(u))]

(* ksprintf, in two steps                                                   *)
FormatHead(t) ==
  /\ LogStep(t, "head", "tail") /\ m_logBuffer' = <<t, m_logBuffer[2]>>
  /\ Disturb(t)
  /\ UNCHANGED <<logMutex, m_writers, slot, got, lines>>

(* Fault: the tag is left from the call before.                             *)
FormatHeadOnly(t) ==
  /\ LogStep(t, "tail", "print") /\ slot' = [slot EXCEPT ![t] = 1]
  /\ Disturb(t)
  /\ UNCHANGED <<logMutex, m_writers, m_logBuffer, got, lines>>
FormatTail(t) ==
  /\ LogStep(t, "tail", "print") /\ m_logBuffer' = <<m_logBuffer[1], t>>
  /\ slot' = [slot EXCEPT ![t] = 1]
  /\ Disturb(t)
  /\ UNCHANGED <<logMutex, m_writers, got, lines>>

(***************************************************************************)
(* LogHelperPrint: the writer is tested, then fetched again and called     *)
(***************************************************************************)
TestWriter(t) ==
  /\ slot[t] <= Len(m_writers)
  /\ \/ m_writers[slot[t]] # NoOne /\ LogStep(t, "print", "call") /\ UNCHANGED slot
     \/ /\ m_writers[slot[t]] = NoOne /\ stage[t] = "print" /\ UNCHANGED stage
        /\ slot' = [slot EXCEPT ![t] = @ + 1]
  /\ UNCHANGED <<logMutex, m_writers, m_logBuffer, got, disturbed, lines>>

CallWriter(t) ==
  /\ LogStep(t, "call", "print")
  /\ got' = [got EXCEPT ![t] = Append(@, <<m_writers[slot[t]], m_logBuffer[1], m_logBuffer[2]>>)]
  /\ slot' = [slot EXCEPT ![t] = @ + 1]
  /\ UNCHANGED <<logMutex, m_writers, m_logBuffer, disturbed, lines>>

LogReturns(t) ==
  /\ slot[t] > Len(m_writers) /\ LogStep(t, "print", "idle")
  /\ UNCHANGED <<logMutex, m_writers, m_logBuffer, slot, got, disturbed, lines>>

(* Slots of removed writers are not used again.                             *)
AddWriter(w) ==
  /\ Len(m_writers) < MaxWriters
  /\ m_writers' = Append(m_writers, w)
  /\ disturbed' = [u \in Client |-> disturbed[u] \/ Busy(u)]
  /\ UNCHANGED <<logMutex, m_logBuffer, stage, slot, got, lines>>

RemoveWriter(w) ==
  /\ w \in SX!ToSet(m_writers)
  /\ LET i == CHOOSE i \in DOMAIN m_writers :
                m_writers[i] = w /\ \A j \in 1..(i - 1) : m_writers[j] # w
     IN m_writers' = [m_writers EXCEPT ![i] = NoOne]
  /\ disturbed' = [u \in Client |-> disturbed[u] \/ Busy(u)]
  /\ UNCHANGED <<logMutex, m_logBuffer, stage, slot, got, lines>>

LoggerNext ==
  \/ \E t \in Client :
       \/ \E lvl \in {Level - 1, Level} : Log(t, lvl)
       \/ LogLock(t) \/ LogUnlock(t) \/ FormatHead(t) \/ FormatTail(t)
       \/ TestWriter(t) \/ CallWriter(t) \/ LogReturns(t)
  \/ \E w \in Writer : AddWriter(w) \/ RemoveWriter(w)

LoggerSpec == LoggerInit /\ [][LoggerNext]_logVars

(***************************************************************************)
(* Properties.                                                             *)
(***************************************************************************)

(* A log call has printed its own line, in one piece, on each of the writers *)
(* it has come to, once and in their order, unless another call wrote the    *)
(* buffer or the writers changed in between: only the absence of an overlap  *)
(* protects it, not the mutex.                                               *)
Passed(t) == {k \in 1..(slot[t] - 1) : m_writers[k] # NoOne}
LineWhole ==
  \A t \in Client : (stage[t] \in {"print", "call"} /\ ~disturbed[t]) =>
    \E at \in [1..Len(got[t]) -> Passed(t)] :
      /\ \A i, j \in 1..Len(got[t]) : i < j => at[i] < at[j]
      /\ \A k \in Passed(t) : \E i \in 1..Len(got[t]) : at[i] = k
      /\ \A i \in 1..Len(got[t]) : got[t][i] = <<m_writers[at[i]], t, t>>

(* The writer that is called is not the null pointer, unless one was removed *)
(* between the test and the call.                                           *)
NoNullWriter ==
  \A t \in Client : (stage[t] = "call" /\ ~disturbed[t]) => m_writers[slot[t]] # NoOne

(* Log calls that no other call and no change of the writers falls into are  *)
(* printed whole by writers that exist.                                     *)
UndisturbedLines == LineWhole /\ NoNullWriter
=============================================================================
