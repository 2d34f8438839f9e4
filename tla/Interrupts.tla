----------------------------- MODULE Interrupts -----------------------------
(***************************************************************************)
(* Hardware interrupts (isr.cpp, idt.cpp), the timer (timer.cpp) and what  *)
(* waits for it: sleep() and the speaker.  interruptHandler acknowledges   *)
(* with interrupts off, and the handler of the timer stays masked here: one *)
(* action.  Handlers that turn interrupts on again are the business of      *)
(* SchedulerLock and Serial.  The two PICs are external: a line stays in    *)
(* service until an EOI.                                                   *)
(***************************************************************************)
EXTENDS Integers

CONSTANTS
  Line,          \* interrupt lines that occur, of 0..15; 0 is the timer
  Secondary,     \* first line of the secondary PIC: 8
  TickMod,       \* 2^32: timer_tick is uint32_t
  Sleeper,       \* tasks that call sleep() or spkr_beep()
  MaxSleep,      \* longest sleep
  Callback,      \* functions given to timer_register_callback
  MaxCallbacks   \* MAX_CALLBACKS

ASSUME LineAssumption == 0 \in Line /\ Line \subseteq 0..15
ASSUME TickAssumption == TickMod \in Nat /\ MaxSleep \in Nat /\ MaxSleep < TickMod
ASSUME CallbackAssumption == MaxCallbacks \in Nat /\ "none" \notin Callback

VARIABLES
  requested,    \* lines raised and not yet taken
  inService,    \* lines in service at the PICs that matter to them
  handlers,     \* lines with an entry in interruptHandlers
  timer_tick,
  callbacks,    \* _callbacks
  count,        \* _callback_count
  registering,  \* a callback is stored and not yet counted
  emptyCall,    \* history: a tick called an empty slot of callbacks
  sleeping,     \* sleep() of a task: final, and ticks seen so far, or awake
  wrapped,      \* history: final of this sleep wrapped around
  speaker       \* tasks whose tone is on

callbackVars == <<callbacks, count, registering>>
interruptVars == <<requested, inService, handlers, timer_tick, callbackVars, emptyCall,
                   sleeping, wrapped, speaker>>

Awake == [final |-> -1, wanted |-> 0, seen |-> 0]
NoCallback == "none"

(* After Interrupts::init every line has a gate and none has a handler.      *)
InterruptInit ==
  /\ requested = {} /\ inService = {} /\ handlers = {}
  /\ timer_tick = 0 /\ callbacks = [k \in 0..(MaxCallbacks - 1) |-> NoCallback]
  /\ count = 0 /\ registering = FALSE /\ emptyCall = FALSE
  /\ sleeping = [t \in Sleeper |-> Awake] /\ wrapped = [t \in Sleeper |-> FALSE]
  /\ speaker = {}

timerVars == <<timer_tick, callbackVars, emptyCall, sleeping, wrapped, speaker>>
picVars == <<requested, inService, handlers>>

Raise(i) ==
  /\ i \notin requested /\ requested' = requested \cup {i}
  /\ UNCHANGED <<inService, handlers, timerVars>>

registerHandler(i) ==
  /\ i \notin handlers /\ handlers' = handlers \cup {i}
  /\ UNCHANGED <<requested, inService, timerVars>>

(***************************************************************************)
(* interruptHandler                                                        *)
(***************************************************************************)
(* The PICs deliver a line when none of the same or a higher priority is in  *)
(* service; the lines of the secondary come before 3 to 7.                   *)
Priority(i) == IF i >= Secondary THEN 2 * 16 + i ELSE IF i <= 2 THEN i ELSE 4 * 16 + i
Delivered(i) ==
  /\ i \in requested
  /\ \A j \in (requested \cup inService) \ {i} : Priority(i) < Priority(j)
  /\ i \notin inService

(* Fault: the secondary PIC is told from its second line on.                 *)
SecondaryOffByOne(i) == i > Secondary
(* Who gets an EOI: int_num >= 0x28.                                        *)
TellsSecondary(i) == i >= Secondary
StaysInService(i) == i >= Secondary /\ ~TellsSecondary(i)

(* timer_callback                                                           *)
TimerCallback ==
  /\ timer_tick' = (timer_tick + 1) % TickMod
  /\ emptyCall' = (emptyCall \/ \E k \in 0..(count - 1) : callbacks[k] = NoCallback)
  /\ sleeping' = [t \in Sleeper |->
       IF sleeping[t] = Awake \/ sleeping[t].seen = sleeping[t].wanted THEN sleeping[t]
       ELSE [sleeping[t] EXCEPT !.seen = @ + 1]]
  /\ UNCHANGED <<callbackVars, wrapped, speaker>>

(* Acknowledge, then call the handler if there is one.                       *)
interruptHandler(i) ==
  /\ Delivered(i)
  /\ requested' = requested \ {i}
  /\ inService' = IF StaysInService(i) THEN inService \cup {i} ELSE inService
  /\ IF i = 0 /\ 0 \in handlers THEN TimerCallback ELSE UNCHANGED timerVars
  /\ UNCHANGED handlers

(***************************************************************************)
(* timer_register_callback, in two steps a tick may fall between           *)
(***************************************************************************)
(* Fault: the slot is counted before it is filled.                          *)
RegisterCountFirst(c) ==
  /\ ~registering /\ count < MaxCallbacks - 1
  /\ count' = count + 1 /\ registering' = TRUE
  /\ UNCHANGED <<picVars, timer_tick, callbacks, emptyCall, sleeping, wrapped, speaker>>
RegisterStore(c) ==
  /\ ~registering /\ count < MaxCallbacks - 1
  /\ callbacks' = [callbacks EXCEPT ![count] = c] /\ registering' = TRUE
  /\ UNCHANGED <<picVars, timer_tick, count, emptyCall, sleeping, wrapped, speaker>>

RegisterCount ==
  /\ registering
  /\ count' = count + 1 /\ registering' = FALSE
  /\ UNCHANGED <<picVars, timer_tick, callbacks, emptyCall, sleeping, wrapped, speaker>>

(***************************************************************************)
(* sleep(ms), and spkr_beep around it                                      *)
(***************************************************************************)
spkr_tone(t) == speaker' = speaker \cup {t}
spkr_stop(t) == speaker' = speaker \ {t}

Sleep(t, ms, tone) ==
  /\ sleeping[t] = Awake
  /\ sleeping' = [sleeping EXCEPT ![t] =
       [final |-> (timer_tick + ms) % TickMod, wanted |-> ms, seen |-> 0]]
  /\ wrapped' = [wrapped EXCEPT ![t] = timer_tick + ms >= TickMod]
  /\ IF tone THEN spkr_tone(t) ELSE UNCHANGED speaker
  /\ UNCHANGED <<picVars, timer_tick, callbackVars, emptyCall>>

Over(t) == timer_tick >= sleeping[t].final

Wake(t) ==
  /\ sleeping[t] # Awake /\ Over(t)
  /\ sleeping' = [sleeping EXCEPT ![t] = Awake]
  /\ spkr_stop(t)
  /\ UNCHANGED <<picVars, timer_tick, callbackVars, emptyCall, wrapped>>

InterruptNext ==
  \/ \E i \in Line : Raise(i) \/ registerHandler(i) \/ interruptHandler(i)
  \/ \E c \in Callback : RegisterStore(c)
  \/ RegisterCount
  \/ \E t \in Sleeper : Wake(t) \/ \E ms \in 1..MaxSleep, tone \in BOOLEAN : Sleep(t, ms, tone)

InterruptSpec == InterruptInit /\ [][InterruptNext]_interruptVars

(***************************************************************************)
(* Properties.                                                             *)
(***************************************************************************)
(* A tick never calls an empty slot, also when it falls into a registration. *)
NoEmptyCallback == ~emptyCall

(* sleep() does not return before as many ticks as it was asked for, unless  *)
(* its end wrapped around: then it returns at once.                          *)
SleepsLongEnough ==
  \A t \in Sleeper : (sleeping[t] # Awake /\ Over(t) /\ ~wrapped[t]) =>
    sleeping[t].seen = sleeping[t].wanted

(* Every line raised is served, on either PIC.                              *)
EveryLineServed == \A i \in Line : i \in requested ~> i \notin requested

(* Every sleep ends, and with it the tone of a beep, also across the wrap of *)
(* the tick counter.                                                        *)
EverySleepEnds == \A t \in Sleeper : sleeping[t] # Awake ~> (sleeping[t] = Awake /\ t \notin speaker)

(* The timer around its two races: a tick inside a registration calls no     *)
(* empty slot, and a sleep that the ticks overtake is not too short.          *)
TimerSafe == NoEmptyCallback /\ SleepsLongEnough

(* "Return now that we've waited long enough": sleep() ends only after as    *)
(* many ticks as it was asked for.  An end that wraps at 2^32 is less than   *)
(* timer_tick, and sleep() returns at once.                                 *)
WaitedLongEnough ==
  \A t \in Sleeper : (sleeping[t] # Awake /\ Over(t)) => sleeping[t].seen = sleeping[t].wanted

(* Whatever is waited for comes: an interrupt that a device requested, the    *)
(* end of a sleep and of a beep.                                            *)
InterruptProgress == EveryLineServed /\ EverySleepEnds
=============================================================================
