# A TLA+ verification project for the Xyris kernel

Xyris is a small 32-bit kernel for one x86 CPU: C++ and a little assembly under
`Kernel/`. This directory holds TLA+ models of its core, the TLC configurations
that check them on small instances, and proofs that TLAPS checks for all
instances. `PROJECT.json` lists the components, the runs, the source lines
behind every definition, the hazards and the findings; this file explains them.

## 1. The system

Everything happens on one CPU. Concurrency has two sources: interrupts, which
run on the stack of whatever they interrupt, and preemptive switches between
tasks, which the timer interrupt starts. There is no other processor, so
protection means either "interrupts are masked" (the scheduler) or "a task that
finds the flag set goes to sleep" (the mutex, built on the scheduler).

| Component | State | Operations | What makes it correct |
|---|---|---|---|
| Scheduler (`Scheduler/tasks.cpp`, `Arch/i686/Assembly/tasks.s`) | `current_task`; lists ready, sleeping, stopped; `_scheduler_lock`, `_scheduler_postpone_count`, `_scheduler_postponed`; `_time_slice_remaining` | new, schedule, block, unblock, sleep, exit, sync block/unblock, the timer handler, the cleaner task, the idle loop | Holds balance across switches; every task is in the list its state names; ready tasks run, sleeps end, exited tasks are freed |
| Interrupts (`Arch/i686/isr.cpp`, `Assembly/interrupt.s`, `timer.cpp`) | interrupt flag, handler table, tick count | entry, dispatch, `iret`, `sleep` | The flag is restored; a handler never switches stacks under the idle loop |
| Mutex (`Locking/Mutex.cpp`) | `m_isLocked`, a wait list | lock, tryLock, unlock | One holder; no waiter is forgotten |
| Semaphore (`Locking/Semaphore.cpp`) | `m_count`, a wait list | wait, tryWait, timeWait, post | No unit is lost or handed out twice |
| Paging, frames, bitset (`Memory/paging.cpp`, `Physical.hpp`, `Library/Bitset.hpp`) | page tables, a bitmap of pages, a bitmap of frames, `pagingLock` | map, newPage, freePage | Bitmap and tables agree; live pages keep their frames to themselves |
| Virtual manager, heap hooks, memory sections (`Memory/`) | ranges, liballoc's lock | lookups, allocation hooks | Interval arithmetic has no gaps and no overlaps |
| Serial (`Devices/Serial/rs232.cpp`, `Library/RingBuffer.hpp`) | ring buffer, line state, a mutex | receive interrupt, read, write | The buffer is a bounded queue whoever runs when |
| Clock and calendar (`Devices/Clock/rtc.cpp`, `Library/time.cpp`) | RTC registers | read while not updating, convert | No torn reading; conversions agree with the calendar |
| Logger, console, panic (`Logger.cpp`, `Devices/Graphics/console.cpp`, `Panic.cpp`) | shared buffer, writers, cursor, escape-sequence state | log, print, halt | Lines are not mixed; the cursor stays on the screen |
| Static-initialisation guards (`Support/cxa_guard.cpp`) | guard words, a mutex | acquire, release, abort | Initialised once, without locking itself out |
| Boot (`Bootloader/`, `Arch/i686/Bootloader/`, `Entry.cpp`) | memory map, boot arguments | hand-off, device set-up, first tasks | Sections describe the memory that is there |
| Library, graphics, PC speaker, applications | little or none | string, printf, rand; pixels; tones; demo loops | Agreement with reference definitions |

How they interact: the timer interrupt calls `_on_timer`, which wakes sleepers
and schedules. Mutex and Semaphore call `tasks_sync_block` and
`tasks_sync_unblock`. Paging, the heap, the serial driver, the logger and the
guards take mutexes. The scheduler in turn calls Paging for stack pages: in
`tasks_new`, and in the cleaner while it holds the scheduler lock. `kernelEntry`
sets up devices, the frame bitmap and paging in that order, calls `tasks_init`,
makes three tasks with interrupts on, and pauses for good.

On the way up, stage 1 of the boot code builds page tables, the hand-off turns the
bootloader's tags into a memory map, and the frame manager frees what the map
calls usable.

What is hard here: holds on the lock that one task takes and another drops; the
window between an atomic flag and the scheduler call that follows it; a list
walked and changed in one loop; the idle loop borrowing the stack of a task that
may be woken or freed; allocation that fails half way; an interrupt handler that
locks a mutex and so turns interrupts on again; a chip that changes its registers
while they are read; parsers whose state survives a malformed input. The `hazards` of
`PROJECT.json` give each of these, and the others found, with its line.

## 2. The models

### SchedulerLock
The lock and the context switch, statement by statement. `pc[t]` says where the
code on a task's stack stands, `nest[t]` how many sections it has open, `irq[t]`
how many interrupt frames are on it. `ReleaseSchedulerLock` is
`_release_scheduler_lock` up to its call of `_schedule`; `DropHold` is the rest
of it, and also `_task_starting`, the first code of a new task. The `Schedule...`
actions are the exits of `_schedule`; `IdleWake` is the end of its idle loop.
`SLEEPING`, `BLOCKED` and `PAUSED` are one value, `WAITING`, and a dequeue may
return any `READY` task: order is left to the next module.

### Scheduler
All scheduler operations on real lists. What runs under the scheduler lock is one
action, which SchedulerLock justifies; only the timer handler's walk over the
sleeping list is one action per iteration. Every operation includes the
`_schedule` that its release performs. Lists are sequences, and `Enqueue` keeps
what `_enqueue_task` does to a task that is already in the list: it becomes the
tail where it stands and what followed is unreachable. That is not an assumption
of the model; `TaskListProofs` proves it of the pointer code
(`EnqueueTwiceTruncates`). Time is kept as differences (time until wake-up, time
since `_last_timer_time`), which leaves the comparisons of the code as they are
and the state space finite.

### TaskList, TaskQueues and TaskLists
`TaskList` has `_enqueue_task`, `_dequeue_task` and `_remove_task` as operators on
head, tail and next pointers. `TaskLists` runs them: switches, sleeps and timer
walks with the handler's local pointers, and `tasks_new` one store at a time,
because it takes no lock. `TaskQueues` is the abstract specification, two FIFO
queues with removal from the middle of one; `TaskLists` implements it under the
mapping that follows the next pointers.

### Mutex and Semaphore
Both extend Scheduler. Each atomic instruction and each call into the scheduler is
a step of its own, and the timer may preempt the task between any two. The cases
without a current task, where `TASK_ONLY` skips the scheduler calls, are left out.

### Bitset and Paging
`Bitset` treats a bitset as a set of positions and keeps what depends on the word:
the mask whose shift count wraps at the word size, the last position that is
never tried, and `(check & mask) == isSet`, which compares a number with 0 or 1.
`Paging` maps and unmaps one page per step; `pagingLock` is reduced to its holder.
`FrameFreed` and `TableIndex` are what the code computes: a frame index divided by
the page size, and the table index without the directory index. A range at
address 0 is NULL to its caller and never becomes live. Requests may be as long as a
word and longer; `wide` remembers that one was, and after a panic nothing moves.

### Interrupts
The two PICs (external: what is requested and in service, with priorities), the
handler table, `interruptHandler` and its acknowledgements, the timer's tick and
callback table, and the busy-wait `sleep`, which the speaker's beep uses. The tick
counter wraps at `TickMod` as it wraps at 2^32. A registration is two steps, the
slot and the count, with a tick possible in between. Nothing here depends on which
task runs, so the module shares no state with SchedulerLock; one run explores both.

### CpuTime
Who is charged for the CPU: `tasks_update_time` as `_schedule` calls it, in one step
under the lock, and as `tasks_get_self_time` calls it, statement by statement
without the lock. The idle branch of `_schedule` reads the clock four times and is four
actions, with time passing between them. Which task runs next is left open.

### RingBuffer, BoundedQueue and Serial
`RingBuffer` has each operation as one step; `BoundedQueue` is what it promises.
`Serial` runs the stores of `Enqueue` and `Dequeue` one by one: the receive handler
runs on the stack of the task it interrupts, and its mutex's unlock turns
interrupts on again, so handlers nest. `length++` and `length--` are a load and a
store, and a store may use a value loaded before another step. The mutex is
reduced to its owner; `RAIILock` and `RAIIUnlock` are the guard's two ends.

### Library components
One module each, none of which touches another one's state:

| Module | Models | Kept | Left to data |
|---|---|---|---|
| `Console` | `console.cpp` | the escape machine with its labels and jumps, the value stack that can be pushed behind its end and popped below its start, the loop that then runs through memory, the bytes of the cursor | characters are classes, colours are indices |
| `LinkedList` | `LinkedList.hpp` | every pointer store of insertions and removals; a deleted node keeps its links | payloads |
| `Strings` | `string.cpp` | byte copies in the direction of the loop, on one memory where regions overlap | two letters and the terminator |
| `Printf` | `printf.cpp` | the states of the scan, flags, width, sign and padding | numbers of 8 bits in place of 32 |
| `Boot` | `stivale2.c`, `Handoff.cpp`, `Physical::initialize`, `Memory::init` | tables and directory entries, one tag at a time and whether its page is mapped, 64 to 32 bit conversion | addresses are page numbers |
| `Virtual` | `Virtual.cpp`, `getPage` | the scan with its counters, both constructors, sums that wrap, the address returned, panics | flags of an entry |
| `Clock` | `rtc.cpp`, `time.cpp` | one register read at a time against a chip that updates; all register formats | three registers in the race; real dates in the conversion |
| `Logger` | `Logger.cpp` | the temporary that locks nothing, a buffer written in two halves, the writer table | text is the name of its author |
| `CxaGuard` | `cxa_guard.cpp` | double-checked acquire, release and abort, nested constructors | the object |
| `Graphics` | `graphics.cpp`, `framebuffer.cpp`, `font.cpp` | clipping as the code has it, nine by nine drawing, cells behind the buffer's end | colours, bytes of a pixel |

`Strings`, `Printf`, `Clock`'s conversions and `Virtual`'s search are pure: an
action is one call with arguments from a small set, and the property compares its
result with a definition that does not follow the code. Each of these modules ends
in one invariant that joins its named parts (`StringsExact`, `GuardsHold`, ...). The
others keep a history (`order`, `abandoned`, `disturbed`, `raced`, `intact`, ...) of
what should be true.

## 3. Findings

Each of these runs is expected to end in a counterexample, against a sentence in the
repository that the code does not keep; `PROJECT.json` quotes the sentence.

* `scheduler_two_exits`: `tasks_exit` enqueues the cleaner even when it is in the
  ready list already. Two exits before the cleaner runs cut off every task behind
  it; they stay `READY` and never run. (`tasks.cpp:524`)
* `task_lists_unmasked`: `tasks_new` changes the ready list with interrupts on. A
  timer interrupt between two of its stores loses a task. (`tasks.cpp:330`)
* `mutex_wakeup`: an `unlock` between a failed test-and-set and
  `tasks_sync_block` finds nobody to wake; the task then sleeps on a free mutex.
  `Semaphore::wait` has the same window. (`Mutex.cpp:23`)
* `memory_free`: `freePage` gives `setFree` a frame index where it takes an
  address. A low frame that early memory still maps is handed out again, and the
  frame that was unmapped is never free again. (`paging.cpp:212`)
* `memory_wide`: the mask of a range of 32 bits or more wraps, and the search answers
  with pages that are mapped; `mapKernelPage` panics. The back buffer of the graphics
  is such a request. (`Bitset.hpp:94`)
* `serial_self_wait`: a receive handler that interrupts the reader holding its mutex
  waits for ever. (`rs232.cpp:62`)
* `printf_done`: of a 64 bit number 32 bits are printed, `h` cuts nothing off, and `x`,
  `X` and `p` forget their width, all three marked as done in the head of the file.
  (`printf.cpp:263`, `240`, `208`)

More sentences that the code does not keep are definitions of their modules. They have
no run of their own; given as the only INVARIANT with the constants of `MCLibrary.cfg`
(of `MCSchedulerLock.cfg` for `QueueLike` and `WaitedLongEnough`) each is violated:

| Definition | Sentence | What the code does |
|---|---|---|
| `KernelReachable` | "Kernel exceeds the 7 MB limit. boot.s must be updated to work a larger kernel." (`linker.ld:76`) | the two tables of stage 1 end 8 MB above `KERNEL_BASE`, while the linker script admits a kernel of 7 MB that begins more than 1 MB above it (`stivale2.c:221`) |
| `TagsMapped` | "Map in the entire bootloader information linked list" (`stivale2.c:185`) | stage 1 maps the length of the reclaimable entry from the first tag on, through one table; a tag in front of it, or behind the table, is not mapped when the kernel parses it (`stivale2.c:183`) |
| `OfferedIsUsable` | "Memory map containing a number of Memory sections that describe the physical memory layout" (`MemoryMap.hpp:4`) | entries above 4 GB are cut to 32 bits, and frames that are not usable are on offer (`Handoff.cpp:84`) |
| `RequestHonoured` | "Attempt to map at the requested location" (`Virtual.cpp:14`) | mapping at a given address is refused where the pages are free and goes ahead where they are used or the range wraps around the address space (`Virtual.cpp:203`, `15`, `224`) |
| `LocationReturned` | "Automatically find the next available location" (`Virtual.cpp:11`) | `map` returns the address behind the range (`Virtual.cpp:28`) |
| `IdleTimeCounted` | "count the time we spent idling" (`tasks.cpp:388`) | the time spent idling is added to `_idle_time` and taken off again, together with the time between the clock readings (`tasks.cpp:393`) |
| `NestedInitialisation` | "All static object initializations are protected by the single, global, recursive mutex" (`cxa_guard.cpp:29`) | a constructor that needs another static object waits for the guard mutex of its own task; a FIXME next to the comment knows (`cxa_guard.cpp:84`) |
| `WaitedLongEnough` | "Return now that we've waited long enough" (`timer.cpp:57`) | a `sleep` whose end wraps returns at once (`timer.cpp:56`) |
| `QueueLike` | "Inserting and removing data is done in a queue-like fashion." (`RingBuffer.hpp:5`) | the receive handler enqueues outside the mutex that `read` holds, and a change of `length` is lost (`rs232.cpp:108`) |
| `ColorsApplied` | "iterate through all values" (`console.cpp:147`) | `ESC[5H` leaves the index of the value stack at -1, so the next `ESC[31m` is ignored; after two of them the loop of `m` runs through memory and faults (`console.cpp:172`, `148`) |
| `PixelsInPlace` | "Draws a pixel at a given coordinate." (`graphics.hpp:27`) | a pixel in the column or row behind the screen is written all the same (`graphics.cpp:58`) |
| `HourConverted` | "Convert 12 hour clock to 24 hour clock if necessary" (`rtc.cpp:143`) | a twelve hour RTC has noon and midnight exchanged (`rtc.cpp:145`) |
| `StrstrFinds` | "Locates a substring (needle) within a containing string (haystack)" (`string.hpp:62`) | a needle is found only where it ends the string (`string.cpp:69`) |
| `MemcmpOrders` | "Returns 0 if identical. If negative, pointer A is less than than pointer B and vice versa for positive." (`string.hpp:102`) | a difference in the first byte gives 0 (`string.cpp:120`) |

The passing runs are set up beside these defects and say so: `scheduler` lets one
task exit, `library` calls `tasks_new` with interrupts masked, `mutex` claims
only that an unlock wakes those who are waiting when it looks; `PanicNeedsWideRequest`
allows a panic after a request of a word or more, and `LivePagesKept` is about ranges
until a free beyond the first table, where `freePage` unmaps other pages than it was
given, and about frames until the first free at all. `BootKeepsMemory`, `ConsoleRecovers`,
`MapsOnlyFreeRanges`, `StringsExact`, `DirectivesExact`, `TimeSurvives`, `CharactersKept`,
`GuardsHold`, `TimerSafe`, `AccountsBalance` and `DrawingContained` name the case that such a
sentence is about and leave it out. They show what holds apart from the defects, not that the
defects do no harm.

Some more places do less than one would expect, and no sentence that promises more was
found. The parts of the properties named here state how far it goes:

* `tasks_get_self_time` charges an interval twice if a switch falls into it
  (`AccountsBalance` excludes it by `raced`);
* the logger's lines are whole only as long as calls do not overlap (`LineWhole`);
* an aborted constructor can make another task panic (`PanicNeedsAbort`);
* a format that ends in `%` or in its zero flag is read past its end
  (`OverrunOnlyAfterAdvance`); a character overwrites the edges of its neighbours
  (`GlyphsIntact`); the named constructor of the virtual manager leaves the end of the
  range unset, so that no search succeeds.

## 4. The runs

| Run | Instance | Distinct states | What it shows |
|---|---|---|---|
| `scheduler_lock` | 3 tasks, nesting 2, 2 interrupt frames; lines 0, 8 and 12, a tick counter of 4, a sleeper, 3 callback slots; 2 readers, a ring of 2, 3 characters, handlers nested 3 deep | 291924 | Sections are masked, code outside them is preemptible, a task that gave up the CPU runs no further, no request to schedule is forgotten, switches are balanced, stopped tasks stay stopped; every interrupt line is served and every sleep ends (`InterruptProgress`), no empty callback is called and sleeps are long enough (`TimerSafe`); of the serial port, indices stay in the array and characters come out in order unless operations overlap or a handler overtakes another (`CharactersKept`) |
| `scheduler` | 5 tasks, 1 wait list, slice 2, sleeps up to 2, one task exits | 78597 | States match lists, the idle stack stays live, slices stay armed, no early wake-up; ready tasks run, sleepers wake, exited tasks are freed |
| `mutex` | 3 tasks that lock, 2 mutexes, slice 2 | 64980 | Mutual exclusion with waiters only inside `lock` (`MutualExclusion`), an unlock wakes all it finds |
| `semaphore` | 3 tasks, 1 semaphore starting at 0, 1 post | 80864 | Units are conserved, waiters are inside `wait`, a post wakes all it finds |
| `library` | one small instance per component; task lists of main and 4 tasks, masked in `tasks_new`; paging by 2 tasks, 8 pages in 2 tables, 7 frames, words of 4 bits, ranges up to 5 | 1166580 | `_remove_task` never panics, no task is lost, the pointers implement the queues (`RemoveNeverBogus`, `NoTaskLost`, `ImplementsQueues`); bitmap and tables agree, a chosen page is mapped already only after a request of a word or more, live ranges stay mapped and apart, frames are private until a free (`BitmapMatchesTables`, `PanicNeedsWideRequest`, `LivePagesKept`); the ring buffer is a queue (`RingIsQueue`); the console prints on the screen after any sequence and owes nothing to well-formed ones (`ConsoleRecovers`); the list's two chains agree (`BothWalksAgree`); strings, directives, virtual ranges and times against references (`StringsExact`, `DirectivesExact`, `MapsOnlyFreeRanges`, `TimeSurvives`); boot mappings and the memory offered (`BootKeepsMemory`); log lines, static guards, time accounts and drawing (`UndisturbedLines`, `GuardsHold`, `AccountsBalance`, `DrawingContained`) |
| `scheduler_two_exits` | 4 tasks, two of them exit | violation | see Findings |
| `task_lists_unmasked` | the task lists of `library`, interrupts on | violation | see Findings |
| `mutex_wakeup` | the tasks of `mutex`, 1 mutex | violation | see Findings |
| `memory_free`, `memory_wide` | the paging of `library` with ranges up to 3 and 4 | violation | see Findings |
| `serial_self_wait` | the serial port of `scheduler_lock` | violation | see Findings |
| `printf_done` | the directives of `library`, up to 4 characters | violation | see Findings |

`scheduler_lock` and `library` explore modules that share no state side by side: `subject`, chosen
initially, names the one that moves, so the states add up and do not multiply, and
no behaviour mixes them.

The bounds. Three tasks give `scheduler_lock` one that runs, one that is switched
in and one that is woken meanwhile; nesting 2 tells an outer release from an inner
one; a second interrupt frame is an interrupt that arrives after a handler's
release turned interrupts on again. Five tasks in `scheduler` are the two the
kernel always has, one that exits and two more to fill a list with a head, a
middle and a tail. A slice and sleeps of 2 units have a before, an edge and an
after. Four created tasks give the timer walk every pattern of expired neighbours
on a list of length up to five. Two mutexes let a task wait for one while another
is held. One post on an empty semaphore lets several waits race for one unit;
more units, which would let exchanges fail against a count that is still positive,
are beyond this run. Seven frames for eight pages make frames run out before
pages, and two tables put ranges in both and across their border. With words of 4 bits
requests of up to 5 pages are shorter than a word, one word and longer (32 bits in the
code).

Of the devices: line 8 is the first of the second PIC and 12 one of its others, so
an acknowledgement that is off by one is seen; a tick counter of 4 wraps inside a
sleep of 2. A ring of 2 is full, empty and wraps within three characters, one of
them a carriage return; depth 3 lets a handler interrupt a handler that
interrupted a reader. In `library` a ring of 3, lists of 4 nodes (head, two in the
middle, tail), 5 bytes of memory (every overlap of two regions), directives of up
to 5 characters and arguments at both ends of 8 bits and beyond, with shorts of 4,
memory maps of up to three entries below, above and across the end of an address space
of 24 pages, a kernel that ends behind its two tables, ranges of up to 3 pages over 4
tables at every byte address, dates from 2021 to 2120 at month ends and leap days with the hours around
midnight and noon, 4 chip updates, two log calls with two writers, three tasks and
two static objects, 4 units of time for two tasks, a screen of
two by two characters with a glyph that is not symmetric. After a race in
`tasks_get_self_time` no further call of it begins. A console sequence has up to 3
values (`MaxStack`) for an array of 2, one more than it holds; its numbers are a reset, a
foreground and a background code that also stand for a column on and off the screen.

Deadlock is looked for where it would mean something: in the scheduler, its lock, the
mutex, the semaphore, the interrupt controllers, the task lists and paging (until a panic).
The pure calls end, characters run out, and a task that locked itself out is one of the
outcomes described, so the other subjects of `library` and the serial port may also rest
(`MayRest`, `SerialRests`).

No run uses a state constraint or symmetry. Bounds are guards in the modules and
are named there: `MaxNest`, `MaxIrq`, `MaxSleep`, `MaxPosts`, `MaxCount`,
`MaxDepth`, `MaxRead`, `MaxDirective`, `MaxUpdates`, `MaxLines`, `MaxNanos`,
`MaxVal`, `MaxStack`, `MaxPages`.

### Fairness
`scheduler` assumes that time passes, that the timer keeps interrupting, and that
its handler, a loop over a finite list with interrupts masked, ends. It assumes
strong fairness of the idle loop and of the cleaner: each is enabled again and
again between interrupts, and the CPU does execute the instructions in between.
Strong fairness of time passing stands for the same: handlers do not use up the
whole tick. Nothing is assumed of other tasks, so the liveness results hold when
a task computes forever without calling the scheduler. `mutex` and `semaphore`
add that a task inside a call (for the mutex, also inside its critical section)
gets on with it each time it is dispatched; nobody is assumed to make a new call.

`scheduler_lock` assumes for the interrupt controllers that a line raised again and
again is delivered now and then although others have priority, that the timer is
started and ticks, and that a task in `sleep` gets the CPU repeatedly, which the
scheduler's liveness results support. It is generous in one case: a sleep that ends on
the last tick before the counter wraps is over for one tick only, and a task that is not
dispatched within it sleeps another round. Nothing is assumed of the serial port: a handler
that waits for its mutex may wait for ever, because of the lost wake-up of `mutex_wakeup` and
because of `serial_self_wait`.

## 5. The proofs

Eight modules hold theorems; `PROJECT.json` lists the results. Each safety proof has
the same shape: an inductive invariant, a lemma that the initial states have it, a
lemma (one step per action) that every step keeps it, and the property from it.

| Module | About | Shows, for all values of the constants |
|---|---|---|
| `SchedulerProofs` | Scheduler | `StatesMatchLists`, `IdleStackLive`, `SliceArmed`, `NoEarlyWake` |
| `TaskListProofs` | TaskList, TaskLists | the list operations; `RemoveNeverBogus`, `NoTaskLost`, `ImplementsQueues` |
| `MutexProofs` | Mutex | `MutualExclusion` |
| `SemaphoreProofs` | Semaphore | `UnitsConserved` |
| `PagingProofs` | Bitset, Paging, Boot | `BitmapMatchesTables`, `PanicNeedsWideRequest`, `LivePagesKept`, `BootKeepsMemory` |
| `DeviceProofs` | SchedulerLock, Interrupts, RingBuffer, Serial, Clock, Graphics | all seven properties of the lock; `TimerSafe`; `RingIsQueue`, a refinement; `CharactersKept`, `TimeSurvives`, `DrawingContained` |
| `LibraryProofs` | CpuTime, LinkedList, CxaGuard, Console, Logger | `AccountsBalance`, `BothWalksAgree`, `GuardsHold`, `ConsoleRecovers`, `UndisturbedLines` |
| `LoopProofs` | Virtual, Strings, Printf | `MapsOnlyFreeRanges`, `StringsExact`, `DirectivesExact` |

Every invariant and every action property that a passing run checks is so stated by a
theorem; the runs show it on an instance, the theorem for all.

### The scheduler lock and the timer
`DeviceProofs` begins with interrupts: every safety property of the lock, which stands
for masking them, for any set of tasks, any nesting and any number of interrupt frames, from three assumptions: the first
task is a task, and both bounds are positive. None of the properties is inductive,
since each depends on what the suspended stacks owe. The invariant `IInv` keeps the
account:

* `OthersSuspended`: a stack the CPU is not on has no open section and stands
  right before a `DropHold`;
* `HoldsCounted`: `_scheduler_postpone_count` is the number of sections open on
  the CPU's stack; `_scheduler_lock` is that, plus one for a release (or a new
  task) on its way to its decrement, plus one for the idle loop;
* `PointsConsistent` and `FlagConsistent`: where the code can stand, and what the
  interrupt flag is there;
* `SwitchOwed`: a task that gave up the CPU has it only while a switch is pending.

So a task that is switched out leaves exactly one hold, and the decrement at which
every other stack is suspended pays for it. `InitIInv` and `NextIInv` give
`IInvHolds`; the invariants follow from it, and the two action properties from it and
one step of `Next`.

`TimerIsSafe` is about Interrupts alone. `TimerInv` adds what `TimerSafe` leaves out:
the slots below the callback count are filled (the slot is written before the count),
and the ticks a sleeper has not seen yet are exactly those between the counter and its
end, unless that end wrapped.

### The scheduler's lists
`SchedulerInv` says of every task where it may stand: the running task in no list,
`READY` in the ready list, `SLEEPING` in the sleeping list, and so on; no list has a
task twice; who owns the CPU and its slice; the times are in range; and the cleaner is
`PAUSED` exactly when it has nothing to clean (`CleanerWoken`). The last one decides
everything: `tasks_exit` enqueues the cleaner without looking whether it is in the ready
list already, and that is harmless only if no other exit came first. So `ListsMatchIfExitsApart` assumes it of the
behaviour: as long as exits are apart, the lists match. The other theorems assume it
of the instance (`OneExiter`, at most one task that may exit), where it follows. Without
the assumption the statements are false: that is the finding `scheduler_two_exits`.

`MutexProofs` and `SemaphoreProofs` add to `SchedulerInv`. A task that is in a wait list
is `BLOCKED` and so not the one that runs; this is what makes every step of a call a step
of a task that is in no wait list. `MutexInv` then has the places where a task can
stand, that the flag is set exactly when a task is between its successful test-and-set
and its clear, and that a waiter, once woken, goes back to the test-and-set.
`SemaphoreInv` has that a value about to be exchanged for one less is not 0, and that the
count plus the units taken is the initial count plus the units posted. Both proofs
concern safety; that waiters can be forgotten is the finding `mutex_wakeup`.

### The pointers of the lists
`TaskListProofs` first proves the list operations on well-formed lists of any length:
`EnqueueAppends`, `EnqueueTwiceTruncates`, `DequeueTakesHead`, `RemoveUnlinks` (head,
middle and tail) and `OtherListsKept`. On these rests `ListsInv`: outside the timer
handler and `tasks_new` the pointers represent two lists of the tasks that have to be
in them (`Settled`); inside, what the handler's local pointers say about the part already
walked, and how far `tasks_new` has got (`Underway`). It gives `RemoveIsNeverBogus`,
`NoTaskIsLost` and, with one step per action of the abstract queues,
`ListsImplementQueues`. `Chain`, the mapping that follows the next pointers, is a
recursive function; that it yields the represented list for every length (`ChainIs`) is
proved from a least counterexample, which needs no induction rule. The assumptions: the
set of tasks is finite, and `tasks_new` runs with interrupts masked (`InterruptsMasked`); without
the second one the statements are false, which is the finding `task_lists_unmasked`.

### Paging
`BitmapIsTables` needs no assumption beyond those of the module: its invariant `BaseInv` says
that a request under way holds the lock and stays in its range. `FullInv` adds which pages
of a request are mapped already (`Progress`) and that it meets no live range, as long as no
request was as long as a word (`Narrow`), and what a request of any size leaves alone as
long as nothing was freed (`Unfreed`): the search may then choose a range over pages in use,
because the mask of a whole word is shifted by the word size, but `mapKernelPage` panics at
the first of them and none changes hands. `PanicsOnlyAfterWide` and `LivePagesStay` follow,
for requests of any size and with no assumption on them. Live ranges are kept apart by the
search finding free pages only, and their frames by the frame bitmap, up to the frees that
the finding `memory_free` is about.

### Boot
`BootAlwaysKeepsMemory` holds for every memory map the bootloader may give and every
table size. `BootInv` says what directory and tables hold before each stage: blank, then
the early kernel in the first table (`AfterLow`), then the kernel in two tables side by
side (`AfterHigh`), and which tags are left, with the memory map known once its tag is
behind. The information is mapped last, into the table of low memory, whose entries it
repeats, or into one of its own. `DivIs` and `DivSplits` replace `/` and `&` by quotient
and remainder; `SectionIs` shows that cutting an entry to 32 bits leaves it alone below
4 GB. The assumptions are those of the linker script: sizes are aligned to two tables, the
kernel begins in the first table above `KERNEL_BASE` and is smaller than 7/4 of a table. That
is not enough for two tables to reach its end, so the theorem speaks of the pages they do
reach; `KernelReachable` would claim the others. Of the boot information it speaks when the tags begin at
their reclaimable entry and the entry stays in one table (`InfoInOneTable`), and then of all of
the entry, not of what stage 1 happens to map; `TagsMapped` would claim the other cases.

### Ring buffer and serial driver
For every size and every set of values the ring
buffer implements the bounded queue: `RingRefinesQueue`, the whole refinement, and
on the way `RingTypes` and `RingWindow`. The invariant is `RingInv`: the types, the
window (`head` is `length` slots after `tail`), and that every slot of the window
has been written, without which a value handed out could be one that nobody
enqueued. `ModWrap` and `OffsetWrap` replace `%` by one subtraction; the rest is
case analysis on the wrap. It assumes that the size is positive and that the
placeholder for an unset slot is no value.

`CharactersAreKept` is about the same buffer store by store, with receive interrupts
nested on any stack. `SerialInv` has a part for each claim and what they share: the
frame that holds the mutex is the only one (`MutexHeld`), so at most one `Dequeue` is
under way and the length it goes by is never 0, whatever handlers store meanwhile
(`NeverBelowZero`); if no operation began inside another, the one under way knows how far
the window is ahead of the indices (`FifoSoFar`); if no handler overtook another, the
character a handler carries is the last one read from the line (`OrderSoFar`). The
history flags are what the code lacks: the handler enqueues outside the mutex.

### Clock and screen
* `ReadingIsNotTorn`: `ReadInv` follows the passes of `read()`. Before an update every pass
  agrees with the chip; after one update either the pass before the current one was
  good, or the current one began after the update was over (`OnceUpdated`).
* `TimeAlwaysSurvives` adds the two conversions, for every date of the hundred years from
  `RTC_CURRENT_YEAR`. `BinaryIs` and `FullYearIs` undo BCD and the two digit year, `HourIs`
  the twelve hour format. `DateIs` is the calendar: with years that begin in March the
  leap day is the last one, a day is a century, a year of it and a day of that year, and
  each of the divisions of `converterEpochToDate` is shown to take one of them off. The
  month is found by cases over the twelve, the rest is linear in the parts. Of the
  constants it assumes that the years are those hundred and the hours 0 to 23.
* `DrawingIsContained`: `SameCell` says which pixels share a cell of the buffer (one of them
  has run over the end of a line without padding), `Reaches` which characters the nine by
  nine pixels of `Font::Draw` can touch. It assumes a font at least two pixels high and a
  screen of at least two columns of it: with one column `Draw` overwrites its own first pixels.

### Library
* `AccountsStayBalanced`: `TimeInv` says that the account of a task off the CPU is closed,
  and that the one on the CPU lacks the interval that began at the last update, or, once
  `tasks_get_self_time` has charged it and not stored its end, at the time that call read.
  Nothing is claimed of `_idle_time`, which `IdleTimeCounted` is about.
* `WalksAlwaysAgree`: `ListInv` says that the nodes of the list are, in the order the
  history keeps, exactly those the next pointers lead to from the head and the prev
  pointers from the tail, none of them twice and none of them removed. A removed node
  keeps its links, so that nothing in the list points to it has to be invariant by itself.
* `GuardsAlwaysHold`: `GuardInv` says that the mutex is held exactly while one frame of
  one task is inside an initialisation, what the initialised bit is at each step of it,
  and, without an abort, whose the in-use bit is; the second check in `acquire` is
  decisive because of it.
* `ConsoleAlwaysRecovers`: `ConsoleInv` adds the ranges of what a later sequence will read
  (the saved cursor, the colours to reset to, the value stack) and that, unless a sequence
  since the stack was last emptied was cut short or stored outside the array, no value is on
  the stack before a bracket, the index is not below the array and no loop has left it. What
  such a sequence does to the next one is `ColorsApplied`'s. It assumes positive sizes, a word
  that can hold a decimal digit and a palette of the sixteen colours.
* `UndisturbedLinesAreWhole`: `LogInv` says that a call which nothing disturbed owns the
  half of the buffer it has written, and its writers so far are an increasing walk
  through the table (`OnPassed`). The mutex does not occur in it, as `LogHelper` has unlocked it.

### Loops
What a loop computes is, in the modules, a recursive function over its rounds: the
function that satisfies the recursion, if there is one. `LoopProofs` first shows that there is:
`LoopDefined`, for a loop whose rounds keep its state in some set. Induction is `CountUp`,
which speaks of the set of the numbers a fact holds of, since no operator can be a
parameter here; it follows from the least number principle. Each loop of the code then has a
lemma that says what it has done after `i` rounds, proved by `CountUp`.

* `MapsAlwaysFreeRanges`: `Scanned` says of the scan before page `v` that either the run it
  counts is the free pages right below `v`, too short so far, with a used page in the way
  of every earlier start (`Searching`), or it stands on the first fit (`FirstFit`).
  `EntryScans` keeps it over a table entry, `TableScans` over a table, also one that is not
  there, whose pages all count at once, and `SearchFinds` over the directory. `MapPageFree`
  and `MapPageUsed` are the two outcomes of mapping a page; `FoundMapped` maps what was found
  page by page, where only memory can be missing. Addresses wrap as in the code: a call for an
  address that wraps is let through and may map anything, so `MappedInRange` is claimed until
  then (`lost`). The assumptions: an address space of whole tables that holds the range.
* `StringsAlwaysExact`: `CopyUp` and `CopyDown` show that in the direction `memmove` chooses
  each byte is read before it is written over. `CopiedText` turns copied bytes and their
  terminator into a text, `FirstDifferenceIs` says where `strcmp` and `memcmp` stop,
  `SwapEndsIs` what `reverse` has exchanged after each round. Of `strstr` and `memcmp` it claims
  that an answer other than NULL and 0 is right. The memory may be of any size and
  hold any characters of seven bits.
* `DirectivesAlwaysExact`: `PrintfInv` adds to the property what the scan knows: between
  directives nothing is left of the last one; inside one nothing was emitted, and the width
  is what the characters so far spell (`Spelled`); and the few directives behind which `fmt`
  was advanced without a test for the end. `DigitsSpell` shows that the digits have the
  value of the number and no leading zero; since each round divides, the recursion is on all
  smaller numbers. `EmittedIs` gives the layout of what `EMIT` puts out (blanks, sign,
  zeroes, body, blanks), `LayoutFills` and `LayoutReads` its length and value. It assumes an even
  `LongMod` and directives of at most eleven characters: a width of nine digits still fits
  an `unsigned int`, one more may not.

### Only model-checked
Liveness is out of the prover's reach and stays with TLC: `ReadyRuns`, `SleepersWake`,
`StoppedCleaned`, `UnlockWakesAll`, `PostWakesAll`, `InterruptProgress`. So do the
violations, which are counterexamples.

## 6. What is not modelled

`PROJECT.json` gives a reason for every component. In short: port writes, descriptor
tables and PIC remapping are straight-line hardware set-up; glyph data and colour
masks are data; liballoc and the boot loader are outside the tree; a panic ends
every behaviour, so its printing is left out. Inside modelled components these are
missing: the TLB (`freePage` invalidates the first page of a range only), the
framebuffer's mapping, `unmap` and address translation of the virtual manager, the
transmit side of the serial port (which takes no mutex), `setUsed` of a section and
`freePage` of the frame manager, which nothing calls, `Logger::Print`, `itoa`, `rand`, the demo
applications, and the nesting of
`pagingLock` inside the scheduler lock (the cleaner frees a stack page under it).

Mutexes are detailed in Mutex only: Serial, Paging, Logger and CxaGuard reduce them
to their holder, so the lost wake-up of `mutex_wakeup` does not appear there.

## 7. Plan

Models: the cleaner's `freePage` under the scheduler lock, over SchedulerLock and
Mutex; the serial port's transmit side; `unmap` with a TLB.

Proofs: the theorems about the scheduler assume that exits are apart and those about
paging that no range is freed beyond the first table; once the code is repaired, the
assumptions go and the proofs should be redone without them.

## 8. Running it

    tlc -config MCScheduler.cfg MCScheduler
    tlapm DeviceProofs.tla

Every property of a passing run has one mutant in `PROJECT.json`: a definition with a plausible fault ("Fault:" in the modules) under
which TLC finds that property violated.
