# Verification of MuffinEMU's concurrent core

MuffinEMU is an iOS port of the Cemu Wii U emulator. The guest operating
system, Cafe OS, is not run: its libraries are re-implemented in C++
("high-level emulation"). The heart of that is `coreinit`, the guest kernel:
its threads, wait queues, mutexes, events, semaphores, alarms and message queues. Three host threads, one per emulated
PowerPC core, execute guest threads as fibers, and every other subsystem waits,
wakes and synchronises through this code. On top of it the iOS application
pauses titles and saves their memory while the cores run.

This directory holds TLA+ modules for that part of the program, TLC
configurations that check them on small instances, and TLAPS proofs of the main
safety properties for every value of the constants. Paths below are relative to
the repository; `coreinit_X.cpp` stands for
`src/Cafe/OS/libs/coreinit/coreinit_X.cpp`.

    tlc -workers 2 -config SchedSuspend.cfg MCCoreScheduler.tla
    tlapm CoreScheduler_proofs.tla

`PROJECT.json` lists the components, runs, theorems, hazards and findings, the
source lines each definition stands for, and for every property a plausible
bug (a "Mutant" operator in the module) that makes TLC report it.

## 1. Inventory

### Modelled

| Component | State | Operations | Hard behaviour |
|---|---|---|---|
| Thread scheduler: `coreinit_Thread.cpp`, `coreinit_ThreadQueue.cpp`, `coreinit_Scheduler.cpp`, `PPCScheduler.cpp`, `util/helpers/Semaphore.h` | per thread: state, suspend counter, affinity, priority, run queue and wait queue links; per core: run queue, counter, current thread; the global scheduler lock; the active list; `sSchedulerActive` | create, resume, suspend, continue, run, exit, join, detach, yield, sleep, wake up, timed sleep, set affinity, set priority; idle loops; start and end of the scheduler | a fiber gives the lock to the next fiber; idle cores look at counters without the lock; a thread is linked in several run queues at once; suspension of a thread that runs elsewhere only counts; a wake-up loop that ends in a reschedule; shutdown against blocked cores; state left over for the next title |
| Title pause and save states: `ios/Bridge/Core/IOSTitlePause.cpp`, `IOSSaveState.cpp` | `sTitlePaused`, one suspension per active thread, the cores' busy flags | pause, resume, save | flags are changed outside the lock that guards what they describe; the save polls busy flags that are published by fibers, not by cores; two host queues call in |
| Message queues: `coreinit_MessageQueue.cpp` | ring buffer, two wait queues | send, high-priority send, receive, peek, blocking or not | a woken thread competes with others for what it was woken for |
| Synchronization objects: `coreinit_Synchronization.cpp` 12-451 | events, rendezvous with one shared event, recursive mutexes and each thread's list of them, conditions, semaphores; a wait queue per object; cancel requests | wait (with timeout), signal one or all, reset; meet; lock, try, unlock; wait and signal a condition; take and give units; cancel and exit | a woken thread competes for what it was woken for; a timeout meets a signal; waiters of different rendezvous share an event; a condition gives back a recursive lock; a thread exits with mutexes |
| Alarms: `coreinit_Alarm.cpp`, waits with a host alarm in `coreinit_Thread.cpp` and `coreinit_Synchronization.cpp` | ordered list of host alarms, `g_soonestAlarm`, guest alarms, the alarm thread and its event | set, set periodic, cancel, fire, sleep, wait with timeout, shutdown | two lists of alarms with two readers of the clock; a check without the lock; 64-bit arithmetic that wraps; host alarms with contexts on guest stacks; a loop that reads the first element of a list it may have emptied |
| Fast mutexes and conditions: `coreinit_Synchronization.cpp` 453-621, `util/helpers/fspinlock.h` | owner, lock count, two wait queues, a process-wide spinlock | lock, try, unlock, wait, signal | two locks, taken in one order by the mutex and only one of them by the condition |

What makes them correct:

* scheduler: lists, back pointers, counters and states never drift apart; no
  thread runs twice or is lost; dispatch follows priority and affinity; joins
  and re-creations only touch threads that are gone; the host gets its threads
  back at shutdown; nobody who can run starves;
* pause: every suspension is taken back exactly once, what the player sees is
  what is in force, and a save writes memory that nobody changes;
* message queues: they are bounded channels, and no one sleeps beside a
  message or a slot;
* synchronization objects: a signal, a unit or a free mutex is never left
  beside a thread that waits for it, a timed wait has one outcome, ownership
  and recursion counts survive conditions, cancellation and exit;
* alarms: every active alarm has something that will fire it, what is due is
  served, and no host alarm outlives the wait it was made for;
* fast mutexes: mutual exclusion with exact recursion counts, no spinner
  waits for a thread without a core, no waiter is left behind.

How they interact: every component blocks and wakes threads through the
scheduler's wait queues while it holds the scheduler lock
(`queueAndWait`, `queueOnly`, `wakeupEntireWaitQueue`,
`wakeupSingleThreadWaitQueue`). The pause uses the scheduler's suspend counters
and active list from host threads that are not cores; timed waits and sleeps
use host alarms, whose handlers end the wait; the alarm thread waits for an event
and calls guest code; shutdown
(`CafeSystem::ShutdownTitle`) calls `OSSchedulerEnd`, `OSAlarm_Shutdown` and
`__OSDeleteAllActivePPCThreads`. Guest code is the environment: any thread that
has a core may make any call that the run allows.

### Not modelled yet, or not at all

`PROJECT.json` lists each part with its reason. Worth modelling, with what
would be asked of them:

* spinlocks with priority boost (`coreinit_Spinlock.cpp`): boosts and deboosts
  balance across recursion, timeouts and the window between the release of the
  lock and the deboost; they run outside the scheduler lock;
* multi-processor task queues, the IPC command pools with their reply threads,
  the IOSU message queues and `proc_ui`'s system message queue: protocols over the
  message queues and objects modelled here.

Not planned: the PowerPC interpreter and recompiler, the MMU, graphics, sound,
network and account services, input, file formats, user interfaces, the
debugger, vendored code. These are data transformations, I/O or third-party
code, where the interesting state is out of a model checker's reach. They are
also nearly all of the repository's lines, so the share of lines that
the modules stand for is small although the guest kernel's concurrent core is
covered for the most part.

Inside the modelled components, left out: deallocators and terminator threads,
thread-specific data, single-core mode, the 256-slot limit of `activeThread`, a
detach or join by a third thread while the re-creation workaround has given up
the lock (`coreinit_Thread.cpp:460`); `IOSSaveState_Load`, which pauses, waits
and resumes as a save does, but in between overwrites guest memory and with it the
states, suspend counters and run queues of all threads, of which the pause
model knows nothing; the file format, the wait for the GPU,
`IOSTitlePause_Forget`; the system message queue's callbacks;
a periodic alarm with period 0, which is refused; whether the handler of an
alarm still runs after `OSCancelAlarm` (the alarm thread calls it without the
lock; nothing in the code promises either way); the 2% that
`OSWaitEventWithTimeout` takes off a timeout, which is some delay here.

## 2. Plan

| Order | Module | Status |
|---|---|---|
| 1 | `ThreadQueue` (lists), `CoreScheduler` (everything under and around the scheduler lock; refines `PriorityScheduler`), proofs | done |
| 2 | `TitlePause` (host pause and saves over an abstract scheduler), proofs | done |
| 3 | `MessageChannel` (abstract) and `MessageQueue` (refines it), proofs | done |
| 4 | `FastMutex`, proofs | done |
| 5 | `Synchronization`: OSEvent with timeouts, OSRendezvous, OSMutex, OSCond, OSSemaphore (refines `CountingSemaphore`), proofs | done |
| 6 | `Alarm`: list of host alarms, alarm thread, cancel, timed waits, shutdown, proofs | done |
| 7 | `Spinlock`: recursion, timeouts, boost balance, interrupt mask | later |
| 8 | scheduler additions: deallocator and terminator threads; the pause together with shutdown (`IOSTitlePause_Forget`) | later |
| 9 | `MPQueue`, IPC pools, IOSU kernel queues | later |

Abstract specifications: strict priorities on every core for the scheduler, a
bounded channel for message queues, a counting semaphore with service of its waiters. For events, mutexes and alarms the promise
is stated as invariants that relate the object to those who wait for it, which
says as much as an abstract object would. To keep checking affordable the runs
of a component are merged where one instance answers several questions.

## 3. Modules and how they correspond to the code

### ThreadQueue

The intrusive lists of `OSThreadQueueInternal` as sequences: `addThread`,
`removeThread`, and insertion by priority, which walks from the tail past less
urgent threads (`IsInsertPoint`, `insertBehind`). The queue need not be sorted
when the walk begins, because `OSSetThreadPriority` does not sort.

### CoreScheduler

One variable per field or global (see the comments at `VARIABLES`). A cluster of three
fields of the emulator that always change together, the active thread queue,
the array `activeThread[]` and the map of fibers, is the set `active`.

*The lock.* `kernel` is the scheduler lock together with what its holder has
left to do. A guest call takes the lock, does its work, and either unlocks or
goes on to `wake` (one loop round of `wakeupEntireWaitQueue` per step),
`store` (`__OSStoreThread`), `pick` (`__OSThreadSwitchToNext`), `exit` and `join`
(the rest of `OSExitThread` and `OSJoinThread`). Splitting the holder's work
into steps matters because the idle loops read `g_coreRunQueueThreadCount`
without the lock: they interleave with each step.

*The cores.* `core[c]` is the host thread's place: at the top of
`__OSThreadCoreIdle`, about to pick with the lock, in `__OSCheckSystemEvents`
(main core only), in `waitUntilNonZero`, running a guest thread, leaving, or
exited. At the end of a title `__OSThreadSwitchToNext` gives up the lock
(`coreinit_Thread.cpp:1331`) before it leaves the fiber of the thread that it
has just stored and queued (`:1332`); `StoreThread` and `LeaveFiber` are therefore two
steps. `current[c]` is the thread that a core has not stored, so a core that is
leaving counts for none in `OneCorePerThread`.

*Suspended fibers.* `resumeAt[t]` records where a blocked call continues, so
that `OSJoinThread` and the re-creation workaround of `OSCreateThread` are the
loops they are in the code.

*The host.* `OSSchedulerEnd`, one `EndWakesCore` per counter, `EndJoinsCores`,
`__OSDeleteAllActivePPCThreads`, `StartNextTitle`.

*The guest.* The set `Ops` names the calls a run allows. Two members are not
calls but licences: `"recreate"` lets the boot thread re-create a thread that
still runs (titles do; it is why the workaround exists), and `"misuse"` lets a
guest end or restart a thread that another one is joining or creating (`MayEnd`), and
stop, join or block one that is expected to finish because it is being created
again (`RunsOn`). A title without misuse is called `WellBehaved` in the proofs.

### PriorityScheduler

What a title is promised, without lock, queues, links and counters: per thread
its state, suspensions, affinity and priority, the threads that exist, and
`running[c]`. `Dispatch` is the only way to a core and takes a most urgent one
of *all* threads that may run there, while `__OSGetNextRunableThread` only ever
looks at one run queue: that the two agree is what exact run queues are for.
`CoreScheduler` refines it with `running` as `RunningThread`: a core has
its thread from the pick until the thread's state is set by a sleep, yield or
exit; that the fiber is left later, in `store` and `pick`, does not show. Each
round of `wakeupEntireWaitQueue` is one `Wake`; taking the lock, the steps of
the idle loops and a join that goes to sleep again are stutters.

### TitlePause

Threads are reduced to what the pause tells apart: whether a thread may run,
its suspensions, and whether its fiber stopped inside a call. `place[c]` refines
the guest mode of a core: between being switched to and raising the flag
(`entry`), inside `attemptEnterThread` (`guest`), flag lowered but lock not
taken (`leaving`), and idle. `asked` is a history variable: the suspensions that the guest
itself asked for. The player's calls (`UiPause`, `UiResume`, then `UiLock`) and
a save (`save.phase`) are split where the code waits for the scheduler
lock, and interleave freely: nothing keeps the two host queues apart. Two more
history variables name what overlaps do: `pausedInSave`, that the player's pause
was made while a save had the title paused (it changes nothing, and the save's
resume ends it), and `crossings`, how often a call changed the flag while one
of the other queue had exchanged it and did not have the lock yet.

### MessageChannel and MessageQueue

`MessageChannel` is the promise: calls take effect at one moment each, on a
sequence of bounded length. `MessageQueue` is the ring with its indices and its
two wait queues; each locked section is one action, and a waiting call tries
again when it runs next (`woken`). `Contents` reads the ring in order and is
the refinement mapping; waiting and waking are stutters of the channel.

### FastMutex

A step is what a thread does under one of the two locks. `TryOwner` takes the
spinlock and keeps it when the mutex belongs to someone else; `Block` then needs
the scheduler lock. `OSFastCond_Wait` frees the mutex under the scheduler
lock and `WaitForSignal` empties the mutex's queue; the lock is kept between
them (`scheduler`), but another host thread can look in. A thread that comes back from
the wait leaves the spinlock with a count of 1 (`TryOwner`) and puts its old
count back without a lock (`RestoreCount`). `Race` says whether a
thread may be at the spinlock meanwhile. `nesting` is a history variable: the
locks a thread has returned from minus its unlocks. `OSFastMutex_Unlock` of a
thread that is not the owner returns without effect and is a stutter. A woken
thread keeps its affinity and suspensions to the scheduler model; here any
thread that is not queued may get any free core.

### CountingSemaphore and Synchronization

One variable per field of the objects: `queue[o]` is the `threadQueue` of
object `o`, ordered as `ThreadQueue` does it. All calls hold the scheduler lock
until they return or reach `queueAndWait`, so a call is one action up to there,
and what follows in the code is an action of its own, guarded by `GoesOn`: the
thread is in the call and in no queue. `call[t]` holds what the code keeps on the
stack (the mutex, `prevLockCount`, the rendezvous and its mask). Wake-ups
that reschedule come last in every call except `OSWaitRendezvous`, whose loop is
therefore a separate step, and the exit of a thread, which unlocks one mutex
per step. `_OSWaitEventWithTimeoutHandler` may come at any time after the call;
that it does come is `Alarm`'s business. `granted` (a signal ended this timed
wait) and `held` (locks minus unlocks) are history variables. `cancelled` is
`REQUEST_FLAG_CANCEL`, which only locking a mutex looks at here.

`program` is chosen once: the calls that the title makes. The programs of
the run keep apart objects that have nothing to do with each other, and combine a
mutex with events and with a semaphore.

`CountingSemaphore` counts units and says that units are taken while somebody
waits. A semaphore that is created with a negative count is in debt, as in the code.

### Alarm

`host[h]` is a host alarm in `g_activeAlarmList`, `alarm[a]` a guest alarm with
its entry of `g_activeAlarms`. The lock-free check of `alarm_update`, its loop (one
action per host alarm fired, with the lock held: `update.at = "firing"`) and the
steps of `_OSAlarmThread` (waiting, reading the time, one scan under the lock, the
callback without it) interleave as in the code; both readers of the clock keep
their own `currentTick`. `OSSleepTicks` and `OSWaitEventWithTimeout` are
`WaitsFor`, their handlers `WaitHandler`, and their ends `WaitReturns`; a title
ends by `ShutdownTitle` and the next one begins in the same step. The order of equal
fire times in the list (by address) is left open.

Where the code does something that C++ leaves undefined, reading `begin()` of
an empty list or calling a handler whose context was on a stack that is gone,
the model records it in `undefined` and stops.

## 4. Runs

| Run | Instance | What it shows |
|---|---|---|
| `SchedSuspend` | 2 threads, 2 cores, 1 guest queue, 2 priorities, 2 masks, suspend bound 2; 389,392 states | create, create again while running, run, suspend, resume, continue, move, re-prioritise, sleep, wake, yield, join, detach, exit: types, exact run and wait queues, one core per thread, joins that reap only what has exited, creations that find their structure free, dispatch in order, a lock that every holder gives back, and strict priorities (`PriorityScheduler`), exact active list included |
| `SchedFair` | 2 threads of equal priority, 2 cores, fair; 2,749 states | no runnable thread starves, joiners of an exited thread return |
| `SchedShutdown` | 2 threads, 2 cores, 2 titles, fair; 22,041 states | the title ends at any moment: other cores stop; in every title counters are never too low, with what `OSSchedulerEnd` adds, and in the first one exact |
| `SchedShutdownHangs` | violation of `ShutdownCompletes` | the main core's host thread need not stop |
| `PauseSave` | 2 threads, 2 cores, 1 crossing, fair; 547,804 states | pauses and resumes before, after and in the middle of saves: the title is paused for the player or for a save, a player's pause ends unasked only if made during one, suspensions are left behind only by a crossing, every pause takes effect |
| `SaveQuiescence` | the same without crossings, violation of `QuiescentDuringSave` | a save writes while a core runs guest code |
| `PauseOverlap` | the same with 1 crossing, violation of `NoThreadLeftSuspended` | a resume overtakes a save's pause |
| `MsgQueue` | 3 threads of 2 priorities, 2 messages, 2 slots, symmetry; 75,525 states | no message or slot is missed, the ring implements the channel |
| `FastMutex` | 3 threads of 2 priorities, 2 cores, 2 nested locks, symmetry; 4,352 states | mutual exclusion with exact counts, no stuck spinner, no waiter left behind, no deadlock of cores, locks and mutex |
| `FastCondLosesWaiter` | the same with `Race`, violation of `NoWaiterLeft` | a waiter queues itself at a mutex that was just freed |
| `Synchronization` | 3 threads on 3 cores, 2 priorities, an AUTO and a MANUAL event, 2 rendezvous, 2 mutexes, a semaphore that starts at -1, 6 programs, fair; 292,948 states | events, timeouts, rendezvous, recursive mutexes, conditions, cancellation, exit, semaphores: signals, units and free mutexes find their waiters, one outcome per timed wait, exact ownership, the counting semaphore |
| `Alarm` | a ticker and an alarm of the title, 1 waiting thread, 5 host alarms, ticks of 3 bits, clock up to 2, fair; 217,192 states | no active alarm is lost, the list is emptied only before the tickers run, periodic alarms stay within a period, host alarms end with their waits, what is due is served |

**Bounds, and why they are enough.** Two cores give every interleaving of "this
core" with "another core", and one of them is the main core, whose idle loop
differs; a third core would be another "other". Two threads let each suspend,
move, wake, join and detach the other while it runs; a third one is needed in a mutex or
a rendezvous where two threads wait, and in a ring or semaphore where a third thread
snatches what a woken one was promised. Two slots
are the smallest ring that wraps and in which front and back differ. Two nested
locks distinguish "restored" from "reset to one". One crossing is enough to leave
suspensions behind, and the flag goes on changing after it. A semaphore
that starts at -1 shows a signal that pays a debt and wakes threads for
nothing. Ticks of three bits wrap at 8, and a start or a delay close to that makes `ticksSinceStart` and
`now + delay` wrap as a start in the future does with 64 bits; a clock that
reaches 2 lets alarm and host alarm fire at different times, with either reader of the clock
ahead; an alarm whose new host alarm may or may not be the old object needs two
of them. `MaxSuspend`, `MaxNest`, `MaxLockCount`, `MaxCount`, `MaxTime`, `MaxCrossings` and
`MaxTitles` are the only bounds on counters; they occur in guards, and
the safety properties do not depend on them, as the proofs show, which hold for every value.

**Deadlock** is checked except in `SchedShutdown`, `SchedShutdownHangs` (a title
that has ended stops), `MsgQueue`, `Synchronization` and the two `FastMutex` runs (guest threads may all wait
for one another or have exited; that is the guest's affair), and `Alarm` (the
bounded clock has run out, or the program has done what C++ does not define).

**Symmetry** is used only in runs without liveness properties
(`ImplementsChannel` is an initial predicate and a step predicate).

**Fairness.** `CoreScheduler`: weak fairness of the holder's steps (a host
thread inside the lock runs on) and of the lock-free parts of the idle loops and
of the host; strong fairness of whatever has to win the scheduler lock
(`IdlePick`, `PollAgain`, the end of the events phase) and of the end of a timeslice
(`OSYieldThread`): `remainingCycles` runs out in every guest loop, and host
mutexes let a waiting thread through in the end. Timers fire (`TimerFires`),
because the main core's idle loop looks at the alarms every round. No fairness is assumed
of any other guest call: a guest need never wake, resume or exit. Equal
priorities are essential to `NoStarvation`, since the scheduler is strictly
by priority. `TitlePause`: a timeslice is entered and ends, and the core reschedules.
`Synchronization`: a woken thread runs again; in the run each thread has a core
of its own, so nothing more urgent can keep it away. `Alarm`: time passes, the
main core comes by `alarm_update` (it goes through its idle loop between any two
threads, `coreinit_Thread.cpp:1350`, and checks events in each round), and the
alarm thread runs and its callbacks return. No fairness is assumed of the waits or of what titles set.

## 5. What is proved

All theorems hold for any number of threads, cores, queues, slots and
priorities, under the named assumptions on the constants (`CoreAssumption`,
`ThreadAssumption`, `GuestAssumption`, `TitleAssumption`, `QueueAssumption`,
`FastMutexAssumption`, `ObjectAssumption`, `AlarmAssumption`: constants have their types, the boot thread and main core
exist, `None` is neither thread nor core nor message), which TLC evaluates in the runs.

**`CoreScheduler_proofs`**: types, `RunQueuesExact`, `OneCorePerThread`,
`WaitQueuesExact`, `ActiveExact`, `CountersExact`, `JoinSeesMoribund`,
`RecreateSeesInactive`, `DispatchInOrder`,
each for `WellBehaved` guests. None of them is inductive alone. `IInv` adds `KernelOK` (what the holder still has to do
determines where its core is and what state its thread is in, otherwise a step
of the holder could not be known to find its thread), `PendingOK` (no two
threads join or create one target; a thread under creation is inactive),
`JoinsOK` (a joiner is in the target's join queue until the target's exit wakes
it, and after that the target is MORIBUND or about to be), and
`CoresJoined` (no core runs after the host joined them, so teardown races with
nobody). A creation that polls needs `PollsOK` besides: only the boot thread polls, never for
itself, and a thread it polls for stays READY or RUNNING and not suspended until it has
exited; otherwise the loop of the workaround would end with the old thread still linked. `CountersExact` needs `Lockstep`: every step changes counter and length
of a run queue by the same amount. That rests on `MoveOnRunQueuesProperties`,
which needs each thread on a queue at most once. From `CountersExact` and the
roles of the cores (`RolesOK`: only cores other than the main one block)
follows `NoWakeupOfACoreIsLost`: a core in `waitUntilNonZero` that has something
to do, a thread in its run queue or its end, finds a counter that is not 0,
although the counter is changed and looked at without a common lock.
`ActiveExact` is no property of a run of its own: `SchedSuspend` checks the active list
through the refinement.

**`PriorityScheduler_proofs`**: `SchedulerKeepsPromise`, that the scheduler implements
`PriorityScheduler`, action by action from the effect on `RunningThread`
(thread stopped, woken, reaped, dispatched, or untouched). The step that needs an argument is the
dispatch: by `RunQueuesExact` the run queue of the core holds just the threads
that may run there. `LockAlwaysGivenBack` proves that each step of the holder of the lock makes
`Remaining` smaller, and `HolderNeverStuck` that the holder has a next step
in every reachable state, because what it looks for is there: a thread to
choose, when its queue is not empty (`NextRunableUnique`). Together they say that no core
keeps the lock, which is the safety side of every liveness property.

**`ThreadQueue_proofs`**: what inserting, appending and unlinking do to the
members, length and freedom from duplicates of a list; that insertion finds one and only one place,
also in an unsorted list; and that inserting, taking the first and unlinking keep a sorted
list sorted. That needs priorities that do not change while a thread waits,
as in `FastMutex`, `MessageQueue` and `Synchronization`. There the
thread that a wake-up takes is therefore always a most urgent one
(`UnlockWakesTheMostUrgent`, `MessagesWakeTheMostUrgent`,
`WakeupsReachTheMostUrgent`), whatever the order of waits, wake-ups and
retries. Nothing of the kind is claimed for the wait queues of `CoreScheduler`, where
`OSSetThreadPriority` may leave a queue unsorted.

**`TitlePause_proofs`**, for any overlap of player and saves: types,
`PauseIsWhatPlayerSees`, `OnlyCrossingsLeaveSuspensions`. `FlagOK` says for
whom the flag is set in each phase of a save. The rest, `CallsOK`, holds until
the first crossing: `InTurn` ties each call that has not got the lock to the
flag, `HostHolds` says when the host's suspensions are in force, and
`SuspensionsOK` bounds each counter by the guest's own suspensions plus one
while they are. That the first crossing really ends it is what `PauseOverlap` shows.
`PausedStaysQuiet` completes what TLC checks with `PauseSettles`: once the
paused title is at rest, no step of cores, timers, guest or saves sets it in motion while it
stays paused and no call crosses another.

**`MessageQueue_proofs`**: types, `NoMissedMessage`, `NoMissedSlot`, and
`QueueImplementsChannel`, the refinement. The invariant adds that used slots
hold messages (`SlotsFilled`); the refinement is proved action by action from
what each index assignment does to `Contents`. `SomeoneIsAwake`: receivers and
senders never all sleep beside each other, although each call wakes one thread at most.

**`FastMutex_proofs`**: types, `LocksExact` and `SpinnersProgress`
whatever threads do, from `PlacesOK` (a thread's place decides which locks it
holds and whether it has a count to restore); `NoWaiterLeft` for `~Race`, from
`Orderly` (a thread that is about to queue itself still sees the mutex locked;
nobody holds the spinlock while a wait on the condition frees the mutex).
`LocksNeverCycle` shows, with and without `Race`, that the spinlock and the scheduler lock,
taken one inside the other, never wait for each other;
`OnlySignalsAreWaitedFor` proves `StopsOnlyForSignals` for `~Race`: the threads can
only come to a stop when each of them waits for a signal. With `Race` it is
false, as a waiter that is left behind stops as well.

**`Synchronization_proofs`**: all seven invariants of the run, and that each step
is a step or stutter of `CountingSemaphore`. Their conjunction is nearly inductive:
only `NoResultWhileWaiting` (a thread in a queue has neither timed out nor been
granted a signal) is missing, without which a handler could not be known to meet
a fresh wait. `FreeMutexIsComeFor` is what makes unlocking one waiter
enough: the woken thread, or whoever takes the mutex before it, unlocks again.
The proof goes by groups of actions, and four frame lemmas say which variables
the parts about events, rendezvous, semaphores and mutexes rest on. `NoMutexIsLost` goes
further than the run: whoever waits for a mutex waits for another thread, which owns
the mutex and has not exited, or for a woken thread that comes for it. It needs
`NobodyWaitsForItself`, an invariant of its own over `IInv`.

**`Alarm_proofs`**: all safety properties of the run, `WaitsEndTheirAlarms` among
them as an action property. The inductive invariant adds who owns a host alarm
(`HostsOwned`), that tickers stay periodic and listed (`TickersRepeat`), that the alarm
thread does not wait at a signaled event (`SignalFindsThread`), that an alarm and
its host alarm are a whole number of periods apart (`InStep`), and, the heart
of it, that the alarm thread comes for the last time for which a host alarm has
fired (`Coverage`): without it, firing the host alarm could leave the guest
alarm to nobody. The assumption that clock and period stay below the
largest tick excludes only guests with periods near 2^64 ticks. `QuickCheckMissesNothing`
proves what `DueIsServed` rests on: `g_soonestAlarm`, which the main core reads
without the lock, is never later than an alarm in the list.

**Only model-checked**: the liveness properties (`NoStarvation`, `JoinReturns`,
`OtherCoresStop`, `PauseSettles`, `DueIsServed`, the fairness part of
`ImplementsSemaphore`), since the proof system does not reason about
fairness and ENABLED; guest misuse (outside
`WellBehaved`); what the violation runs show.

## 6. Findings

* **Shutdown can hang** (`SchedShutdownHangs`). `OSSchedulerEnd` raises each
  counter "to wake up cores" and joins the host threads, but the idle loop checks
  `sSchedulerActive` only on the other cores' branch
  (`coreinit_Thread.cpp:1305`). The main core with nothing to run polls events
  for ever. In practice a periodic timer that readies a thread on the main core
  would get it out through `__OSThreadSwitchToNext`.
* **A save may write while a core runs** (`SaveQuiescence`). A fiber raises its
  core's busy flag only after it was dispatched (and after a throttle sleep), and a
  fiber that continues in the middle of a call does not raise the flag of the
  core it now runs on.
* **A resume can overtake a pause** (`PauseOverlap`). The pause flag is exchanged
  before the scheduler lock is taken; a player's resume in that window resumes
  nothing yet and clears the flag, the save then suspends everything, and its
  own resume finds the flag clear. `PauseSave` shows the other side: nothing but such a
  crossing leaves suspensions behind.
* **A fast condition can lose a waiter of its mutex** (`FastCondLosesWaiter`).
  `OSFastCond_Wait` frees the mutex and empties its queue without the spinlock
  under which `OSFastMutex_LockInternal` decided to queue itself.

Met while modelling and not kept as runs: the increment at
`coreinit_Thread.cpp:1510` and the counts of threads deleted while queued are
never taken back, so that the idle cores of the next title spin instead of
blocking (`CountersExact` claims the exact count for the first title and a lower bound for the others);
`updateAlarms` reads `begin()` of an empty list when the only host alarm was a
one-shot one, which only the periodic alarms of padscore and vpad prevent
(`EmptyListOnlyBeforeTickers`); `OSAlarm_Shutdown` without active alarms leaves
host alarms of sleeping threads to the next title (`WaitsEndTheirAlarms` is
stated for titles with one); when a guest detaches a thread that
another thread is joining (`"misuse"`), the assertion at
`coreinit_Thread.cpp:766` fails because `OSJoinThread` does not look again; when a
guest re-creates a thread that then blocks instead of finishing, the workaround
leaves its loop and the assertion at `coreinit_Thread.cpp:467` fails; the
assertion at `coreinit_ThreadQueue.cpp:156` can fail: between
`coreinit_Synchronization.cpp:607`, where a wait on the condition frees the mutex, and
`:609`, where it empties the queue, a second thread locks and unlocks the mutex and
sees a waiter (`:572`), who is gone when it has the scheduler lock. That is `UnlockFindsWaiter` of `FastMutex`, which no run
states, because it follows at once where `Race` is FALSE; with it in the place of
`NoWaiterLeft` in `FastCondLosesWaiter.cfg` TLC prints the steps. A pause that
the player makes while a save has the title paused does nothing and ends with the
save, though the player still sees "paused" (`pausedInSave`). At the end
of a title an idle core may take the thread that another core has queued and
whose fiber it has not left (`LeaveFiber`), so that two host threads
are on one fiber; it has no consequence for the properties, which are about
queues and counters, and the window is a few instructions long;
read in the code and not modelled: a new title sets the terminator threads'
semaphores back to 0 (`__OSInitTerminatorThreads`) but leaves the
`queueDeallocators` of the title before as they are, so that an entry left there would be
taken for the first signal of the next title.
