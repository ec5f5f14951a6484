-------------------------- MODULE Synchronization --------------------------
(***************************************************************************)
(* The objects of coreinit_Synchronization.cpp: OSEvent, OSRendezvous,     *)
(* OSMutex, OSCond and OSSemaphore.  Every call runs under the scheduler   *)
(* lock up to the point where it returns or calls queueAndWait; a thread   *)
(* that was woken goes on from there when it runs next.  Whether a wake-up *)
(* also switches to the woken thread is an interleaving here.              *)
(***************************************************************************)
EXTENDS Integers, Sequences, FiniteSets, ThreadQueue

CONSTANTS
    Thread, None,
    priority,         \* effective priorities, 0 is the most urgent
    Core, coreOf,     \* the core a thread runs on
    Event, mode,      \* guest events and their OSInitEvent modes, "AUTO" or "MANUAL"
    rendezvousEvent,  \* g_rendezvousEvent, shared by all rendezvous
    Rendezvous,
    CoreMasks,        \* the sets of cores that rendezvous wait for
    Mutex, cond, semaphore,
    initialCount,     \* of the semaphore
    MaxCount,         \* bound: the semaphore is not signaled beyond
    MaxLockCount,     \* bound: a mutex is not locked more often by its owner
    Programs          \* what titles may call

Object == Event \union {rendezvousEvent} \union Mutex \union {cond, semaphore}

ASSUME ObjectAssumption ==
    /\ None \notin Thread
    /\ priority \in [Thread -> Nat] /\ coreOf \in [Thread -> Core]
    /\ CoreMasks \subseteq SUBSET Core
    /\ mode \in [Event \union {rendezvousEvent} -> {"AUTO", "MANUAL"}]
    /\ mode[rendezvousEvent] = "AUTO"
    /\ rendezvousEvent \notin Event
    /\ (Event \union {rendezvousEvent}) \intersect Mutex = {}
    /\ cond # semaphore
    /\ {cond, semaphore} \intersect (Event \union {rendezvousEvent} \union Mutex) = {}
    /\ initialCount \in Int /\ MaxCount \in Int /\ MaxLockCount \in Nat

VARIABLES
    queue,        \* the threadQueue of every object
    signaled,     \* events in STATE_SIGNALED
    hostAlarm,    \* threads whose OSWaitEventWithTimeout has an active host alarm
    hasTimeout,   \* threads whose wait the host alarm has cancelled
    owner, lockCount,   \* of every mutex
    mutexQueue,   \* the mutexes a thread holds, in the order of locking
    cancelled,    \* threads with REQUEST_FLAG_CANCEL
    count,        \* of the semaphore
    coreHit,      \* the cores that have arrived at a rendezvous
    call,         \* the call a thread is in
    granted,      \* history: timed waits that a signal has ended
    held,         \* history: how often a thread has locked a mutex and not unlocked it
    program       \* what the title calls

eventVars == <<signaled, hostAlarm, hasTimeout, granted>>
mutexVars == <<owner, lockCount, mutexQueue, held>>
vars == <<queue, eventVars, mutexVars, cancelled, count, coreHit, call, program>>

NoCall == [op |-> "none"]
Calls(t, op) == call[t] = NoCall /\ op \in program
Enters(t, request) == call' = [call EXCEPT ![t] = request]
Returns(t) == Enters(t, NoCall)
InCall(t, op) == call[t].op = op

\* A thread is WAITING while it is in a wait queue, and READY or running else.
IsWaiting(t) == \E o \in Object : t \in Threads(queue[o])

\* A thread that was woken in the call op goes on with it.
GoesOn(t, op) == InCall(t, op) /\ ~IsWaiting(t)

queueAndWait(t, o) ==
    \E i \in 0 .. Len(queue[o]) :
      /\ IsInsertPoint(queue[o], t, priority, i)
      /\ queue' = [queue EXCEPT ![o] = insertBehind(queue[o], i, t)]

wakeupEntireWaitQueue(o) == queue' = [queue EXCEPT ![o] = <<>>]
wakeupSingleThreadWaitQueue(o) == queue' = [queue EXCEPT ![o] = Tail(@)]
-----------------------------------------------------------------------------
(* OSEvent.                                                                 *)

\* An event in AUTO mode is reset by the wait that finds it signaled.
TakeSignal(e) == signaled' = IF mode[e] = "AUTO" THEN signaled \ {e} ELSE signaled

OSResetEvent(t, e) ==
    /\ Calls(t, "resetEvent")
    /\ signaled' = signaled \ {e}
    /\ UNCHANGED <<queue, hostAlarm, hasTimeout, granted, call>>

OSWaitEvent(t, e) ==
    /\ Calls(t, "waitEvent")
    /\ \/ /\ e \in signaled /\ TakeSignal(e)
          /\ UNCHANGED <<queue, call>>
       \/ /\ e \notin signaled /\ queueAndWait(t, e)
          /\ Enters(t, [op |-> "event", event |-> e])
          /\ UNCHANGED signaled
    /\ UNCHANGED <<hostAlarm, hasTimeout, granted>>

WaitEventReturns(t) ==
    /\ GoesOn(t, "event") /\ Returns(t)
    /\ UNCHANGED <<queue, eventVars>>

\* A timeout of 0 fails without waiting and changes nothing.
OSWaitEventWithTimeout(t, e) ==
    /\ Calls(t, "waitEventWithTimeout")
    /\ \/ /\ e \in signaled /\ TakeSignal(e)
          /\ UNCHANGED <<queue, hostAlarm, call>>
       \/ /\ e \notin signaled /\ queueAndWait(t, e)
          /\ Enters(t, [op |-> "timed", event |-> e])
          /\ hostAlarm' = hostAlarm \union {t}
          /\ UNCHANGED signaled
    /\ UNCHANGED <<hasTimeout, granted>>

CancelWait(t) ==
    /\ hasTimeout' = hasTimeout \union {t}
    /\ queue' = [queue EXCEPT ![call[t].event] = removeThread(@, t)]

\* Mutant: the state of the thread is not looked at.
TimeoutOfAnyState(t) ==
    /\ t \in hostAlarm /\ hostAlarm' = hostAlarm \ {t}
    /\ hasTimeout' = hasTimeout \union {t}
    /\ queue' = IF IsWaiting(t) THEN [queue EXCEPT ![call[t].event] = removeThread(@, t)]
                ELSE queue
    /\ UNCHANGED <<signaled, granted, call>>

\* The host alarm fires, at any time after the call: it is a one-shot alarm.
_OSWaitEventWithTimeoutHandler(t) ==
    /\ t \in hostAlarm /\ hostAlarm' = hostAlarm \ {t}
    /\ \/ IsWaiting(t) /\ CancelWait(t)
       \/ ~IsWaiting(t) /\ UNCHANGED <<hasTimeout, queue>>
    /\ UNCHANGED <<signaled, granted, call>>

\* The call destroys the host alarm and returns whether it has not fired in time.
TimedWaitReturns(t) ==
    /\ GoesOn(t, "timed") /\ Returns(t)
    /\ hostAlarm' = hostAlarm \ {t}
    /\ hasTimeout' = hasTimeout \ {t} /\ granted' = granted \ {t}
    /\ UNCHANGED <<queue, signaled>>

\* A signal takes the threads of ts out of the queue of e, which has to be
\* done to the first one or to all.
Grants(ts) == granted' = granted \union {t \in ts : InCall(t, "timed")}

WakesFirst(e) == wakeupSingleThreadWaitQueue(e) /\ Grants({Head(queue[e])})
WakesAll(e) == wakeupEntireWaitQueue(e) /\ Grants(Threads(queue[e]))

\* OSSignalEventInternal and OSSignalEventAllInternal, which differ in whom
\* they wake in AUTO mode.  Nothing happens to an event that is signaled.
SignalWith(e, WakesSome(_)) ==
    \/ e \in signaled /\ UNCHANGED <<signaled, queue, granted>>
    \/ /\ e \notin signaled /\ mode[e] = "AUTO" /\ queue[e] = <<>>
       /\ signaled' = signaled \union {e}
       /\ UNCHANGED <<queue, granted>>
    \/ /\ e \notin signaled /\ mode[e] = "AUTO" /\ queue[e] # <<>>
       /\ WakesSome(e)
       /\ UNCHANGED signaled
    \/ /\ e \notin signaled /\ mode[e] = "MANUAL"
       /\ signaled' = signaled \union {e}
       /\ WakesAll(e)

\* Mutant: the event stays signaled although a thread has got the signal.
SignalTwice(e) ==
    /\ signaled' = signaled \union {e}
    /\ \/ (e \in signaled \/ queue[e] = <<>>) /\ UNCHANGED <<queue, granted>>
       \/ /\ e \notin signaled /\ queue[e] # <<>>
          /\ IF mode[e] = "AUTO" THEN WakesFirst(e) ELSE WakesAll(e)

OSSignalEventInternal(e) == SignalWith(e, WakesFirst)

\* Mutant: one of the threads that wait is woken.
SignalAllToOne(e) == SignalWith(e, WakesFirst)
OSSignalEventAllInternal(e) == SignalWith(e, WakesAll)

OSSignalEvent(t, e) ==
    /\ Calls(t, "signalEvent") /\ OSSignalEventInternal(e)
    /\ UNCHANGED <<hostAlarm, hasTimeout, call>>

OSSignalEventAll(t, e) ==
    /\ Calls(t, "signalEventAll") /\ OSSignalEventAllInternal(e)
    /\ UNCHANGED <<hostAlarm, hasTimeout, call>>

EventStep(t) ==
    \/ \E e \in Event :
          \/ OSResetEvent(t, e) \/ OSWaitEvent(t, e) \/ OSWaitEventWithTimeout(t, e)
          \/ OSSignalEvent(t, e) \/ OSSignalEventAll(t, e)
    \/ WaitEventReturns(t) \/ _OSWaitEventWithTimeoutHandler(t) \/ TimedWaitReturns(t)
-----------------------------------------------------------------------------
(* OSRendezvous.                                                            *)

OSInitRendezvous(t, r) ==
    /\ Calls(t, "initRendezvous")
    /\ coreHit' = [coreHit EXCEPT ![r] = {}]
    /\ UNCHANGED <<queue, eventVars, call>>

\* The thread arrives; the wake-up may let the woken threads run before it
\* looks at who is still missing.
OSWaitRendezvous(t, r, coreMask) ==
    /\ Calls(t, "waitRendezvous")
    /\ coreHit' = [coreHit EXCEPT ![r] = @ \union {coreOf[t]}]
    /\ OSSignalEventAllInternal(rendezvousEvent)
    /\ Enters(t, [op |-> "rendezvous", rendezvous |-> r, coreMask |-> coreMask])
    /\ UNCHANGED <<hostAlarm, hasTimeout>>

metAll(t) == call[t].coreMask \subseteq coreHit[call[t].rendezvous]

\* The loop: an event that is found signaled is reset and the loop looks
\* again, to find the same cores missing.
RendezvousLoop(t) ==
    /\ GoesOn(t, "rendezvous")
    /\ \/ metAll(t) /\ Returns(t) /\ UNCHANGED <<queue, signaled>>
       \/ /\ ~metAll(t) /\ queueAndWait(t, rendezvousEvent)
          /\ signaled' = signaled \ {rendezvousEvent}
          /\ UNCHANGED call
    /\ UNCHANGED <<hostAlarm, hasTimeout, granted, coreHit>>

RendezvousStep(t) ==
    \/ \E r \in Rendezvous :
          OSInitRendezvous(t, r) \/ \E coreMask \in CoreMasks : OSWaitRendezvous(t, r, coreMask)
    \/ RendezvousLoop(t)
-----------------------------------------------------------------------------
(* OSMutex and OSCond.                                                      *)

HeldBecomes(t, m, n) == held' = [held EXCEPT ![t][m] = n]

\* t has locked m with the recursion count n.
Locks(t, m, n) ==
    /\ owner' = [owner EXCEPT ![m] = t]
    /\ lockCount' = [lockCount EXCEPT ![m] = n]
    /\ mutexQueue' = IF owner[m] = t THEN mutexQueue
                     ELSE [mutexQueue EXCEPT ![t] = Append(@, m)]

Frees(t, m) ==
    /\ owner' = [owner EXCEPT ![m] = None]
    /\ lockCount' = [lockCount EXCEPT ![m] = 0]
    /\ mutexQueue' = [mutexQueue EXCEPT ![t] = removeThread(@, m)]

LockedOnceMore(t, m) == IF owner[m] = t THEN lockCount[m] + 1 ELSE 1

\* OSLockMutexInternal for a mutex of somebody else: wait, and try again.
LockWaits(t, m) ==
    /\ owner[m] \notin {None, t} /\ queueAndWait(t, m)
    /\ UNCHANGED mutexVars

\* OSTestThreadCancelInternal makes the thread leave instead.
OSLockMutex(t, m) ==
    /\ Calls(t, "lockMutex") /\ t \notin cancelled
    /\ \/ /\ owner[m] \in {None, t} /\ lockCount[m] < MaxLockCount
          /\ Locks(t, m, LockedOnceMore(t, m)) /\ HeldBecomes(t, m, held[t][m] + 1)
          /\ UNCHANGED <<queue, call>>
       \/ LockWaits(t, m) /\ Enters(t, [op |-> "lock", mutex |-> m])
    /\ UNCHANGED cancelled

LockLoop(t) ==
    /\ GoesOn(t, "lock")
    /\ LET m == call[t].mutex IN
       \/ /\ owner[m] \in {None, t}
          /\ Locks(t, m, LockedOnceMore(t, m)) /\ HeldBecomes(t, m, held[t][m] + 1)
          /\ Returns(t) /\ UNCHANGED queue
       \/ LockWaits(t, m) /\ UNCHANGED call
    /\ UNCHANGED cancelled

\* A mutex of somebody else makes it fail, which changes nothing.
OSTryLockMutex(t, m) ==
    /\ Calls(t, "tryLockMutex") /\ t \notin cancelled
    /\ owner[m] \in {None, t} /\ lockCount[m] < MaxLockCount
    /\ Locks(t, m, LockedOnceMore(t, m)) /\ HeldBecomes(t, m, held[t][m] + 1)
    /\ UNCHANGED <<queue, call, cancelled>>

LockingCancelled(t) ==
    /\ Calls(t, "lockMutex") \/ Calls(t, "tryLockMutex")
    /\ t \in cancelled /\ Enters(t, [op |-> "exit"])
    /\ UNCHANGED <<queue, mutexVars, cancelled>>

WakesNextOwner(m) ==
    \/ queue[m] # <<>> /\ wakeupSingleThreadWaitQueue(m)
    \/ queue[m] = <<>> /\ UNCHANGED queue

\* Unlocking a mutex that the thread does not own is refused.
OSUnlockMutex(t, m) ==
    /\ Calls(t, "unlockMutex") /\ owner[m] = t
    /\ HeldBecomes(t, m, held[t][m] - 1)
    /\ \/ /\ lockCount[m] > 1 /\ lockCount' = [lockCount EXCEPT ![m] = @ - 1]
          /\ UNCHANGED <<queue, owner, mutexQueue>>
       \/ lockCount[m] = 1 /\ Frees(t, m) /\ WakesNextOwner(m)
    /\ UNCHANGED <<call, cancelled>>

OSSignalCond(t) ==
    /\ Calls(t, "signalCond") /\ wakeupEntireWaitQueue(cond)
    /\ UNCHANGED <<mutexVars, cancelled, call>>

\* Mutant: those who wait for the mutex are not woken.
WaitCondWakesNobody(t, m) ==
    /\ Calls(t, "waitCond") /\ owner[m] = t
    /\ Frees(t, m) /\ queueAndWait(t, cond)
    /\ Enters(t, [op |-> "cond", mutex |-> m, prevLockCount |-> lockCount[m]])
    /\ UNCHANGED <<held, cancelled>>

\* The owner of m frees it however often it has locked it, wakes everybody
\* who wants it and waits, all under one scheduler lock.
OSWaitCond(t, m) ==
    /\ Calls(t, "waitCond") /\ owner[m] = t
    /\ Frees(t, m)
    /\ \E i \in 0 .. Len(queue[cond]) :
          /\ IsInsertPoint(queue[cond], t, priority, i)
          /\ queue' = [queue EXCEPT ![m] = <<>>, ![cond] = insertBehind(@, i, t)]
    /\ Enters(t, [op |-> "cond", mutex |-> m, prevLockCount |-> lockCount[m]])
    /\ UNCHANGED <<held, cancelled>>

\* Mutant: the recursion count is not restored.
CondLoopLocksOnce(t) ==
    /\ GoesOn(t, "cond")
    /\ LET m == call[t].mutex IN
       \/ /\ owner[m] \in {None, t} /\ Locks(t, m, LockedOnceMore(t, m))
          /\ Returns(t) /\ UNCHANGED <<queue, held>>
       \/ LockWaits(t, m) /\ UNCHANGED call
    /\ UNCHANGED cancelled

CondLoop(t) ==
    /\ GoesOn(t, "cond")
    /\ LET m == call[t].mutex IN
       \/ /\ owner[m] \in {None, t} /\ Locks(t, m, call[t].prevLockCount)
          /\ Returns(t) /\ UNCHANGED <<queue, held>>
       \/ LockWaits(t, m) /\ UNCHANGED call
    /\ UNCHANGED cancelled

\* Mutant: every thread that is cancelled leaves at once.
CancelAtOnce(t, u) ==
    /\ Calls(t, "cancelThread")
    /\ cancelled' = cancelled \union {u}
    /\ Enters(u, [op |-> "exit"])
    /\ UNCHANGED <<queue, mutexVars>>

\* A thread that cancels itself leaves at once.
OSCancelThread(t, u) ==
    /\ Calls(t, "cancelThread")
    /\ cancelled' = cancelled \union {u}
    /\ IF u = t THEN Enters(t, [op |-> "exit"]) ELSE UNCHANGED call
    /\ UNCHANGED <<queue, mutexVars>>

OSExitThread(t) ==
    /\ Calls(t, "exitThread") /\ Enters(t, [op |-> "exit"])
    /\ UNCHANGED <<queue, mutexVars, cancelled>>

\* The mutexes of the thread are unlocked one after the other, each as often
\* as it is locked; the wake-up may let others run in between.  The case of a
\* mutex in the list that the thread does not own is dead by MutexesExact.
ExitUnlocks(t) ==
    /\ InCall(t, "exit") /\ mutexQueue[t] # <<>>
    /\ LET m == Head(mutexQueue[t]) IN
       owner[m] = t /\ Frees(t, m) /\ HeldBecomes(t, m, 0) /\ WakesNextOwner(m)
    /\ UNCHANGED <<call, cancelled>>

ExitEnds(t) ==
    /\ InCall(t, "exit") /\ mutexQueue[t] = <<>>
    /\ Enters(t, [op |-> "exited"])
    /\ UNCHANGED <<queue, mutexVars, cancelled>>

MutexStep(t) ==
    \/ \E m \in Mutex :
          OSLockMutex(t, m) \/ OSTryLockMutex(t, m) \/ OSUnlockMutex(t, m) \/ OSWaitCond(t, m)
    \/ \E u \in Thread : OSCancelThread(t, u)
    \/ LockLoop(t) \/ CondLoop(t) \/ LockingCancelled(t) \/ OSSignalCond(t)
    \/ OSExitThread(t) \/ ExitUnlocks(t) \/ ExitEnds(t)
-----------------------------------------------------------------------------
(* OSSemaphore.                                                             *)

TakesUnit == count > 0 /\ count' = count - 1 /\ UNCHANGED queue

OSWaitSemaphore(t) ==
    /\ Calls(t, "waitSemaphore")
    /\ \/ TakesUnit /\ UNCHANGED call
       \/ /\ count <= 0 /\ queueAndWait(t, semaphore)
          /\ Enters(t, [op |-> "semaphore"])
          /\ UNCHANGED count

\* Mutant: a woken thread takes its unit without looking again.
SemaphoreLoopOnce(t) ==
    /\ GoesOn(t, "semaphore")
    /\ count' = count - 1 /\ Returns(t)
    /\ UNCHANGED queue

SemaphoreLoop(t) ==
    /\ GoesOn(t, "semaphore")
    /\ \/ TakesUnit /\ Returns(t)
       \/ count <= 0 /\ queueAndWait(t, semaphore) /\ UNCHANGED <<count, call>>

\* Without a unit it fails, which changes nothing.
OSTryWaitSemaphore(t) == Calls(t, "tryWaitSemaphore") /\ TakesUnit /\ UNCHANGED call

\* Mutant: one thread is woken for the unit.
SignalSemaphoreToOne(t) ==
    /\ Calls(t, "signalSemaphore") /\ count < MaxCount
    /\ count' = count + 1
    /\ IF queue[semaphore] = <<>> THEN UNCHANGED queue
       ELSE wakeupSingleThreadWaitQueue(semaphore)
    /\ UNCHANGED call

OSSignalSemaphore(t) ==
    /\ Calls(t, "signalSemaphore") /\ count < MaxCount
    /\ count' = count + 1
    /\ wakeupEntireWaitQueue(semaphore)
    /\ UNCHANGED call

SemaphoreStep(t) ==
    \/ OSWaitSemaphore(t) \/ SemaphoreLoop(t) \/ OSTryWaitSemaphore(t) \/ OSSignalSemaphore(t)
-----------------------------------------------------------------------------
Init ==
    /\ queue = [o \in Object |-> <<>>]
    /\ signaled = {}
    /\ hostAlarm = {} /\ hasTimeout = {} /\ granted = {}
    /\ owner = [m \in Mutex |-> None] /\ lockCount = [m \in Mutex |-> 0]
    /\ mutexQueue = [t \in Thread |-> <<>>]
    /\ held = [t \in Thread |-> [m \in Mutex |-> 0]]
    /\ cancelled = {}
    /\ count = initialCount
    /\ coreHit = [r \in Rendezvous |-> {}]
    /\ call = [t \in Thread |-> NoCall]
    /\ program \in Programs

Step(t) ==
    \/ EventStep(t) /\ UNCHANGED <<mutexVars, cancelled, count, coreHit, program>>
    \/ RendezvousStep(t) /\ UNCHANGED <<mutexVars, cancelled, count, program>>
    \/ MutexStep(t) /\ UNCHANGED <<eventVars, count, coreHit, program>>
    \/ SemaphoreStep(t) /\ UNCHANGED <<eventVars, mutexVars, cancelled, coreHit, program>>

Next == \E t \in Thread : Step(t)

Spec == Init /\ [][Next]_vars

\* A thread that was woken runs again, where no more urgent thread keeps its
\* core: the threads of the run have a core each.
Continues(t) ==
    /\ \/ WaitEventReturns(t) \/ TimedWaitReturns(t) \/ RendezvousLoop(t)
       \/ LockLoop(t) \/ CondLoop(t) \/ SemaphoreLoop(t)
    /\ Step(t)
FairSpec == Spec /\ \A t \in Thread : WF_vars(Continues(t))
-----------------------------------------------------------------------------
(* Properties.                                                              *)

Requests ==
         [op : {"none", "semaphore", "exit", "exited"}]
  \union [op : {"event", "timed"}, event : Event]
  \union [op : {"rendezvous"}, rendezvous : Rendezvous, coreMask : CoreMasks]
  \union [op : {"lock"}, mutex : Mutex]
  \union [op : {"cond"}, mutex : Mutex, prevLockCount : Nat \ {0}]

\* The queues in which the call of t waits.
WaitsIn(t) ==
    CASE call[t].op \in {"event", "timed"} -> {call[t].event}
      [] call[t].op = "rendezvous" -> {rendezvousEvent}
      [] call[t].op = "lock" -> {call[t].mutex}
      [] call[t].op = "cond" -> {cond, call[t].mutex}
      [] call[t].op = "semaphore" -> {semaphore}
      [] OTHER -> {}

\* Every variable has its type, and a thread waits once, in a queue of the
\* call it is in: a wait queue link is shared by all the queues.
TypeOK ==
    /\ queue \in [Object -> Seq(Thread)]
    /\ signaled \subseteq Event \union {rendezvousEvent}
    /\ hostAlarm \subseteq Thread /\ hasTimeout \subseteq Thread /\ granted \subseteq Thread
    /\ owner \in [Mutex -> Thread \union {None}] /\ lockCount \in [Mutex -> Nat]
    /\ mutexQueue \in [Thread -> Seq(Mutex)]
    /\ held \in [Thread -> [Mutex -> Nat]]
    /\ cancelled \subseteq Thread
    /\ count \in Int
    /\ coreHit \in [Rendezvous -> SUBSET Core]
    /\ call \in [Thread -> Requests]
    /\ program \in Programs
    /\ \A o \in Object :
          /\ NoDuplicates(queue[o])
          /\ \A t \in Threads(queue[o]) :
                o \in WaitsIn(t) /\ \A p \in Object \ {o} : t \notin Threads(queue[p])

\* An event that is signaled has no waiters: no wait begins on it and no
\* signal passes a waiter by.
SignaledEventHasNoWaiter == \A e \in signaled : queue[e] = <<>>

\* A timed wait ends with a signal or with a timeout, never with both, and its
\* host alarm cannot reach another wait of the thread.
TimeoutTakesNoSignal ==
    /\ \A t \in hostAlarm : InCall(t, "timed") /\ t \notin hasTimeout
    /\ \A t \in Thread : GoesOn(t, "timed") => (t \in hasTimeout <=> t \notin granted)

\* A thread asleep in a rendezvous still misses a core, although all
\* rendezvous share one event.
SleepsOnlyUnmet ==
    \A t \in Threads(queue[rendezvousEvent]) : ~metAll(t)

\* A thread owns what it has locked, as often as it has locked it, except the
\* mutex of the condition it waits for: OSWaitCond gives all of it back.  Its
\* list of mutexes is exact, so a thread that exits leaves no mutex locked.
MutexesExact ==
    /\ \A m \in Mutex : lockCount[m] = 0 <=> owner[m] = None
    /\ \A t \in Thread :
          /\ NoDuplicates(mutexQueue[t])
          /\ \A m \in Mutex :
                /\ m \in Threads(mutexQueue[t]) <=> owner[m] = t
                /\ owner[m] = t => lockCount[m] = held[t][m]
                /\ held[t][m] > 0 /\ ~(InCall(t, "cond") /\ call[t].mutex = m) => owner[m] = t
          /\ InCall(t, "cond") => call[t].prevLockCount = held[t][call[t].mutex]
          /\ InCall(t, "exited") => mutexQueue[t] = <<>>

\* Beside a free mutex nobody waits without a woken thread that comes for it:
\* whoever takes the mutex first wakes the next one when unlocking it.
ComesFor(t, m) == (GoesOn(t, "lock") \/ GoesOn(t, "cond")) /\ call[t].mutex = m
FreeMutexIsComeFor ==
    \A m \in Mutex : owner[m] = None /\ queue[m] # <<>> => \E t \in Thread : ComesFor(t, m)

\* A thread waits in the semaphore only while there is no unit for it.
NobodyWaitsBesideUnit == queue[semaphore] # <<>> => count <= 0

\* The semaphore counts, and its units reach those who ask for them.
Semaphore == INSTANCE CountingSemaphore
                WITH waiting <- {t \in Thread : InCall(t, "semaphore")}
ImplementsSemaphore == Semaphore!Spec
=============================================================================
