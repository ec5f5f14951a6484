------------------------------ MODULE FastMutex ------------------------------
(***************************************************************************)
(* OSFastMutex and OSFastCond (coreinit_Synchronization.cpp).  Two locks   *)
(* guard a mutex: g_fastMutexSpinlock, which a host thread spins for, and  *)
(* the scheduler lock, under which threads enter and leave wait queues.    *)
(* Locking takes the first and then the second; OSFastCond_Wait releases   *)
(* the mutex with the second one only.                                     *)
(*                                                                         *)
(* What a thread does under one lock is one action, split where the other  *)
(* lock has to be waited for or where another host thread can look in.     *)
(***************************************************************************)
EXTENDS Integers, Sequences, FiniteSets, ThreadQueue

CONSTANTS
    Thread,      \* the guest threads that use the mutex
    priority,    \* their effective priorities, 0 is the most urgent
    NumCores,    \* emulated cores, each with one host thread
    MaxNest,     \* bound on the recursive locks of a thread
    Race,        \* whether a thread may be at the spinlock while another one
                 \* releases the mutex in OSFastCond_Wait
    None

ASSUME FastMutexAssumption ==
    /\ IsFiniteSet(Thread) /\ None \notin Thread
    /\ priority \in [Thread -> Nat]
    /\ NumCores \in Nat \ {0} /\ MaxNest \in Nat \ {0}
    /\ Race \in BOOLEAN

VARIABLES
    owner,        \* OSFastMutex::owner
    lockCount,    \* OSFastMutex::lockCount
    mutexQueue,   \* OSFastMutex::threadQueueSmall
    condQueue,    \* OSFastCond::threadQueue
    spinlock,     \* the thread that holds g_fastMutexSpinlock, or None
    scheduler,    \* the thread that keeps the scheduler lock between two actions
    pc,           \* where a thread is in a call
    prevLockCount,\* the local variable of OSFastCond_Wait, 0 outside of it
    running,      \* the threads that have a core
    nesting       \* history: the locks of a thread that it has not released

mutexVars == <<owner, lockCount, nesting>>
queues == <<mutexQueue, condQueue>>
vars == <<mutexVars, queues, spinlock, scheduler, pc, prevLockCount, running>>

\* "lock": about to take the spinlock.  "enqueue", "unlock": holds it and waits
\* for the scheduler lock.  "blocked": was put on the mutex queue.  "released":
\* in OSFastCond_Wait, the mutex is free.  "waiting": was put on the other queue.
\* "restore": has the mutex again, its lockCount is not what it was yet.
Places == {"guest", "lock", "enqueue", "blocked", "unlock", "released", "waiting", "restore"}

At(t, place) == pc[t] = place /\ t \in running
Goes(t, place) == pc' = [pc EXCEPT ![t] = place]

SpinlockFree == spinlock = None /\ (Race \/ \A t \in Thread : pc[t] # "released")

InsertedByPriority(q, t, after) ==
    \E i \in 0 .. Len(q) : IsInsertPoint(q, t, priority, i) /\ after = insertBehind(q, i, t)
-----------------------------------------------------------------------------
(* Threads get and lose cores.                                              *)

Preempt(t) ==
    /\ At(t, "guest") /\ scheduler = None
    /\ running' = running \ {t}
    /\ UNCHANGED <<mutexVars, queues, spinlock, scheduler, pc, prevLockCount>>

\* A thread that was queued and woken goes on behind PPCCore_switchToScheduler-
\* WithLock: it gives the lock back and tries for the mutex.
Dispatch(t) ==
    /\ t \notin running /\ Cardinality(running) < NumCores /\ scheduler = None
    /\ t \notin Threads(mutexQueue) \union Threads(condQueue)
    /\ running' = running \union {t}
    /\ Goes(t, IF pc[t] = "guest" THEN "guest" ELSE "lock")
    /\ UNCHANGED <<mutexVars, queues, spinlock, scheduler, prevLockCount>>
-----------------------------------------------------------------------------
(* OSFastMutex.                                                             *)

OSFastMutex_Lock(t) ==
    /\ At(t, "guest") /\ nesting[t] < MaxNest
    /\ Goes(t, "lock")
    /\ UNCHANGED <<mutexVars, queues, spinlock, scheduler, prevLockCount, running>>

\* The loop of OSFastMutex_LockInternal: takes the spinlock, and keeps it when
\* the mutex belongs to another thread.
TryOwner(t) ==
    /\ At(t, "lock") /\ SpinlockFree
    /\ IF owner \in {None, t}
       THEN /\ owner' = t
            /\ lockCount' = IF owner = None THEN 1 ELSE lockCount + 1
            /\ IF prevLockCount[t] # 0
               THEN Goes(t, "restore") /\ UNCHANGED nesting
               ELSE Goes(t, "guest") /\ nesting' = [nesting EXCEPT ![t] = @ + 1]
            /\ UNCHANGED spinlock
       ELSE /\ spinlock' = t
            /\ Goes(t, "enqueue")
            /\ UNCHANGED mutexVars
    /\ UNCHANGED <<queues, scheduler, prevLockCount, running>>

\* Mutant: the thread gives up its core before the spinlock.
BlockSpinning(t) ==
    /\ At(t, "enqueue") /\ scheduler = None
    /\ InsertedByPriority(mutexQueue, t, mutexQueue')
    /\ Goes(t, "blocked")
    /\ running' = running \ {t}
    /\ UNCHANGED <<mutexVars, condQueue, scheduler, prevLockCount, spinlock>>

\* queueOnly, the spinlock is given back, and the thread gives up its core.
Block(t) ==
    /\ At(t, "enqueue") /\ scheduler = None
    /\ InsertedByPriority(mutexQueue, t, mutexQueue')
    /\ spinlock' = None
    /\ Goes(t, "blocked")
    /\ running' = running \ {t}
    /\ UNCHANGED <<mutexVars, condQueue, scheduler, prevLockCount>>

\* OSFastMutex_TryLock; when the mutex belongs to another thread nothing changes.
OSFastMutex_TryLock(t) ==
    /\ At(t, "guest") /\ SpinlockFree /\ nesting[t] < MaxNest
    /\ owner \in {None, t}
    /\ owner' = t
    /\ lockCount' = IF owner = None THEN 1 ELSE lockCount + 1
    /\ nesting' = [nesting EXCEPT ![t] = @ + 1]
    /\ UNCHANGED <<queues, spinlock, scheduler, pc, prevLockCount, running>>

\* Mutant: one unlock too many is asked for.
LastUnlockLate == lockCount = 0
LastUnlock == lockCount = 1

HasWaiters == mutexQueue # <<>>

\* The last unlock frees the mutex and, when threads wait, keeps the spinlock
\* until it has the scheduler lock as well.
OSFastMutex_Unlock(t) ==
    /\ At(t, "guest") /\ SpinlockFree /\ owner = t
    /\ lockCount' = lockCount - 1
    /\ nesting' = [nesting EXCEPT ![t] = @ - 1]
    /\ owner' = IF LastUnlock THEN None ELSE owner
    /\ IF LastUnlock /\ HasWaiters THEN spinlock' = t /\ Goes(t, "unlock")
       ELSE UNCHANGED <<spinlock, pc>>
    /\ UNCHANGED <<queues, scheduler, prevLockCount, running>>

\* Mutant: the spinlock is not given back behind the wake-up.
WakeOneSpinning(t) ==
    /\ At(t, "unlock") /\ scheduler = None
    /\ mutexQueue' = IF mutexQueue = <<>> THEN <<>> ELSE Tail(mutexQueue)
    /\ Goes(t, "guest")
    /\ UNCHANGED <<mutexVars, condQueue, spinlock, scheduler, prevLockCount, running>>

\* wakeupSingleThreadWaitQueue.
WakeOne(t) ==
    /\ At(t, "unlock") /\ scheduler = None
    /\ mutexQueue' = IF mutexQueue = <<>> THEN <<>> ELSE Tail(mutexQueue)
    /\ spinlock' = None
    /\ Goes(t, "guest")
    /\ UNCHANGED <<mutexVars, condQueue, scheduler, prevLockCount, running>>
-----------------------------------------------------------------------------
(* OSFastCond.                                                              *)

\* The scheduler lock is taken and the mutex is free from here on...
OSFastCond_Wait(t) ==
    /\ At(t, "guest") /\ scheduler = None /\ owner = t
    /\ Race \/ spinlock = None
    /\ scheduler' = t
    /\ prevLockCount' = [prevLockCount EXCEPT ![t] = lockCount]
    /\ lockCount' = 0
    /\ owner' = None
    /\ Goes(t, "released")
    /\ UNCHANGED <<nesting, queues, spinlock, running>>

\* Mutant: the threads that wait for the mutex are not woken.
WaitWakingNobody(t) ==
    /\ At(t, "released")
    /\ UNCHANGED mutexQueue
    /\ InsertedByPriority(condQueue, t, condQueue')
    /\ scheduler' = None
    /\ Goes(t, "waiting")
    /\ running' = running \ {t}
    /\ UNCHANGED <<mutexVars, spinlock, prevLockCount>>

\* ... and every thread that waits for it is woken before t waits itself.
WaitForSignal(t) ==
    /\ At(t, "released")
    /\ mutexQueue' = <<>>
    /\ InsertedByPriority(condQueue, t, condQueue')
    /\ scheduler' = None
    /\ Goes(t, "waiting")
    /\ running' = running \ {t}
    /\ UNCHANGED <<mutexVars, spinlock, prevLockCount>>

\* Mutant: the recursive locks from before the wait are forgotten.
CountForgotten(t) == lockCount

CountRestored(t) == prevLockCount[t]

\* The spinlock has been released with a lockCount of 1, which the owner now sets
\* back to what it was before the wait.
RestoreCount(t) ==
    /\ At(t, "restore")
    /\ lockCount' = CountRestored(t)
    /\ prevLockCount' = [prevLockCount EXCEPT ![t] = 0]
    /\ Goes(t, "guest")
    /\ UNCHANGED <<owner, nesting, queues, spinlock, scheduler, running>>

\* OSWakeupThread wakes every thread that waits.
OSFastCond_Signal(t) ==
    /\ At(t, "guest") /\ scheduler = None
    /\ condQueue' = <<>>
    /\ UNCHANGED <<mutexVars, mutexQueue, spinlock, scheduler, pc, prevLockCount, running>>
-----------------------------------------------------------------------------
Init ==
    /\ owner = None /\ lockCount = 0
    /\ mutexQueue = <<>> /\ condQueue = <<>>
    /\ spinlock = None /\ scheduler = None
    /\ pc = [t \in Thread |-> "guest"]
    /\ prevLockCount = [t \in Thread |-> 0]
    /\ running = {}
    /\ nesting = [t \in Thread |-> 0]

Step(t) ==
    \/ Preempt(t) \/ Dispatch(t)
    \/ OSFastMutex_Lock(t) \/ TryOwner(t) \/ Block(t) \/ OSFastMutex_TryLock(t)
    \/ OSFastMutex_Unlock(t) \/ WakeOne(t)
    \/ OSFastCond_Wait(t) \/ WaitForSignal(t) \/ RestoreCount(t) \/ OSFastCond_Signal(t)

Next == \E t \in Thread : Step(t)

Spec == Init /\ [][Next]_vars
-----------------------------------------------------------------------------
(* Properties.                                                              *)

\* Every variable has its type, and a thread is linked in the queue of its
\* call only.
TypeOK ==
    /\ owner \in Thread \union {None} /\ lockCount \in 0 .. MaxNest
    /\ mutexQueue \in Seq(Thread) /\ condQueue \in Seq(Thread)
    /\ NoDuplicates(mutexQueue) /\ NoDuplicates(condQueue)
    /\ \A t \in Threads(mutexQueue) : pc[t] = "blocked" /\ t \notin running
    /\ \A t \in Threads(condQueue) : pc[t] = "waiting" /\ t \notin running
    /\ spinlock \in Thread \union {None} /\ scheduler \in Thread \union {None}
    /\ pc \in [Thread -> Places]
    /\ prevLockCount \in [Thread -> 0 .. MaxNest]
    /\ running \subseteq Thread
    /\ nesting \in [Thread -> 0 .. MaxNest]

\* Mutual exclusion, with recursion: outside of a wait on the condition a
\* thread owns the mutex exactly when it has returned from more locks than
\* unlocks; the count is just that number, also after the wait; and a free
\* mutex counts none (the assertion at coreinit_Synchronization.cpp:493).
LocksExact ==
    /\ owner = None <=> lockCount = 0
    /\ \A t \in Thread :
         /\ owner = t /\ pc[t] # "restore" => lockCount = nesting[t]
         /\ prevLockCount[t] = 0 => (nesting[t] > 0 <=> owner = t)
         /\ prevLockCount[t] # 0 =>
              nesting[t] = prevLockCount[t] /\ (owner = t <=> pc[t] = "restore")

\* A host thread that spins waits for a thread that has a core of its own: the
\* spinlock is never held by a thread that has to be dispatched to release it.
SpinnersProgress == spinlock # None => At(spinlock, "enqueue") \/ At(spinlock, "unlock")

\* "releases the mutex while waiting for the condition to be signaled"
\* (coreinit_Synchronization.cpp:601): beside a free mutex no thread sleeps
\* unless one is about to wake it, or is itself on the way to the mutex.
OnTheWay(t) ==
    \/ pc[t] \in {"lock", "unlock", "released"}
    \/ pc[t] = "blocked" /\ t \notin Threads(mutexQueue)
    \/ pc[t] = "waiting" /\ t \notin Threads(condQueue)
NoWaiterLeft == owner = None /\ mutexQueue # <<>> => \E t \in Thread : OnTheWay(t)

CanEnqueue(q, t) == \E i \in 0 .. Len(q) : IsInsertPoint(q, t, priority, i)

\* The step behind the lock that a thread waits for, or has, can be taken.
CanGoOn(t) ==
    \/ At(t, "guest") \/ At(t, "restore")
    \/ At(t, "lock") /\ SpinlockFree
    \/ At(t, "enqueue") /\ scheduler = None /\ CanEnqueue(mutexQueue, t)
    \/ At(t, "unlock") /\ scheduler = None
    \/ At(t, "released") /\ CanEnqueue(condQueue, t)
    \/ /\ t \notin running /\ Cardinality(running) < NumCores /\ scheduler = None
       /\ t \notin Threads(mutexQueue) \union Threads(condQueue)

\* No deadlock among the cores, the spinlock, the scheduler lock and the mutex:
\* as long as one thread does not wait for a signal, some thread goes on.
StopsOnlyForSignals ==
    (\E t \in Thread : t \notin Threads(condQueue)) => \E t \in Thread : CanGoOn(t)

\* The assertion in wakeupSingleThreadWaitQueue (coreinit_ThreadQueue.cpp:156):
\* the thread that OSFastMutex_Unlock saw waiting is still there.  It does not
\* hold with Race, and without it follows from who may empty the queue.
UnlockFindsWaiter == \A t \in Thread : pc[t] = "unlock" => mutexQueue # <<>>
=============================================================================
