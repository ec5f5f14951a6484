--------------------------- MODULE CoreScheduler ---------------------------
(***************************************************************************)
(* The emulated Cafe OS thread scheduler (coreinit_Thread.cpp,             *)
(* coreinit_ThreadQueue.cpp, coreinit_Scheduler.cpp) in multicore mode:    *)
(* one host thread per emulated core, guest threads as fibers, one global  *)
(* scheduler lock.                                                         *)
(*                                                                         *)
(* A guest call takes the lock, changes thread structures and queues, and  *)
(* may hand the lock over to the next fiber (PPCCore_switchToScheduler-    *)
(* WithLock).  The variable "kernel" is the lock together with what its    *)
(* holder has left to do before it releases it; while it is not Unlocked   *)
(* only the holder and the lock-free part of the idle loops can move.      *)
(***************************************************************************)
EXTENDS Integers, Sequences, FiniteSets, ThreadQueue

CONSTANTS
    Thread,         \* OSThread_t structures the guest uses
    Core,           \* emulated cores, one host thread each
    MainCore,       \* the core whose idle loop runs __OSCheckSystemEvents
    Boot,           \* default thread of the main core, started by the loader
    UserQueue,      \* OSThreadQueues of the guest (OSSleepThread)
    Priorities,     \* effective priorities, 0 is the most urgent
    Affinities,     \* affinity masks that the guest passes
    Ops,            \* the calls that the guest makes
    MaxSuspend,     \* bound on suspendCounter
    MaxTitles,      \* bound on how often a title is started
    None

ASSUME CoreAssumption ==
    /\ MainCore \in Core /\ IsFiniteSet(Core)
    /\ None \notin Core
ASSUME ThreadAssumption ==
    /\ Boot \in Thread
    /\ None \notin Thread
    /\ None \notin UserQueue
    /\ \A t \in Thread :
          (UserQueue \union {None}) \intersect {<<"join", t>>, <<"timer", t>>} = {}
ASSUME GuestAssumption ==
    /\ Priorities \subseteq Nat /\ Priorities # {}
    /\ Affinities \subseteq (SUBSET Core) \ {{}}
    /\ MaxSuspend \in Nat /\ MaxTitles \in Nat

VARIABLES
    state,            \* OSThread_t::state
    suspendCounter,   \* OSThread_t::suspendCounter
    affinity,         \* context.affinity, the set of allowed cores
    priority,         \* effectivePriority
    detached,         \* threads with ATTR_DETACHED
    currentRunQueue,  \* per thread, the cores whose run queue links it
    currentWaitQueue, \* per thread, the wait queue it is linked in, or None
    resumeAt,         \* per thread, where its fiber is suspended
    runQueue,         \* g_coreRunQueue
    runQueueCount,    \* g_coreRunQueueThreadCount
    waitQueue,        \* every wait queue
    active,           \* g_activeThreadQueue, activeThread[], s_threadToFiber
    current,          \* __currentCoreThread
    core,             \* where the host thread of a core is
    kernel,           \* the scheduler lock and the rest of its holder's work
    host              \* the title's life as the host (CafeSystem) drives it

threadVars == <<state, suspendCounter, affinity, priority, detached, resumeAt>>
runVars    == <<currentRunQueue, runQueue, runQueueCount>>
waitVars   == <<currentWaitQueue, waitQueue>>
coreVars   == <<current, core>>
vars == <<threadVars, runVars, waitVars, active, coreVars, kernel, host>>

States == {"NONE", "READY", "RUNNING", "WAITING", "MORIBUND"}

JoinQueue(t)  == <<"join", t>>     \* OSThread_t::joinQueue
TimerQueue(t) == <<"timer", t>>    \* the queue on the stack of OSSleepTicks
WaitQueues == UserQueue \union {JoinQueue(t) : t \in Thread}
                        \union {TimerQueue(t) : t \in Thread}

\* Where a thread is in its code: in guest code, in the rest of OSJoinThread,
\* or in OSCreateThread before (poll) or after (create) the call of
\* __OSCreateThreadOnActiveThreadWorkaround.
Guest       == [op |-> "guest",  target |-> None]
Joining(t)  == [op |-> "join",   target |-> t]
Polling(t)  == [op |-> "poll",   target |-> t]
Creating(t) == [op |-> "create", target |-> t]
ResumePoints == [op : {"guest", "join", "poll", "create"}, target : Thread \union {None}]

(***************************************************************************)
(* The lock.  "wake" is the wait queue being emptied, "resched" the        *)
(* argument of the wake-up, "should" its local shouldReschedule, and       *)
(* "after" what follows: return to the guest, the tail of OSExitThread,    *)
(* __OSStoreThread, the choice of the next thread, the tail of a join.     *)
(***************************************************************************)
Unlocked == [holder |-> None, wake |-> None, resched |-> FALSE,
             should |-> FALSE, after |-> "return"]
Kernels  == [holder : Core \union {None}, wake : WaitQueues \union {None},
             resched : BOOLEAN, should : BOOLEAN,
             after : {"return", "exit", "store", "pick", "join"}]
Hold(c, after) == [Unlocked EXCEPT !.holder = c, !.after = after]
Wake(c, q, resched, after) ==
    [holder |-> c, wake |-> q, resched |-> resched, should |-> FALSE, after |-> after]

CoreModes == {"idleTop", "idlePick", "events", "waitNonZero", "guest", "leaving", "exited"}
HostPhases == {"running", "ending", "joining", "ended", "stopped"}
-----------------------------------------------------------------------------
\* Mutant: a link is removed without the decrement of the counter.
MoveWithoutDecrement(t, off, on) ==
    /\ runQueue' = [c \in Core |->
          LET rest == IF c \in off THEN removeThread(runQueue[c], t) ELSE runQueue[c]
          IN  IF c \in on THEN addThread(rest, t) ELSE rest]
    /\ currentRunQueue' = [currentRunQueue EXCEPT ![t] = (@ \ off) \union on]
    /\ runQueueCount' = [c \in Core |-> runQueueCount[c] + (IF c \in on THEN 1 ELSE 0)]

\* Mutant: a core is told of its first thread only by the next one.
MoveWithoutIncrement(t, off, on) ==
    /\ runQueue' = [c \in Core |->
          LET rest == IF c \in off THEN removeThread(runQueue[c], t) ELSE runQueue[c]
          IN  IF c \in on THEN addThread(rest, t) ELSE rest]
    /\ currentRunQueue' = [currentRunQueue EXCEPT ![t] = (@ \ off) \union on]
    /\ runQueueCount' = [c \in Core |->
          IF c \in on /\ runQueue[c] # <<>> THEN runQueueCount[c] + 1 ELSE runQueueCount[c]]

\* Thread t leaves the run queues of the cores in "off", then joins those of
\* the cores in "on"; link, back pointer and counter always change together.
MoveOnRunQueues(t, off, on) ==
    /\ runQueue' = [c \in Core |->
          LET rest == IF c \in off THEN removeThread(runQueue[c], t) ELSE runQueue[c]
          IN  IF c \in on THEN addThread(rest, t) ELSE rest]
    /\ currentRunQueue' = [currentRunQueue EXCEPT ![t] = (@ \ off) \union on]
    /\ runQueueCount' = [c \in Core |->
          runQueueCount[c] - (IF c \in off THEN 1 ELSE 0)
                           + (IF c \in on  THEN 1 ELSE 0)]

\* The cores whose run queue a thread joins, given the values that decide it.
ReadyCores(st, suspended, mask, linked) ==
    IF st = "READY" /\ suspended = 0 THEN mask \ linked ELSE {}

\* The fields of t already have their primed values.
__OSAddReadyThreadToRunQueue(t) ==
    MoveOnRunQueues(t, {},
        ReadyCores(state'[t], suspendCounter'[t], affinity'[t], currentRunQueue[t]))

__OSRemoveThreadFromRunQueues(t) == MoveOnRunQueues(t, currentRunQueue[t], {})

\* New thread may run on this core and is more urgent than the current one.
__OSCoreShouldSwitchToThread(c, new, prio) ==
    c \in affinity[new] /\ prio[new] < prio[current[c]]

\* Mutant: the first thread of the queue, whatever its priority.
IsOldestRunable(c, i) == i = 1

\* Position i of the core's run queue: the first of the most urgent threads.
IsNextRunable(c, i) ==
    LET q == runQueue[c] IN
    \A j \in DOMAIN q :
       \/ priority[q[i]] < priority[q[j]]
       \/ priority[q[i]] = priority[q[j]] /\ i <= j

\* A core that found nothing to run: the main core polls, the others block.
AfterPick(c) == IF c = MainCore THEN "events" ELSE "waitNonZero"

\* t has been created (the fields of other structures are meaningless).
Created(t) == affinity[t] # {}

\* The guest thread of core c is about to make a call that takes the lock.
Calls(c, op) == /\ kernel = Unlocked
                /\ core[c] = "guest"
                /\ resumeAt[current[c]] = Guest
                /\ op \in Ops
-----------------------------------------------------------------------------
(* Dispatch: __OSGetNextRunableThread and __OSSwitchToThreadFiber.          *)

\* Mutant: a dispatched thread leaves only the queue it was found in.
DispatchFromOneQueue(c, t) ==
    /\ state' = [state EXCEPT ![t] = "RUNNING"]
    /\ MoveOnRunQueues(t, {c}, {})
    /\ current' = [current EXCEPT ![c] = t]
    /\ core' = [core EXCEPT ![c] = "guest"]
    /\ kernel' = IF resumeAt[t].op = "join" THEN Hold(c, "join") ELSE Unlocked
    /\ UNCHANGED <<suspendCounter, affinity, priority, detached, resumeAt,
                   waitVars, active, host>>

Dispatch(c, t) ==
    /\ state' = [state EXCEPT ![t] = "RUNNING"]
    /\ __OSRemoveThreadFromRunQueues(t)
    /\ current' = [current EXCEPT ![c] = t]
    /\ core' = [core EXCEPT ![c] = "guest"]
    /\ kernel' = IF resumeAt[t].op = "join" THEN Hold(c, "join") ELSE Unlocked
    /\ UNCHANGED <<suspendCounter, affinity, priority, detached, resumeAt,
                   waitVars, active, host>>

FindsNothing(c) ==
    /\ core' = [core EXCEPT ![c] = AfterPick(c)]
    /\ kernel' = Unlocked
    /\ UNCHANGED <<threadVars, runVars, waitVars, active, current, host>>

__OSGetNextRunableThread(c) ==
    \/ runQueue[c] = <<>> /\ FindsNothing(c)
    \/ \E i \in DOMAIN runQueue[c] : IsNextRunable(c, i) /\ Dispatch(c, runQueue[c][i])

\* The idle fiber looks at the counter without the lock.
IdleCheck(c) ==
    /\ core[c] = "idleTop"
    /\ core' = [core EXCEPT ![c] = IF runQueueCount[c] # 0 THEN "idlePick"
                                   ELSE AfterPick(c)]
    /\ UNCHANGED <<threadVars, runVars, waitVars, active, current, kernel, host>>

IdlePick(c) ==
    /\ core[c] = "idlePick" /\ kernel = Unlocked
    /\ __OSGetNextRunableThread(c)

\* CounterSemaphore::waitUntilNonZero, then the check of sSchedulerActive.
WaitUntilNonZero(c) ==
    /\ core[c] = "waitNonZero" /\ runQueueCount[c] # 0
    /\ core' = [core EXCEPT ![c] = IF host.active THEN "idleTop" ELSE "exited"]
    /\ UNCHANGED <<threadVars, runVars, waitVars, active, current, kernel, host>>

\* __OSCheckSystemEvents: the alarm of a sleeping thread expires...
TimerFires(t) ==
    /\ core[MainCore] = "events" /\ kernel = Unlocked
    /\ waitQueue[TimerQueue(t)] # <<>>
    /\ kernel' = Wake(MainCore, TimerQueue(t), FALSE, "return")
    /\ UNCHANGED <<threadVars, runVars, waitVars, active, coreVars, host>>

\* ... and the idle loop goes round.
EventsDone(c) ==
    /\ core[c] = "events" /\ kernel.holder # c
    /\ core' = [core EXCEPT ![c] = "idleTop"]
    /\ UNCHANGED <<threadVars, runVars, waitVars, active, current, kernel, host>>
-----------------------------------------------------------------------------
(* What the holder of the lock still has to do.                             *)

\* Mutant: the back pointer to the wait queue survives the wake-up.
WakeKeepingBackPointer ==
    /\ kernel.wake # None /\ waitQueue[kernel.wake] # <<>>
    /\ LET t == Head(waitQueue[kernel.wake]) IN
       /\ waitQueue' = [waitQueue EXCEPT ![kernel.wake] = Tail(@)]
       /\ state' = [state EXCEPT ![t] = "READY"]
       /\ UNCHANGED <<suspendCounter, affinity, priority, detached, resumeAt, currentWaitQueue>>
       /\ __OSAddReadyThreadToRunQueue(t)
    /\ UNCHANGED <<active, coreVars, kernel, host>>

\* One round of the loop of wakeupEntireWaitQueue, or its end.
WakeNext ==
    /\ kernel.wake # None
    /\ LET q == waitQueue[kernel.wake] IN
       IF q # <<>>
       THEN LET t == Head(q) IN
            /\ waitQueue' = [waitQueue EXCEPT ![kernel.wake] = Tail(q)]
            /\ state' = [state EXCEPT ![t] = "READY"]
            /\ currentWaitQueue' = [currentWaitQueue EXCEPT ![t] = None]
            /\ UNCHANGED <<suspendCounter, affinity, priority, detached, resumeAt>>
            /\ __OSAddReadyThreadToRunQueue(t)
            /\ kernel' = [kernel EXCEPT !.should =
                  @ \/ /\ kernel.resched /\ suspendCounter[t] = 0
                       /\ __OSCoreShouldSwitchToThread(kernel.holder, t, priority)]
       ELSE /\ kernel' = IF kernel.should THEN Hold(kernel.holder, "store")
                         ELSE IF kernel.after = "return" THEN Unlocked
                         ELSE Hold(kernel.holder, kernel.after)
            /\ UNCHANGED <<threadVars, runVars, waitVars>>
    /\ UNCHANGED <<active, coreVars, host>>

\* __OSStoreThread, then __OSThreadSwitchToNext up to the choice of a fiber:
\* with an inactive scheduler the core gives up the lock on its way out, the
\* main core always goes to its idle fiber, and the others choose under the
\* same lock.
StoreThread ==
    /\ kernel.wake = None /\ kernel.after = "store"
    /\ LET c == kernel.holder
           t == current[c]
       IN  /\ state' = [state EXCEPT ![t] = IF @ = "RUNNING" THEN "READY" ELSE @]
           /\ UNCHANGED <<suspendCounter, affinity, priority, detached, resumeAt>>
           /\ __OSAddReadyThreadToRunQueue(t)
           /\ current' = [current EXCEPT ![c] = None]
           /\ core' = [core EXCEPT ![c] = IF ~host.active THEN "leaving"
                                          ELSE IF c = MainCore THEN "events"
                                          ELSE "idlePick"]
           /\ kernel' = IF host.active /\ c # MainCore THEN Hold(c, "pick") ELSE Unlocked
    /\ UNCHANGED <<waitVars, active, host>>

\* The lock is free again before the core leaves the fiber of the thread that it
\* has stored: until then another core can be handed that thread.
LeaveFiber(c) ==
    /\ core[c] = "leaving"
    /\ core' = [core EXCEPT ![c] = "exited"]
    /\ UNCHANGED <<threadVars, runVars, waitVars, active, current, kernel, host>>

PickNext ==
    /\ kernel.wake = None /\ kernel.after = "pick"
    /\ __OSGetNextRunableThread(kernel.holder)

\* Mutant: every thread is reaped at once.
ExitReaping ==
    /\ kernel.wake = None /\ kernel.after = "exit"
    /\ LET t == current[kernel.holder] IN
       /\ state' = [state EXCEPT ![t] = "NONE"]
       /\ active' = active \ {t}
    /\ kernel' = Hold(kernel.holder, "store")
    /\ UNCHANGED <<suspendCounter, affinity, priority, detached, resumeAt,
                   runVars, waitVars, coreVars, host>>

\* The tail of OSExitThread: a detached thread leaves the active queue at
\* once, another one stays until it is joined or detached.
ExitTail ==
    /\ kernel.wake = None /\ kernel.after = "exit"
    /\ LET t == current[kernel.holder] IN
       /\ state' = [state EXCEPT ![t] = IF t \in detached THEN "NONE" ELSE "MORIBUND"]
       /\ active' = active \ (detached \intersect {t})
    /\ kernel' = Hold(kernel.holder, "store")
    /\ UNCHANGED <<suspendCounter, affinity, priority, detached, resumeAt,
                   runVars, waitVars, coreVars, host>>

\* The tail of OSJoinThread, entered at once or when the joiner runs again;
\* it does not look at the target's state a second time.
EndTarget(t) ==
    /\ state' = [state EXCEPT ![t] = "NONE"]
    /\ active' = active \ {t}
    /\ __OSRemoveThreadFromRunQueues(t)

\* Mutant: the joiner returns without the unlock.
JoinKeepingLock ==
    /\ kernel.wake = None /\ kernel.after = "join"
    /\ LET me == current[kernel.holder] IN
       /\ EndTarget(resumeAt[me].target)
       /\ resumeAt' = [resumeAt EXCEPT ![me] = Guest]
    /\ UNCHANGED <<suspendCounter, affinity, priority, detached, waitVars, coreVars, kernel, host>>

JoinTail ==
    /\ kernel.wake = None /\ kernel.after = "join"
    /\ LET me == current[kernel.holder] IN
       /\ EndTarget(resumeAt[me].target)
       /\ resumeAt' = [resumeAt EXCEPT ![me] = Guest]
    /\ kernel' = Unlocked
    /\ UNCHANGED <<suspendCounter, affinity, priority, detached, waitVars, coreVars, host>>
-----------------------------------------------------------------------------
(* Calls of the guest thread that core c runs.                              *)

\* A title that re-creates t expects t to finish by itself: until then t waits
\* for nobody, and nobody suspends or joins it, unless the run allows the misuse.
RunsOn(t) == "misuse" \in Ops \/ \A j \in Thread : resumeAt[j] # Polling(t)

\* OSThreadQueueInternal::queueAndWait up to the switch.
QueueAndWait(c, q) ==
    LET me == current[c] IN
    /\ state[me] = "RUNNING"
    /\ \E i \in 0 .. Len(waitQueue[q]) :
         /\ IsInsertPoint(waitQueue[q], me, priority, i)
         /\ waitQueue' = [waitQueue EXCEPT ![q] = insertBehind(@, i, me)]
    /\ currentWaitQueue' = [currentWaitQueue EXCEPT ![me] = q]
    /\ state' = [state EXCEPT ![me] = "WAITING"]
    /\ kernel' = Hold(c, "store")

\* OSYieldThread, and equally the end of the timeslice in __OSFiberThreadEntry.
OSYieldThread(c) ==
    /\ Calls(c, "yield")
    /\ kernel' = Hold(c, "store")
    /\ UNCHANGED <<threadVars, runVars, waitVars, active, coreVars, host>>

OSSleepThread(c, q) ==
    /\ Calls(c, "sleep") /\ RunsOn(current[c])
    /\ QueueAndWait(c, q)
    /\ UNCHANGED <<suspendCounter, affinity, priority, detached, resumeAt,
                   runVars, active, coreVars, host>>

OSWakeupThread(c, q) ==
    /\ Calls(c, "wakeup")
    /\ kernel' = Wake(c, q, TRUE, "return")
    /\ UNCHANGED <<threadVars, runVars, waitVars, active, coreVars, host>>

OSSleepTicks(c) ==
    /\ Calls(c, "ticks") /\ RunsOn(current[c])
    /\ QueueAndWait(c, TimerQueue(current[c]))
    /\ UNCHANGED <<suspendCounter, affinity, priority, detached, resumeAt,
                   runVars, active, coreVars, host>>

\* Mutant: a thread that is not suspended is resumed as well.
ResumeUnclamped(c, t, count) ==
    /\ suspendCounter' = [suspendCounter EXCEPT ![t] = @ - count]
    /\ UNCHANGED <<state, affinity, priority, detached, resumeAt, runVars>>
    /\ kernel' = Unlocked

\* OSResumeThread (count 1) and OSContinueThread (count = suspendCounter).
__OSResumeThreadInternal(c, t, count) ==
    /\ suspendCounter[t] # 0
    /\ suspendCounter' = [suspendCounter EXCEPT ![t] = IF @ < count THEN 0 ELSE @ - count]
    /\ UNCHANGED <<state, affinity, priority, detached, resumeAt>>
    /\ IF suspendCounter'[t] = 0
       THEN /\ __OSAddReadyThreadToRunQueue(t)
            /\ kernel' = IF __OSCoreShouldSwitchToThread(c, t, priority)
                         THEN Hold(c, "store") ELSE Unlocked
       ELSE kernel' = Unlocked /\ UNCHANGED runVars

OSResumeThread(c, t) ==
    /\ Calls(c, "resume")
    /\ \E count \in {1, suspendCounter[t]} : __OSResumeThreadInternal(c, t, count)
    /\ UNCHANGED <<waitVars, active, coreVars, host>>

\* A thread that runs on another core keeps its timeslice.
__OSSuspendThreadInternal(c, t) ==
    /\ state[t] \notin {"NONE", "MORIBUND"}
    /\ suspendCounter' = [suspendCounter EXCEPT ![t] = @ + 1]
    /\ UNCHANGED <<state, affinity, priority, detached, resumeAt>>
    /\ IF t = current[c]
       THEN kernel' = Hold(c, "store") /\ UNCHANGED runVars
       ELSE /\ kernel' = Unlocked
            /\ IF suspendCounter[t] = 0 THEN __OSRemoveThreadFromRunQueues(t)
               ELSE UNCHANGED runVars

OSSuspendThread(c, t) ==
    /\ Calls(c, "suspend") /\ RunsOn(t)
    /\ suspendCounter[t] < MaxSuspend
    /\ __OSSuspendThreadInternal(c, t)
    /\ UNCHANGED <<waitVars, active, coreVars, host>>

\* Mutant: the thread stays on the run queues of its old cores.
AffinityWithoutRequeue(c, t, mask) ==
    /\ Calls(c, "affinity")
    /\ Created(t)
    /\ affinity' = [affinity EXCEPT ![t] = mask]
    /\ UNCHANGED <<state, suspendCounter, priority, detached, resumeAt,
                   runVars, waitVars, active, coreVars, kernel, host>>

OSSetThreadAffinity(c, t, mask) ==
    /\ Calls(c, "affinity")
    /\ Created(t)
    /\ affinity' = [affinity EXCEPT ![t] = mask]
    /\ UNCHANGED <<state, suspendCounter, priority, detached, resumeAt>>
    /\ IF state[t] \in {"RUNNING", "NONE"} \/ mask = affinity[t] THEN UNCHANGED runVars
       ELSE MoveOnRunQueues(t, currentRunQueue[t],
                            ReadyCores(state[t], suspendCounter[t], mask, {}))
    /\ UNCHANGED <<waitVars, active, coreVars, kernel, host>>

\* Neither the run queues nor the wait queue of t is sorted again.
OSSetThreadPriority(c, t, p) ==
    /\ Calls(c, "priority")
    /\ Created(t)
    /\ priority' = [priority EXCEPT ![t] = p]
    /\ kernel' = IF t # current[c] /\ __OSCoreShouldSwitchToThread(c, t, priority')
                 THEN Hold(c, "store") ELSE Unlocked
    /\ UNCHANGED <<state, suspendCounter, affinity, detached, resumeAt,
                   runVars, waitVars, active, coreVars, host>>

\* Mutant: the join queue is not emptied.
ExitWakingNobody(c) ==
    /\ Calls(c, "exit")
    /\ kernel' = Hold(c, "exit")
    /\ UNCHANGED <<threadVars, runVars, waitVars, active, coreVars, host>>

OSExitThread(c) ==
    /\ Calls(c, "exit")
    /\ kernel' = Wake(c, JoinQueue(current[c]), FALSE, "exit")
    /\ UNCHANGED <<threadVars, runVars, waitVars, active, coreVars, host>>
-----------------------------------------------------------------------------
(* Joining, detaching, creating and starting another thread.                *)

\* What a title may do with t: while one thread joins or creates t no other
\* call ends or restarts it, unless the run allows the misuse.
BeingJoined(t) == \E j \in Thread : resumeAt[j] = Joining(t)
MayEnd(t) == "misuse" \in Ops \/ \A j \in Thread : resumeAt[j].target # t

\* OSDetachThread inside its lock: an exited thread is deactivated.
DetachLocked(c, t) ==
    /\ detached' = detached \union {t}
    /\ IF state[t] = "MORIBUND"
       THEN /\ state' = [state EXCEPT ![t] = "NONE"]
            /\ active' = active \ {t}
            /\ kernel' = IF waitQueue[JoinQueue(t)] # <<>>
                         THEN Wake(c, JoinQueue(t), TRUE, "return") ELSE Unlocked
       ELSE UNCHANGED <<state, active, kernel>>
    /\ UNCHANGED <<suspendCounter, affinity, priority, runVars, waitVars, coreVars, host>>

OSDetachThread(c, t) ==
    /\ Calls(c, "detach")
    /\ t \in active /\ MayEnd(t)
    /\ DetachLocked(c, t)
    /\ UNCHANGED resumeAt

\* The call waits for a running thread, fails for a detached one, and ends a
\* thread that has exited.
OSJoinThread(c, t) ==
    /\ Calls(c, "join")
    /\ t \in active \ {current[c]} /\ ~BeingJoined(t)
    /\ RunsOn(t) /\ RunsOn(current[c])
    /\ IF state[t] = "MORIBUND"
       THEN /\ EndTarget(t)
            /\ UNCHANGED <<suspendCounter, affinity, priority, detached, resumeAt,
                           waitVars, coreVars, kernel, host>>
       ELSE IF t \in detached THEN UNCHANGED vars
       ELSE /\ QueueAndWait(c, JoinQueue(t))
            /\ resumeAt' = [resumeAt EXCEPT ![current[c]] = Joining(t)]
            /\ UNCHANGED <<suspendCounter, affinity, priority, detached,
                           runVars, active, coreVars, host>>

\* Mutant: the old incarnation is not waited for.
CreateWithoutPoll(c, t) ==
    /\ resumeAt' = [resumeAt EXCEPT ![current[c]] = Creating(t)]
    /\ IF t \in active /\ state[t] = "MORIBUND" THEN DetachLocked(c, t)
       ELSE UNCHANGED <<state, suspendCounter, affinity, priority, detached,
                        runVars, waitVars, active, coreVars, kernel, host>>

\* __OSCreateThreadOnActiveThreadWorkaround: sleep while the old incarnation
\* of t can run, detach it when it has exited, and go on in any other state.
CreatePoll(c, t) ==
    LET me == current[c] IN
    IF t \in active /\ state[t] \in {"READY", "RUNNING"} /\ suspendCounter[t] = 0
    THEN /\ QueueAndWait(c, TimerQueue(me))
         /\ resumeAt' = [resumeAt EXCEPT ![me] = Polling(t)]
         /\ UNCHANGED <<suspendCounter, affinity, priority, detached,
                        runVars, active, coreVars, host>>
    ELSE /\ resumeAt' = [resumeAt EXCEPT ![me] = Creating(t)]
         /\ IF t \in active /\ state[t] = "MORIBUND" THEN DetachLocked(c, t)
            ELSE UNCHANGED <<state, suspendCounter, affinity, priority, detached,
                             runVars, waitVars, active, coreVars, kernel, host>>

\* The guest re-creates a thread that it never created, that has ended, or
\* that it expects to finish by itself.  Only the boot thread creates.
OSCreateThread(c, t) ==
    /\ Calls(c, "create")
    /\ current[c] = Boot /\ t # Boot /\ MayEnd(t)
    /\ t \in active => \/ state[t] = "MORIBUND"
                       \/ "recreate" \in Ops /\ state[t] # "WAITING" /\ suspendCounter[t] = 0
    /\ CreatePoll(c, t)

PollAgain(c) ==
    /\ kernel = Unlocked /\ core[c] = "guest"
    /\ resumeAt[current[c]].op = "poll"
    /\ CreatePoll(c, resumeAt[current[c]].target)

\* The second half of __OSCreateThreadInternal2: __OSThreadInit overwrites the
\* structure, whatever lists it is linked in, and the thread becomes active.
CreateThread(c, mask, p, det) ==
    LET me == current[c]
        t  == resumeAt[me].target
    IN
    /\ kernel = Unlocked /\ core[c] = "guest"
    /\ resumeAt[me].op = "create"
    /\ state' = [state EXCEPT ![t] = "READY"]
    /\ suspendCounter' = [suspendCounter EXCEPT ![t] = 1]
    /\ affinity' = [affinity EXCEPT ![t] = mask]
    /\ priority' = [priority EXCEPT ![t] = p]
    /\ detached' = IF det THEN detached \union {t} ELSE detached \ {t}
    /\ resumeAt' = [resumeAt EXCEPT ![me] = Guest, ![t] = Guest]
    /\ currentRunQueue' = [currentRunQueue EXCEPT ![t] = {}]
    /\ waitQueue' = [waitQueue EXCEPT ![JoinQueue(t)] = <<>>]
    /\ active' = active \union {t}
    /\ UNCHANGED <<runQueue, runQueueCount, currentWaitQueue, coreVars, kernel, host>>

\* OSRunThread starts a thread that was created once and has ended.
OSRunThread(c, t) ==
    /\ Calls(c, "run")
    /\ state[t] \in {"NONE", "MORIBUND"} /\ Created(t) /\ MayEnd(t)
    /\ state' = [state EXCEPT ![t] = "READY"]
    /\ suspendCounter' = [suspendCounter EXCEPT ![t] = 0]
    /\ resumeAt' = [resumeAt EXCEPT ![t] = Guest]
    /\ active' = active \union {t}
    /\ LET off == IF state[t] = "MORIBUND" THEN currentRunQueue[t] ELSE {}
       IN  MoveOnRunQueues(t, off, affinity[t] \ (currentRunQueue[t] \ off))
    /\ UNCHANGED <<affinity, priority, detached, waitVars, coreVars, kernel, host>>
-----------------------------------------------------------------------------
(* The host: OSSchedulerEnd and the start of the next title (CafeSystem).   *)

OSSchedulerEnd ==
    /\ "end" \in Ops /\ host.phase = "running"
    /\ host' = [host EXCEPT !.phase = "ending", !.active = FALSE, !.todo = Core]
    /\ UNCHANGED <<threadVars, runVars, waitVars, active, coreVars, kernel>>

\* Mutant: the core's counter is not touched.
EndPassesCore(c) ==
    /\ host.phase = "ending" /\ c \in host.todo
    /\ host' = [host EXCEPT !.todo = @ \ {c},
                            !.phase = IF host.todo = {c} THEN "joining" ELSE @]
    /\ UNCHANGED <<threadVars, runVars, waitVars, active, coreVars, kernel>>

\* Each counter is incremented so that a core that waits on it wakes up.
EndWakesCore(c) ==
    /\ host.phase = "ending" /\ c \in host.todo
    /\ runQueueCount' = [runQueueCount EXCEPT ![c] = @ + 1]
    /\ host' = [host EXCEPT !.todo = @ \ {c},
                            !.phase = IF host.todo = {c} THEN "joining" ELSE @]
    /\ UNCHANGED <<threadVars, currentRunQueue, runQueue, waitVars, active, coreVars, kernel>>

EndJoinsCores ==
    /\ host.phase = "joining" /\ \A c \in Core : core[c] = "exited"
    /\ host' = [host EXCEPT !.phase = "ended"]
    /\ UNCHANGED <<threadVars, runVars, waitVars, active, coreVars, kernel>>

\* The threads are deactivated; the run queues and counters are left alone.
__OSDeleteAllActivePPCThreads ==
    /\ host.phase = "ended"
    /\ state' = [t \in Thread |-> IF t \in active THEN "NONE" ELSE state[t]]
    /\ active' = {}
    /\ host' = [host EXCEPT !.phase = "stopped"]
    /\ UNCHANGED <<suspendCounter, affinity, priority, detached, resumeAt,
                   runVars, waitVars, coreVars, kernel>>

\* InitializeThread and OSRunThread on the default thread: the state of a
\* freshly started title, as far as the initialisation sets it.
FreshTitle(st, sus, aff, prio, det, at, onQueue, onWait, rq, wq, act, cur, where) ==
    /\ st   = [t \in Thread |-> IF t = Boot THEN "READY" ELSE "NONE"]
    /\ sus  = [t \in Thread |-> 0]
    /\ aff  = [t \in Thread |-> IF t = Boot THEN {MainCore} ELSE {}]
    /\ prio = [t \in Thread |-> CHOOSE p \in Priorities : TRUE]
    /\ det  = {}
    /\ at   = [t \in Thread |-> Guest]
    /\ onQueue = [t \in Thread |-> IF t = Boot THEN {MainCore} ELSE {}]
    /\ onWait  = [t \in Thread |-> None]
    /\ rq   = [c \in Core |-> IF c = MainCore THEN <<Boot>> ELSE <<>>]
    /\ wq   = [q \in WaitQueues |-> <<>>]
    /\ act  = {Boot}
    /\ cur  = [c \in Core |-> None]
    /\ where = [c \in Core |-> "idleTop"]

\* The counters are not part of it: they keep what the last title left.
StartNextTitle ==
    /\ host.phase = "stopped" /\ host.titles < MaxTitles
    /\ FreshTitle(state', suspendCounter', affinity', priority', detached', resumeAt',
                  currentRunQueue', currentWaitQueue', runQueue', waitQueue',
                  active', current', core')
    /\ runQueueCount' = [runQueueCount EXCEPT ![MainCore] = @ + 1]
    /\ host' = [phase |-> "running", active |-> TRUE, todo |-> {}, titles |-> host.titles + 1]
    /\ UNCHANGED kernel
-----------------------------------------------------------------------------
Init ==
    /\ FreshTitle(state, suspendCounter, affinity, priority, detached, resumeAt,
                  currentRunQueue, currentWaitQueue, runQueue, waitQueue,
                  active, current, core)
    /\ runQueueCount = [c \in Core |-> IF c = MainCore THEN 1 ELSE 0]
    /\ kernel = Unlocked
    /\ host = [phase |-> "running", active |-> TRUE, todo |-> {}, titles |-> 1]

KernelStep == WakeNext \/ StoreThread \/ PickNext \/ ExitTail \/ JoinTail

IdleStep(c) ==
    IdleCheck(c) \/ IdlePick(c) \/ WaitUntilNonZero(c) \/ EventsDone(c) \/ LeaveFiber(c)

GuestCall(c) ==
    \/ OSYieldThread(c) \/ OSSleepTicks(c) \/ OSExitThread(c) \/ PollAgain(c)
    \/ \E q \in UserQueue : OSSleepThread(c, q) \/ OSWakeupThread(c, q)
    \/ \E t \in Thread : \/ OSResumeThread(c, t) \/ OSSuspendThread(c, t)
                         \/ OSDetachThread(c, t) \/ OSJoinThread(c, t)
                         \/ OSCreateThread(c, t) \/ OSRunThread(c, t)
    \/ \E t \in Thread, mask \in Affinities : OSSetThreadAffinity(c, t, mask)
    \/ \E t \in Thread, p \in Priorities : OSSetThreadPriority(c, t, p)
    \/ \E mask \in Affinities, p \in Priorities, det \in BOOLEAN : CreateThread(c, mask, p, det)

HostStep ==
    \/ OSSchedulerEnd \/ EndJoinsCores \/ __OSDeleteAllActivePPCThreads \/ StartNextTitle
    \/ \E c \in Core : EndWakesCore(c)

Next ==
    \/ KernelStep \/ HostStep
    \/ \E c \in Core : IdleStep(c) \/ GuestCall(c)
    \/ \E t \in Thread : TimerFires(t)

Spec == Init /\ [][Next]_vars

\* Host threads that ask for the lock get it in the end, and a timeslice ends:
\* remainingCycles runs out in every guest loop.
Fairness ==
    /\ WF_vars(KernelStep) /\ WF_vars(EndJoinsCores)
    /\ \A c \in Core : /\ WF_vars(IdleCheck(c)) /\ WF_vars(WaitUntilNonZero(c))
                       /\ WF_vars(LeaveFiber(c))
                       /\ SF_vars(EventsDone(c)) /\ SF_vars(IdlePick(c))
                       /\ SF_vars(OSYieldThread(c)) /\ SF_vars(PollAgain(c))
                       /\ WF_vars(EndWakesCore(c))
    /\ \A t \in Thread : SF_vars(TimerFires(t))

FairSpec == Spec /\ Fairness
-----------------------------------------------------------------------------
(* Properties.                                                              *)

\* Every variable has its type, and the lock is either free or held by a core.
TypeOK ==
    /\ state \in [Thread -> States]
    /\ suspendCounter \in [Thread -> Nat]
    /\ affinity \in [Thread -> SUBSET Core]
    /\ priority \in [Thread -> Priorities]
    /\ detached \subseteq Thread
    /\ resumeAt \in [Thread -> ResumePoints]
    /\ currentRunQueue \in [Thread -> SUBSET Core]
    /\ currentWaitQueue \in [Thread -> WaitQueues \union {None}]
    /\ runQueue \in [Core -> Seq(Thread)]
    /\ runQueueCount \in [Core -> Int]
    /\ waitQueue \in [WaitQueues -> Seq(Thread)]
    /\ active \subseteq Thread
    /\ current \in [Core -> Thread \union {None}]
    /\ core \in [Core -> CoreModes]
    /\ kernel \in Kernels
    /\ host \in [phase : HostPhases, active : BOOLEAN, todo : SUBSET Core, titles : Nat]

\* Until the structures are torn down, a thread is linked in the run queue of
\* exactly the cores it could be dispatched on: those of its affinity mask
\* when it is READY and not suspended, none otherwise, and never twice.
RunQueuesExact ==
    host.phase # "stopped" =>
      /\ \A t \in Thread :
            currentRunQueue[t] = ReadyCores(state[t], suspendCounter[t], affinity[t], {})
      /\ \A c \in Core : /\ NoDuplicates(runQueue[c])
                         /\ Threads(runQueue[c]) = {t \in Thread : c \in currentRunQueue[t]}

\* g_coreRunQueueThreadCount tells an idle core whether it has work: it never
\* counts less than the run queue holds, nor less than one more once
\* OSSchedulerEnd has been at the core, and in the first title just that.
CountersExact ==
    \A c \in Core :
      LET surplus == runQueueCount[c] - Len(runQueue[c]) IN
      /\ surplus >= IF host.phase = "running" \/ c \in host.todo THEN 0 ELSE 1
      /\ host.titles = 1 =>
           surplus = IF host.phase = "running" \/ c \in host.todo THEN 0 ELSE 1

\* A thread never runs on two cores, and a core that does not hold the lock
\* is in guest code exactly with a RUNNING thread.  A core that is leaving at
\* the end of the title has stored its thread and no longer counts as running it.
OneCorePerThread ==
    /\ \A c, d \in Core : current[c] = current[d] /\ current[c] # None => c = d
    /\ \A t \in Thread : state[t] = "RUNNING" => \E c \in Core : current[c] = t
    /\ \A c \in Core : /\ current[c] # None <=> core[c] = "guest"
                       /\ core[c] = "guest" /\ kernel.holder # c => state[current[c]] = "RUNNING"

\* A thread is WAITING exactly while one wait queue links it, once, and its
\* back pointer names that queue, so that every wake-up can find it.
WaitQueuesExact ==
    host.phase # "stopped" =>
      /\ \A t \in Thread : state[t] = "WAITING" <=> currentWaitQueue[t] # None
      /\ \A q \in WaitQueues :
            /\ NoDuplicates(waitQueue[q])
            /\ Threads(waitQueue[q]) = {t \in Thread : currentWaitQueue[t] = q}

\* The active list, and with it the set of fibers, holds exactly the threads
\* that have been started and not yet reaped.
ActiveExact == active = {t \in Thread : state[t] # "NONE"}

\* The assertions in OSJoinThread (coreinit_Thread.cpp:766): when a joiner
\* goes on, its target has exited, is still attached and not reaped.
JoinSeesMoribund ==
    kernel.wake = None /\ kernel.after = "join" =>
      LET t == resumeAt[current[kernel.holder]].target
      IN  state[t] = "MORIBUND" /\ t \notin detached /\ t \in active

\* The assertion that ends __OSCreateThreadOnActiveThreadWorkaround
\* (coreinit_Thread.cpp:467): a structure is initialised again only when its
\* previous thread is gone.
RecreateSeesInactive ==
    \A me \in Thread : resumeAt[me].op = "create" => resumeAt[me].target \notin active

\* At most so many steps of the holder are left before it gives the lock back.
Remaining ==
    LET left == [join |-> 1, pick |-> 2, store |-> 3, exit |-> 4, return |-> 5]
    IN  IF kernel.holder = None THEN 0
        ELSE IF kernel.wake = None THEN left[kernel.after]
        ELSE 6 + Len(waitQueue[kernel.wake])

\* While a core holds the scheduler lock, every step takes it closer to the
\* release, or touches nothing that the lock guards: the loop that empties a
\* wait queue (wakeupEntireWaitQueue) ends, and so does every chain of exit,
\* store, choice of the next thread and end of a join.
LockIsGivenBack ==
    [][kernel.holder # None =>
         \/ Remaining' < Remaining
         \/ UNCHANGED <<threadVars, currentRunQueue, runQueue, waitVars, active, current, kernel>>]_vars

\* The threads that cores run, and not only have not stored yet.
RunningThread ==
    [c \in Core |-> IF current[c] # None /\ state[current[c]] = "RUNNING" THEN current[c] ELSE None]

\* Run queues, counters, links and the lock together implement strict priorities:
\* a core takes one of the most urgent threads that may run on it.
Promise == INSTANCE PriorityScheduler WITH running <- RunningThread

ImplementsPriorities == Promise!Spec

\* A core is handed only a thread that may run there and is not suspended,
\* the first of the most urgent ones of its run queue.
DispatchInOrder ==
    [][\A c \in Core :
         LET t == current'[c] IN
         current[c] = None /\ t # None =>
           /\ c \in affinity[t] /\ suspendCounter[t] = 0 /\ state[t] = "READY"
           /\ \A i, j \in DOMAIN runQueue[c] :
                 runQueue[c][i] = t =>
                   /\ priority[t] <= priority[runQueue[c][j]]
                   /\ j < i => priority[t] < priority[runQueue[c][j]]]_vars

\* Among threads of equal priority that only yield, sleep and wake each other,
\* a thread that can run does run: no idle core misses it for ever.
Runnable(t) == state[t] = "READY" /\ suspendCounter[t] = 0
NoStarvation == \A t \in Thread : Runnable(t) ~> state[t] = "RUNNING"

\* A joiner whose target has exited returns from OSJoinThread.
JoinReturns ==
    \A j, t \in Thread :
      (resumeAt[j] = Joining(t) /\ state[t] = "MORIBUND") ~> resumeAt[j] = Guest

\* OSSchedulerEnd stops the cores other than the main one.
OtherCoresStop ==
    \A c \in Core \ {MainCore} : host.phase = "joining" ~> core[c] = "exited"

\* "wait for threads to stop execution" (coreinit_Thread.cpp:1511): once
\* OSSchedulerEnd waits for the host threads, all of them stop.
ShutdownCompletes == host.phase = "joining" ~> host.phase # "joining"
=============================================================================
