----------------------- MODULE PriorityScheduler_proofs -----------------------
(***************************************************************************)
(* CoreScheduler implements PriorityScheduler for any number of threads    *)
(* and cores, and no core keeps the scheduler lock.                        *)
(***************************************************************************)
EXTENDS CoreScheduler_proofs

Promised == [Promise!Next]_(Promise!vars)

\* Steps that touch nothing the promise speaks of.
LEMMA QuietStep ==
    ASSUME UNCHANGED <<state, suspendCounter, affinity, priority, active, current>>
    PROVE  Promised
<1>1. RunningThread' = RunningThread BY DEF RunningThread
<1> QED BY <1>1 DEF Promised, Promise!vars

\* A thread that runs neither before nor after changes its state.
LEMMA RunningKept ==
    ASSUME TypeOK, NEW t \in Thread, NEW st, state' = [state EXCEPT ![t] = st], current' = current,
           st # "RUNNING", state[t] # "RUNNING"
    PROVE  RunningThread' = RunningThread
<1>1. \A u \in Thread : state'[u] = "RUNNING" <=> state[u] = "RUNNING" BY DEF TypeOK
<1>2. ASSUME NEW c \in Core PROVE RunningThread'[c] = RunningThread[c]
  BY <1>1 DEF RunningThread, TypeOK
<1>3. /\ RunningThread' = [c \in Core |-> RunningThread'[c]]
      /\ RunningThread = [c \in Core |-> RunningThread[c]]
  BY DEF RunningThread
<1> HIDE DEF RunningThread
<1> QED BY <1>2, <1>3

\* The thread of core c stops; its fiber may have been left or not.
LEMMA ThreadStops ==
    ASSUME IInv, NEW c \in Core, NEW st \in {"READY", "WAITING", "MORIBUND", "NONE"},
           current[c] # None, state[current[c]] = "RUNNING",
           state' = [state EXCEPT ![current[c]] = st],
           current' = current \/ current' = [current EXCEPT ![c] = None],
           active' = IF st = "NONE" THEN active \ {current[c]} ELSE active,
           UNCHANGED <<suspendCounter, affinity, priority>>
    PROVE  Promised
<1> DEFINE t == current[c]
<1>1. t \in Thread /\ state \in [Thread -> States] /\ current \in [Core -> Thread \union {None}]
  BY DEF IInv, TypeOK
<1>2. RunningThread[c] = t BY DEF RunningThread
<1>3. ASSUME NEW d \in Core \ {c} PROVE RunningThread'[d] = RunningThread[d]
  <2>1. current'[d] = current[d] BY <1>1
  <2>2. current[d] # None => current[d] \in Thread /\ current[d] # t
    BY <1>1 DEF IInv, OneCorePerThread
  <2> QED BY <1>1, <2>1, <2>2 DEF RunningThread
<1>4. RunningThread'[c] = None BY <1>1 DEF RunningThread
<1>5. /\ RunningThread' = [d \in Core |-> RunningThread'[d]]
      /\ RunningThread = [d \in Core |-> RunningThread[d]]
  BY DEF RunningThread
<1> HIDE DEF RunningThread
<1>6. RunningThread' = [RunningThread EXCEPT ![c] = None] BY <1>3, <1>4, <1>5
<1>7. Promise!Stop(c, st) BY <1>2, <1>6 DEF Promise!Stop
<1> QED BY <1>7 DEF Promised, Promise!Next, Promise!CoreStep

\* A thread that has exited is reaped.
LEMMA ThreadReaped ==
    ASSUME IInv, NEW t \in active, state[t] = "MORIBUND",
           state' = [state EXCEPT ![t] = "NONE"], active' = active \ {t},
           UNCHANGED <<suspendCounter, affinity, priority, current>>
    PROVE  Promised
<1>1. TypeOK /\ t \in Thread BY DEF IInv, TypeOK
<1>2. RunningThread' = RunningThread BY <1>1, RunningKept
<1>3. Promise!Reap(t) BY <1>2 DEF Promise!Reap
<1> QED BY <1>1, <1>3 DEF Promised, Promise!Next, Promise!ThreadStep
-----------------------------------------------------------------------------
\* Every core takes one of the most urgent threads that may run on it: they are
\* the ones that its run queue links.
LEMMA DispatchImplements ==
    ASSUME IInv, NEW c \in Core, core[c] = "idlePick", kernel.holder \in {None, c},
           __OSGetNextRunableThread(c)
    PROVE  Promised
<1>1. CASE FindsNothing(c)
  BY <1>1, QuietStep DEF FindsNothing, threadVars
<1>2. ASSUME NEW i \in DOMAIN runQueue[c], IsNextRunable(c, i), Dispatch(c, runQueue[c][i])
      PROVE  Promised
  <2> DEFINE t == runQueue[c][i]
  <2>1. /\ TypeOK /\ OneCorePerThread /\ RunListsOK /\ host.phase # "stopped"
        /\ \A u \in Thread :
              currentRunQueue[u] = ReadyCores(state[u], suspendCounter[u], affinity[u], {})
    BY DEF IInv, CoresJoined, RunListsOK, RunQueuesExact
  <2>2. \A u \in Thread : u \in Threads(runQueue[c]) <=> Promise!MayRun(u, c)
    BY <2>1 DEF RunListsOK, ReadyCores, Promise!MayRun
  <2>3. t \in Thread /\ t \in Threads(runQueue[c]) BY <2>1 DEF TypeOK, Threads
  <2>4. state' = [state EXCEPT ![t] = "RUNNING"] /\ current' = [current EXCEPT ![c] = t]
        /\ UNCHANGED <<suspendCounter, affinity, priority, active>>
    BY <1>2 DEF Dispatch
  <2>5. ASSUME NEW u \in Thread, Promise!MayRun(u, c) PROVE priority[t] <= priority[u]
    <3>1. PICK j \in DOMAIN runQueue[c] : runQueue[c][j] = u BY <2>2, <2>5 DEF Threads
    <3>2. priority[t] < priority[u] \/ priority[t] = priority[u] BY <1>2, <3>1 DEF IsNextRunable
    <3>3. priority[t] \in Nat /\ priority[u] \in Nat BY <2>1, <2>3, GuestAssumption DEF TypeOK
    <3> HIDE DEF t
    <3> QED BY <3>2, <3>3
  <2> HIDE DEF t
  <2>6. state[t] = "READY" /\ current[c] = None
    BY <2>1, <2>2, <2>3 DEF Promise!MayRun, OneCorePerThread
  <2>7. RunningThread[c] = None BY <2>6 DEF RunningThread
  <2>8. ASSUME NEW d \in Core \ {c} PROVE RunningThread'[d] = RunningThread[d]
    <3>1. current'[d] = current[d] BY <2>1, <2>4 DEF TypeOK
    <3>2. CASE current[d] = None BY <3>1, <3>2 DEF RunningThread
    <3>3. CASE current[d] # None
      <4>1. current[d] \in Thread /\ state[current[d]] = "RUNNING"
        BY <2>1, <3>3, CoreAssumption DEF OneCorePerThread, TypeOK
      <4>2. current[d] # t BY <2>6, <4>1
      <4> QED BY <2>1, <2>3, <2>4, <3>1, <4>1, <4>2 DEF RunningThread, TypeOK
    <3> QED BY <3>2, <3>3
  <2>9. RunningThread'[c] = t BY <2>1, <2>3, <2>4, ThreadAssumption DEF RunningThread, TypeOK
  <2>10. /\ RunningThread' = [d \in Core |-> RunningThread'[d]]
         /\ RunningThread = [d \in Core |-> RunningThread[d]]
    BY DEF RunningThread
  <2> HIDE DEF RunningThread
  <2>11. RunningThread' = [RunningThread EXCEPT ![c] = t] BY <2>8, <2>9, <2>10
  <2>12. Promise!Dispatch(c, t) BY <2>2, <2>3, <2>4, <2>5, <2>7, <2>11 DEF Promise!Dispatch
  <2> QED BY <2>3, <2>12 DEF Promised, Promise!Next, Promise!CoreStep
<1> QED BY <1>1, <1>2 DEF __OSGetNextRunableThread

\* The steps of the holder of the lock.
LEMMA KernelImplements ==
    ASSUME IInv, KernelStep PROVE Promised
<1> DEFINE c == kernel.holder
           t == current[c]
<1>1. TypeOK /\ KernelOK /\ OneCorePerThread BY DEF IInv
<1>2. CASE WakeNext
  <2> DEFINE w == kernel.wake
             u == Head(waitQueue[w])
  <2>1. CASE waitQueue[w] = <<>> BY <1>2, <2>1, QuietStep DEF WakeNext, threadVars, coreVars
  <2>2. CASE waitQueue[w] # <<>>
    <3>1. /\ w # None /\ w \in WaitQueues /\ host.phase # "stopped"
      BY <1>1, <1>2 DEF IInv, TypeOK, KernelOK, WakeNext, Kernels, Unlocked, CoresJoined
    <3>2. waitQueue[w] \in Seq(Thread) /\ NoDuplicates(waitQueue[w])
      BY <1>1, <3>1 DEF IInv, TypeOK, WaitQueuesExact
    <3>3. u \in Threads(waitQueue[w]) BY <2>2, <3>2, TakeFirstProperties
    <3>4. u \in Thread /\ state[u] = "WAITING" BY <3>1, <3>3 DEF IInv, WaitQueuesExact
    <3>5. /\ state' = [state EXCEPT ![u] = "READY"]
          /\ UNCHANGED <<suspendCounter, affinity, priority, active, current>>
      BY <1>2, <2>2 DEF WakeNext, coreVars
    <3> HIDE DEF u
    <3>6. RunningThread' = RunningThread BY <1>1, <3>4, <3>5, RunningKept
    <3>7. Promise!Wake(u) BY <3>4, <3>5, <3>6 DEF Promise!Wake
    <3> QED BY <3>4, <3>7 DEF Promised, Promise!Next, Promise!ThreadStep
  <2> QED BY <2>1, <2>2
<1>3. CASE StoreThread
  <2>1. /\ c \in Core /\ t \in Thread /\ t # None /\ state[t] # "READY"
    BY <1>1, <1>3 DEF StoreThread, KernelOK, TypeOK, Kernels, Unlocked, OneCorePerThread
  <2>2. /\ state' = [state EXCEPT ![t] = IF @ = "RUNNING" THEN "READY" ELSE @]
        /\ current' = [current EXCEPT ![c] = None]
        /\ UNCHANGED <<suspendCounter, affinity, priority, active>>
    BY <1>3 DEF StoreThread
  <2>3. CASE state[t] = "RUNNING"
    <3>1. state' = [state EXCEPT ![t] = "READY"] BY <1>1, <2>1, <2>2, <2>3 DEF TypeOK
    <3> QED BY <2>1, <2>2, <2>3, <3>1, ThreadStops
  <2>4. CASE state[t] # "RUNNING"
    <3>1. state' = state BY <1>1, <2>1, <2>2, <2>4 DEF TypeOK
    <3>2. \A d \in Core : current'[d] = IF d = c THEN None ELSE current[d]
      BY <1>1, <2>2 DEF TypeOK
    <3>3. RunningThread' = RunningThread BY <2>4, <3>1, <3>2 DEF RunningThread
    <3> QED BY <2>2, <3>1, <3>3 DEF Promised, Promise!vars
  <2> QED BY <2>3, <2>4
<1>4. CASE PickNext
  <2>1. c \in Core /\ core[c] = "idlePick"
    BY <1>1, <1>4 DEF TypeOK, KernelOK, PickNext, Kernels, Unlocked
  <2> QED BY <1>4, <2>1, DispatchImplements DEF PickNext
<1>5. CASE ExitTail
  <2>1. /\ c \in Core /\ t \in Thread /\ t # None /\ state[t] = "RUNNING"
    BY <1>1, <1>5 DEF ExitTail, KernelOK, TypeOK, Kernels, Unlocked, OneCorePerThread
  <2>2. /\ state' = [state EXCEPT ![t] = IF t \in detached THEN "NONE" ELSE "MORIBUND"]
        /\ active' = active \ (detached \intersect {t})
        /\ UNCHANGED <<suspendCounter, affinity, priority, current>>
    BY <1>5 DEF ExitTail, coreVars
  <2>3. CASE t \in detached
    <3>1. state' = [state EXCEPT ![t] = "NONE"] /\ active' = active \ {t} BY <2>2, <2>3
    <3> QED BY <2>1, <2>2, <3>1, ThreadStops
  <2>4. CASE t \notin detached
    <3>1. state' = [state EXCEPT ![t] = "MORIBUND"] /\ active' = active BY <2>2, <2>4
    <3> QED BY <2>1, <2>2, <3>1, ThreadStops
  <2> QED BY <2>3, <2>4
<1>6. CASE JoinTail
  <2> DEFINE u == resumeAt[t].target
  <2>1. u \in active /\ state[u] = "MORIBUND" BY <1>6, JoinerFacts DEF JoinTail
  <2>2. /\ state' = [state EXCEPT ![u] = "NONE"] /\ active' = active \ {u}
        /\ UNCHANGED <<suspendCounter, affinity, priority, current>>
    BY <1>6 DEF JoinTail, EndTarget, coreVars
  <2> QED BY <2>1, <2>2, ThreadReaped
<1> QED BY <1>2, <1>3, <1>4, <1>5, <1>6 DEF KernelStep

LEMMA IdleImplements ==
    ASSUME IInv, NEW c \in Core, IdleStep(c) PROVE Promised
<1>1. CASE IdleCheck(c) \/ WaitUntilNonZero(c) \/ EventsDone(c) \/ LeaveFiber(c)
  BY <1>1, QuietStep DEF IdleCheck, WaitUntilNonZero, EventsDone, LeaveFiber, threadVars
<1>2. CASE IdlePick(c)
  BY <1>2, DispatchImplements DEF IdlePick, Unlocked
<1> QED BY <1>1, <1>2 DEF IdleStep

\* A title ends with all its threads, and the next one starts with one.
LEMMA HostImplements ==
    ASSUME IInv, PollsOK, HostStep PROVE Promised
<1>1. CASE OSSchedulerEnd \/ EndJoinsCores \/ \E c \in Core : EndWakesCore(c)
  BY <1>1, QuietStep DEF OSSchedulerEnd, EndJoinsCores, EndWakesCore, threadVars, coreVars
<1>2. CASE __OSDeleteAllActivePPCThreads
  <2>1. \A c \in Core : current[c] = None
    BY <1>2 DEF __OSDeleteAllActivePPCThreads, IInv, CoresJoined, OneCorePerThread
  <2>2. current' = current /\ UNCHANGED <<suspendCounter, affinity, priority>> /\ active' = {}
    BY <1>2 DEF __OSDeleteAllActivePPCThreads, coreVars
  <2>3. state' = [t \in Thread |-> "NONE"]
    <3>1. \A t \in Thread \ active : state[t] = "NONE" BY DEF IInv, ActiveExact
    <3> QED BY <1>2, <3>1 DEF __OSDeleteAllActivePPCThreads
  <2>4. /\ \A c \in Core : RunningThread[c] = None
        /\ RunningThread' = RunningThread
    BY <2>1, <2>2 DEF RunningThread
  <2>5. Promise!EndTitle BY <2>2, <2>3, <2>4 DEF Promise!EndTitle
  <2> QED BY <2>5 DEF Promised, Promise!Next
<1>3. CASE StartNextTitle
  <2>1. active = {} BY <1>3 DEF StartNextTitle, PollsOK
  <2>2. /\ state' = [t \in Thread |-> IF t = Boot THEN "READY" ELSE "NONE"]
        /\ suspendCounter'[Boot] = 0 /\ affinity'[Boot] = {MainCore}
        /\ active' = {Boot} /\ current' = [c \in Core |-> None]
    BY <1>3, ThreadAssumption DEF StartNextTitle, FreshTitle
  <2>3. RunningThread' = [c \in Core |-> None] BY <2>2 DEF RunningThread
  <2>4. Promise!StartTitle BY <2>1, <2>2, <2>3 DEF Promise!StartTitle, Promise!Starts
  <2> QED BY <2>4 DEF Promised, Promise!Next
<1> QED BY <1>1, <1>2, <1>3 DEF HostStep
-----------------------------------------------------------------------------
\* The guest's calls: waiting ...
LEMMA WaitImplements ==
    ASSUME IInv, NEW c \in Core, NEW q, QueueAndWait(c, q), core[c] = "guest",
           UNCHANGED <<suspendCounter, affinity, priority, active, current>>
    PROVE  Promised
<1>1. current[c] # None BY DEF IInv, OneCorePerThread
<1>2. state[current[c]] = "RUNNING" /\ state' = [state EXCEPT ![current[c]] = "WAITING"]
  BY DEF QueueAndWait
<1> QED BY <1>1, <1>2, ThreadStops

\* ... detaching ...
LEMMA DetachImplements ==
    ASSUME IInv, NEW c \in Core, NEW t \in active, DetachLocked(c, t) PROVE Promised
<1>1. CASE state[t] = "MORIBUND"
  BY <1>1, ThreadReaped DEF DetachLocked, coreVars
<1>2. CASE state[t] # "MORIBUND"
  BY <1>2, QuietStep DEF DetachLocked, coreVars
<1> QED BY <1>1, <1>2

\* ... waiting for the end of the thread whose structure is to be used again ...
LEMMA PollImplements ==
    ASSUME IInv, NEW c \in Core, NEW t, CreatePoll(c, t), core[c] = "guest"
    PROVE  Promised
<1>1. CASE t \in active /\ state[t] \in {"READY", "RUNNING"} /\ suspendCounter[t] = 0
  BY <1>1, WaitImplements DEF CreatePoll, coreVars
<1>2. CASE t \in active /\ state[t] = "MORIBUND"
  BY <1>2, DetachImplements DEF CreatePoll
<1>3. CASE ~(t \in active /\ state[t] \in {"READY", "RUNNING"} /\ suspendCounter[t] = 0)
           /\ ~(t \in active /\ state[t] = "MORIBUND")
  BY <1>3, QuietStep DEF CreatePoll, coreVars
<1> QED BY <1>1, <1>2, <1>3

\* ... creating a thread and running one again ...
LEMMA CreateImplements ==
    ASSUME IInv, NEW c \in Core, NEW mask \in Affinities, NEW p \in Priorities, NEW det \in BOOLEAN,
           CreateThread(c, mask, p, det)
    PROVE  Promised
<1> DEFINE me == current[c]
           t  == resumeAt[me].target
<1>1. /\ TypeOK /\ core[c] = "guest" /\ kernel = Unlocked /\ resumeAt[me].op = "create" /\ me \in Thread
      /\ host.phase # "stopped" /\ PendingOK
  BY CallFacts DEF CreateThread, IInv, TypeOK
<1>2. t \in Thread /\ t \notin active
  BY <1>1 DEF PendingOK, TypeOK, ResumePoints
<1>3. state[t] = "NONE" BY <1>2 DEF IInv, ActiveExact
<1>4. /\ state' = [state EXCEPT ![t] = "READY"]
      /\ suspendCounter' = [suspendCounter EXCEPT ![t] = 1]
      /\ affinity' = [affinity EXCEPT ![t] = mask]
      /\ priority' = [priority EXCEPT ![t] = p]
      /\ active' = active \union {t} /\ current' = current
  BY DEF CreateThread, coreVars
<1> HIDE DEF t
<1>5. RunningThread' = RunningThread BY <1>1, <1>2, <1>3, <1>4, RunningKept
<1>6. Promise!Create(t, mask, p) BY <1>2, <1>4, <1>5 DEF Promise!Create
<1>7. mask \in SUBSET Core BY GuestAssumption
<1> QED BY <1>2, <1>6, <1>7 DEF Promised, Promise!Next, Promise!ThreadStep

LEMMA RunImplements ==
    ASSUME IInv, NEW c \in Core, NEW t \in Thread, OSRunThread(c, t) PROVE Promised
<1>1. /\ TypeOK /\ state[t] \in {"NONE", "MORIBUND"} /\ (t \in active => state[t] = "MORIBUND")
  BY DEF OSRunThread, IInv, ActiveExact
<1>2. /\ state' = [state EXCEPT ![t] = "READY"]
      /\ suspendCounter' = [suspendCounter EXCEPT ![t] = 0]
      /\ active' = active \union {t}
      /\ UNCHANGED <<affinity, priority, current>>
  BY DEF OSRunThread, coreVars
<1>3. RunningThread' = RunningThread BY <1>1, <1>2, RunningKept
<1>4. Promise!Run(t) BY <1>1, <1>2, <1>3 DEF Promise!Run
<1> QED BY <1>4 DEF Promised, Promise!Next, Promise!ThreadStep

\* ... suspending and resuming ...
LEMMA SuspensionImplements ==
    ASSUME IInv, NEW c \in Core, NEW t \in Thread, OSResumeThread(c, t) \/ OSSuspendThread(c, t)
    PROVE  Promised
<1>1. suspendCounter[t] \in Nat /\ suspendCounter \in [Thread -> Nat] BY DEF IInv, TypeOK
<1>2. /\ UNCHANGED <<state, affinity, priority, active, current>>
      /\ \E n \in 0 .. suspendCounter[t] + 1 : suspendCounter' = [suspendCounter EXCEPT ![t] = n]
  <2>1. CASE OSResumeThread(c, t)
    <3>1. PICK count \in {1, suspendCounter[t]} : __OSResumeThreadInternal(c, t, count)
      BY <2>1 DEF OSResumeThread
    <3> DEFINE n == IF suspendCounter[t] < count THEN 0 ELSE suspendCounter[t] - count
    <3>2. n \in 0 .. suspendCounter[t] + 1 BY <1>1
    <3>3. suspendCounter' = [suspendCounter EXCEPT ![t] = n]
      BY <1>1, <3>1 DEF __OSResumeThreadInternal
    <3> HIDE DEF n
    <3> QED BY <2>1, <3>1, <3>2, <3>3 DEF OSResumeThread, __OSResumeThreadInternal, coreVars
  <2>2. CASE OSSuspendThread(c, t)
    <3>1. suspendCounter' = [suspendCounter EXCEPT ![t] = suspendCounter[t] + 1]
      BY <1>1, <2>2 DEF OSSuspendThread, __OSSuspendThreadInternal
    <3>2. suspendCounter[t] + 1 \in 0 .. suspendCounter[t] + 1 BY <1>1
    <3> QED BY <2>2, <3>1, <3>2 DEF OSSuspendThread, __OSSuspendThreadInternal, coreVars
  <2> QED BY <2>1, <2>2
<1>3. RunningThread' = RunningThread BY <1>2 DEF RunningThread
<1>4. \E n \in 0 .. suspendCounter[t] + 1 : Promise!SetSuspended(t, n)
  BY <1>2, <1>3 DEF Promise!SetSuspended
<1> QED BY <1>4 DEF Promised, Promise!Next, Promise!ThreadStep

\* ... and all of them.
LEMMA GuestImplements ==
    ASSUME IInv, NEW c \in Core, GuestCall(c) PROVE Promised
<1>1. core[c] = "guest" /\ kernel = Unlocked
  BY DEF GuestCall, Calls, OSYieldThread, OSSleepTicks, OSExitThread, PollAgain, OSSleepThread,
     OSWakeupThread, OSResumeThread, OSSuspendThread, OSDetachThread, OSJoinThread, OSCreateThread,
     OSRunThread, OSSetThreadAffinity, OSSetThreadPriority, CreateThread
<1>2. CASE OSYieldThread(c) \/ OSExitThread(c) \/ \E q \in UserQueue : OSWakeupThread(c, q)
  BY <1>2, QuietStep DEF OSYieldThread, OSExitThread, OSWakeupThread, threadVars, coreVars
<1>3. CASE OSSleepTicks(c) \/ \E q \in UserQueue : OSSleepThread(c, q)
  BY <1>1, <1>3, WaitImplements DEF OSSleepTicks, OSSleepThread, coreVars
<1>4. CASE PollAgain(c) BY <1>1, <1>4, PollImplements DEF PollAgain
<1>5. ASSUME NEW t \in Thread, OSResumeThread(c, t) \/ OSSuspendThread(c, t) PROVE Promised
  BY <1>5, SuspensionImplements
<1>6. ASSUME NEW t \in Thread, OSDetachThread(c, t) PROVE Promised
  BY <1>6, DetachImplements DEF OSDetachThread
<1>7. ASSUME NEW t \in Thread, OSJoinThread(c, t) PROVE Promised
  <2>1. t \in active BY <1>7 DEF OSJoinThread
  <2>2. CASE state[t] = "MORIBUND"
    BY <1>7, <2>1, <2>2, ThreadReaped DEF OSJoinThread, EndTarget, coreVars
  <2>3. CASE state[t] # "MORIBUND" /\ t \in detached
    BY <1>7, <2>3, QuietStep DEF OSJoinThread, vars, threadVars, coreVars
  <2>4. CASE state[t] # "MORIBUND" /\ t \notin detached
    BY <1>1, <1>7, <2>4, WaitImplements DEF OSJoinThread, coreVars
  <2> QED BY <2>2, <2>3, <2>4
<1>8. ASSUME NEW t \in Thread, OSCreateThread(c, t) PROVE Promised
  BY <1>1, <1>8, PollImplements DEF OSCreateThread
<1>9. ASSUME NEW t \in Thread, OSRunThread(c, t) PROVE Promised
  BY <1>9, RunImplements
<1>10. ASSUME NEW t \in Thread, NEW mask \in Affinities, OSSetThreadAffinity(c, t, mask)
       PROVE  Promised
  <2>1. /\ affinity' = [affinity EXCEPT ![t] = mask]
        /\ UNCHANGED <<state, suspendCounter, priority, active, current>>
    BY <1>10 DEF OSSetThreadAffinity, coreVars
  <2>2. RunningThread' = RunningThread BY <2>1 DEF RunningThread
  <2>3. Promise!SetAffinity(t, mask) BY <2>1, <2>2 DEF Promise!SetAffinity
  <2>4. mask \in SUBSET Core BY GuestAssumption
  <2> QED BY <2>3, <2>4 DEF Promised, Promise!Next, Promise!ThreadStep
<1>11. ASSUME NEW t \in Thread, NEW p \in Priorities, OSSetThreadPriority(c, t, p) PROVE Promised
  <2>1. /\ priority' = [priority EXCEPT ![t] = p]
        /\ UNCHANGED <<state, suspendCounter, affinity, active, current>>
    BY <1>11 DEF OSSetThreadPriority, coreVars
  <2>2. RunningThread' = RunningThread BY <2>1 DEF RunningThread
  <2>3. Promise!SetPriority(t, p) BY <2>1, <2>2 DEF Promise!SetPriority
  <2> QED BY <2>3 DEF Promised, Promise!Next, Promise!ThreadStep
<1>12. ASSUME NEW mask \in Affinities, NEW p \in Priorities, NEW det \in BOOLEAN,
              CreateThread(c, mask, p, det)
       PROVE  Promised
  BY <1>12, CreateImplements
<1> QED BY <1>2, <1>3, <1>4, <1>5, <1>6, <1>7, <1>8, <1>9, <1>10, <1>11, <1>12 DEF GuestCall

\* The scheduler keeps its promise of strict priorities: every step of the
\* detailed scheduler is a step of PriorityScheduler, or changes nothing there.
THEOREM SchedulerKeepsPromise ==
    ASSUME WellBehaved PROVE Spec => ImplementsPriorities
<1>1. Init => Promise!Init
  <2>1. SUFFICES ASSUME Init PROVE Promise!Init OBVIOUS
  <2>2. /\ state = [t \in Thread |-> IF t = Boot THEN "READY" ELSE "NONE"]
        /\ suspendCounter[Boot] = 0 /\ affinity[Boot] = {MainCore}
        /\ active = {Boot} /\ current = [c \in Core |-> None]
    BY <2>1, ThreadAssumption DEF Init, FreshTitle
  <2>3. RunningThread = [c \in Core |-> None] BY <2>2 DEF RunningThread
  <2> QED BY <2>2, <2>3 DEF Promise!Init, Promise!Starts
<1>2. IInv /\ PollsOK /\ [Next]_vars => Promised
  <2>1. SUFFICES ASSUME IInv, PollsOK, [Next]_vars PROVE Promised OBVIOUS
  <2>2. CASE KernelStep BY <2>1, <2>2, KernelImplements
  <2>3. CASE HostStep BY <2>1, <2>3, HostImplements
  <2>4. ASSUME NEW c \in Core, IdleStep(c) \/ GuestCall(c) PROVE Promised
    BY <2>1, <2>4, IdleImplements, GuestImplements
  <2>5. ASSUME NEW t \in Thread, TimerFires(t) PROVE Promised
    BY <2>5, QuietStep DEF TimerFires, threadVars, coreVars
  <2>6. CASE UNCHANGED vars
    BY <2>6, QuietStep DEF vars, threadVars, coreVars
  <2> QED BY <2>1, <2>2, <2>3, <2>4, <2>5, <2>6 DEF Next
<1> QED BY <1>1, <1>2, SchedulerInvariant, PTL DEF Spec, ImplementsPriorities, Promise!Spec, Promised
-----------------------------------------------------------------------------
(* The lock is given back.                                                  *)

\* The values of Remaining.
LEMMA RemainingValues ==
    /\ kernel.holder = None => Remaining = 0
    /\ kernel.holder # None /\ kernel.wake = None =>
         /\ kernel.after = "join" => Remaining = 1
         /\ kernel.after = "pick" => Remaining = 2
         /\ kernel.after = "store" => Remaining = 3
         /\ kernel.after = "exit" => Remaining = 4
    /\ kernel.holder # None /\ kernel.wake # None => Remaining = 6 + Len(waitQueue[kernel.wake])
  BY DEF Remaining

LEMMA UnlockedRemaining ==
    ASSUME kernel' = Unlocked PROVE Remaining' = 0
  BY LockValues DEF Remaining

LEMMA HoldRemaining ==
    ASSUME NEW c \in Core, NEW after \in {"exit", "store", "pick", "join"}, kernel' = Hold(c, after)
    PROVE  Remaining' = IF after = "join" THEN 1 ELSE IF after = "pick" THEN 2
                        ELSE IF after = "store" THEN 3 ELSE 4
<1>1. c # None /\ kernel'.holder = c /\ kernel'.wake = None /\ kernel'.after = after
  BY CoreAssumption, LockValues
<1> QED BY <1>1 DEF Remaining

\* A step of the holder brings it closer to the release.
LEMMA KernelRemaining ==
    ASSUME IInv, KernelStep PROVE Remaining' < Remaining
<1> DEFINE c == kernel.holder
<1>1. TypeOK /\ KernelOK BY DEF IInv
<1>2. CASE WakeNext
  <2> DEFINE w == kernel.wake
  <2>1. /\ w # None /\ w \in WaitQueues /\ c # None /\ c \in Core
        /\ kernel.after \in {"return", "exit"} /\ kernel \in Kernels
    BY <1>1, <1>2 DEF TypeOK, KernelOK, WakeNext, Kernels, Unlocked
  <2>2. waitQueue \in [WaitQueues -> Seq(Thread)] /\ waitQueue[w] \in Seq(Thread) /\ Len(waitQueue[w]) \in Nat
    BY <1>1, <2>1 DEF TypeOK
  <2>3. Remaining = 6 + Len(waitQueue[w]) BY <2>1, RemainingValues
  <2>4. CASE waitQueue[w] = <<>>
    <3>1. \/ kernel' = Hold(c, "store") \/ kernel' = Unlocked \/ kernel' = Hold(c, "exit")
      BY <1>2, <2>1, <2>4 DEF WakeNext
    <3>2. Remaining' \in {0, 3, 4} BY <2>1, <3>1, UnlockedRemaining, HoldRemaining
    <3> QED BY <2>2, <2>3, <3>2
  <2>5. CASE waitQueue[w] # <<>>
    <3> DEFINE t == Head(waitQueue[w])
               should == \/ kernel.should
                         \/ /\ kernel.resched /\ suspendCounter[t] = 0
                            /\ __OSCoreShouldSwitchToThread(c, t, priority)
    <3>1. /\ kernel' = [kernel EXCEPT !.should = should]
          /\ waitQueue' = [waitQueue EXCEPT ![w] = Tail(waitQueue[w])]
      BY <1>2, <2>5 DEF WakeNext
    <3> HIDE DEF should
    <3>2. kernel'.holder = c /\ kernel'.wake = w BY <2>1, <3>1 DEF Kernels
    <3>3. waitQueue'[w] = Tail(waitQueue[w]) BY <2>1, <2>2, <3>1
    <3>4. Len(Tail(waitQueue[w])) = Len(waitQueue[w]) - 1 /\ Len(waitQueue[w]) > 0
      BY <2>2, <2>5
    <3>5. Remaining' = 6 + Len(waitQueue'[w]) BY <2>1, <3>2 DEF Remaining
    <3> QED BY <2>2, <2>3, <3>3, <3>4, <3>5
  <2> QED BY <2>4, <2>5
<1>3. CASE StoreThread
  <2>1. c # None /\ c \in Core /\ kernel.wake = None /\ kernel.after = "store"
    BY <1>1, <1>3 DEF TypeOK, KernelOK, StoreThread, Kernels, Unlocked
  <2>2. kernel' = Hold(c, "pick") \/ kernel' = Unlocked BY <1>3 DEF StoreThread
  <2>3. Remaining' \in {0, 2} BY <2>1, <2>2, UnlockedRemaining, HoldRemaining
  <2> QED BY <2>1, <2>3, RemainingValues
<1>4. CASE PickNext
  <2>1. c # None /\ c \in Core /\ kernel.wake = None /\ kernel.after = "pick"
    BY <1>1, <1>4 DEF TypeOK, KernelOK, PickNext, Kernels, Unlocked
  <2>2. kernel' = Hold(c, "join") \/ kernel' = Unlocked
    BY <1>4 DEF PickNext, __OSGetNextRunableThread, FindsNothing, Dispatch
  <2>3. Remaining' \in {0, 1} BY <2>1, <2>2, UnlockedRemaining, HoldRemaining
  <2> QED BY <2>1, <2>3, RemainingValues
<1>5. CASE ExitTail
  <2>1. c # None /\ c \in Core /\ kernel.wake = None /\ kernel.after = "exit"
    BY <1>1, <1>5 DEF TypeOK, KernelOK, ExitTail, Kernels, Unlocked
  <2>2. kernel' = Hold(c, "store") BY <1>5 DEF ExitTail
  <2>3. Remaining' = 3 BY <2>1, <2>2, HoldRemaining
  <2> QED BY <2>1, <2>3, RemainingValues
<1>6. CASE JoinTail
  <2>1. c # None /\ kernel.wake = None /\ kernel.after = "join"
    BY <1>1, <1>6 DEF TypeOK, KernelOK, JoinTail, Kernels, Unlocked
  <2>2. Remaining' = 0 BY <1>6, UnlockedRemaining DEF JoinTail
  <2> QED BY <2>1, <2>2, RemainingValues
<1> QED BY <1>2, <1>3, <1>4, <1>5, <1>6 DEF KernelStep

\* While a core holds the lock, every step brings it closer to the release or
\* touches nothing that the lock guards (PPCCore_switchToSchedulerWithLock hands
\* the lock from fiber to fiber, and each path unlocks it in the end).
THEOREM LockAlwaysGivenBack ==
    ASSUME WellBehaved PROVE Spec => LockIsGivenBack
<1> DEFINE Guarded == <<threadVars, currentRunQueue, runQueue, waitVars, active, current, kernel>>
           Closer == kernel.holder # None => Remaining' < Remaining \/ UNCHANGED Guarded
<1>1. ASSUME IInv, Next, kernel.holder # None PROVE Remaining' < Remaining \/ UNCHANGED Guarded
  <2>1. kernel # Unlocked /\ kernel.holder \in Core /\ core[kernel.holder] \notin {"leaving", "exited"}
    BY <1>1, LockValues DEF IInv, TypeOK, KernelOK, Kernels
  <2>2. CASE KernelStep BY <1>1, <2>2, KernelRemaining
  <2>3. CASE HostStep
    <3>1. host.phase \notin {"ended", "stopped"} BY <1>1, <2>1 DEF IInv, CoresJoined
    <3> QED BY <2>3, <3>1 DEF HostStep, OSSchedulerEnd, EndWakesCore, EndJoinsCores,
              __OSDeleteAllActivePPCThreads, StartNextTitle, runVars, coreVars
  <2>4. ASSUME NEW c \in Core, IdleStep(c) PROVE UNCHANGED Guarded
    BY <2>1, <2>4 DEF IdleStep, IdleCheck, IdlePick, WaitUntilNonZero, EventsDone, LeaveFiber, runVars
  <2>5. ASSUME NEW c \in Core, GuestCall(c) PROVE FALSE
    BY <2>1, <2>5 DEF GuestCall, Calls, OSYieldThread, OSSleepTicks, OSExitThread, PollAgain,
       OSSleepThread, OSWakeupThread, OSResumeThread, OSSuspendThread, OSDetachThread, OSJoinThread,
       OSCreateThread, OSRunThread, OSSetThreadAffinity, OSSetThreadPriority, CreateThread
  <2>6. ASSUME NEW t \in Thread, TimerFires(t) PROVE FALSE BY <2>1, <2>6 DEF TimerFires
  <2> HIDE DEF Guarded
  <2> QED BY <1>1, <2>2, <2>3, <2>4, <2>5, <2>6 DEF Next
<1>2. IInv /\ [Next]_vars => [Closer]_vars BY <1>1
<1> QED BY <1>2, SchedulerInvariant, PTL DEF Spec, LockIsGivenBack
-----------------------------------------------------------------------------
(* Nothing is undecided: the loop of __OSGetNextRunableThread is modelled   *)
(* by what the position it stops at satisfies, and so is the one of         *)
(* addThreadByPriority (InsertPointUnique).                                 *)

\* __OSGetNextRunableThread can choose one thread of a run queue that is not
\* empty, sorted or not, and only one.
THEOREM NextRunableUnique ==
    ASSUME TypeOK, NEW c \in Core, runQueue[c] # <<>>
    PROVE  /\ \E i \in DOMAIN runQueue[c] : IsNextRunable(c, i)
           /\ \A i, j \in DOMAIN runQueue[c] : IsNextRunable(c, i) /\ IsNextRunable(c, j) => i = j
<1> DEFINE q == runQueue[c]
           n == Len(q)
           p == [i \in 1 .. n |-> priority[q[i]]]
           before(i) == {j \in 1 .. n : p[j] < p[i] \/ (p[j] = p[i] /\ j <= i)}
           F == {before(i) : i \in 1 .. n}
<1>1. q \in Seq(Thread) /\ n \in Nat /\ n # 0 /\ DOMAIN q = 1 .. n /\ 1 \in 1 .. n
  BY DEF TypeOK
<1>2. \A i \in 1 .. n : p[i] = priority[q[i]] /\ p[i] \in Nat
  <2>1. priority \in [Thread -> Nat] BY GuestAssumption DEF TypeOK
  <2>2. \A i \in 1 .. n : q[i] \in Thread BY <1>1
  <2> QED BY <2>1, <2>2
<1>3. \A i \in 1 .. n : IsNextRunable(c, i) <=>
         \A j \in 1 .. n : p[i] < p[j] \/ (p[i] = p[j] /\ i <= j)
  <2> HIDE DEF p
  <2> QED BY <1>1, <1>2 DEF IsNextRunable
<1> HIDE DEF p, n
<1>4. \E i \in 1 .. n : \A j \in 1 .. n : p[i] < p[j] \/ (p[i] = p[j] /\ i <= j)
  <2>1. IsFiniteSet(1 .. n) BY <1>1, FS_Interval
  <2>2. F \subseteq SUBSET (1 .. n) OBVIOUS
  <2>3. F # {} BY <1>1
  <2>4. PICK X \in F : \A Y \in F : Y \subseteq X => Y = X
    <3> DEFINE U == 1 .. n
    <3>1. IsFiniteSet(U) /\ F \subseteq SUBSET U /\ F # {} BY <2>1, <2>2, <2>3
    <3> HIDE DEF F, U
    <3> QED BY <3>1, SmallestSubset
  <2>5. PICK i \in 1 .. n : X = before(i) BY <2>4
  <2>6. ASSUME NEW j \in 1 .. n, ~(p[i] < p[j] \/ (p[i] = p[j] /\ i <= j)) PROVE FALSE
    <3>1. p[i] \in Nat /\ p[j] \in Nat /\ i \in Nat /\ j \in Nat BY <1>1, <1>2
    <3>2. p[j] < p[i] \/ (p[j] = p[i] /\ j < i) BY <2>6, <3>1
    <3>3. before(j) \subseteq before(i) BY <1>2, <3>1, <3>2
    <3>4. i \in before(i) /\ i \notin before(j) BY <3>1, <3>2
    <3> QED BY <2>4, <2>5, <3>3, <3>4
  <2> QED BY <2>6
<1>5. ASSUME NEW i \in 1 .. n, NEW j \in 1 .. n, IsNextRunable(c, i), IsNextRunable(c, j) PROVE i = j
  <2>1. p[i] \in Nat /\ p[j] \in Nat /\ i \in Nat /\ j \in Nat BY <1>1, <1>2
  <2>2. p[i] < p[j] \/ (p[i] = p[j] /\ i <= j) BY <1>3, <1>5
  <2>3. p[j] < p[i] \/ (p[j] = p[i] /\ j <= i) BY <1>3, <1>5
  <2> QED BY <2>1, <2>2, <2>3
<1> QED BY <1>1, <1>3, <1>4, <1>5

\* What the holder of the lock has to look for is there.
HolderCanGoOn ==
    kernel.holder # None =>
      \/ kernel.wake # None
      \/ kernel.after \in {"exit", "store", "join"}
      \/ /\ kernel.after = "pick"
         /\ \/ runQueue[kernel.holder] = <<>>
            \/ \E i \in DOMAIN runQueue[kernel.holder] : IsNextRunable(kernel.holder, i)

\* The holder of the lock always has a step of its own to take: with
\* LockAlwaysGivenBack, the lock is free after at most Remaining of them.
THEOREM HolderNeverStuck ==
    ASSUME WellBehaved PROVE Spec => []HolderCanGoOn
<1>1. IInv => HolderCanGoOn
  <2>1. SUFFICES ASSUME IInv, kernel.holder # None, kernel.wake = None PROVE HolderCanGoOn
    BY DEF HolderCanGoOn
  <2>2. TypeOK /\ kernel.holder \in Core BY <2>1 DEF IInv, TypeOK, Kernels
  <2>3. kernel.after \in {"exit", "store", "join", "pick"} BY <2>1 DEF IInv, KernelOK
  <2>4. runQueue[kernel.holder] = <<>>
        \/ \E i \in DOMAIN runQueue[kernel.holder] : IsNextRunable(kernel.holder, i)
    BY <2>2, NextRunableUnique
  <2> QED BY <2>3, <2>4 DEF HolderCanGoOn
<1> QED BY <1>1, SchedulerInvariant, PTL
=============================================================================
