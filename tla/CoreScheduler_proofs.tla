------------------------ MODULE CoreScheduler_proofs ------------------------
(***************************************************************************)
(* The inductive invariant of CoreScheduler, for any number of threads and *)
(* cores, and the theorems that follow from it.                            *)
(***************************************************************************)
EXTENDS CoreScheduler, ThreadQueue_proofs

\* What the holder of the lock still has to do determines where it is and in
\* which state its thread is.  In particular a thread that is not RUNNING is
\* current only between its last change of state and __OSStoreThread.
KernelOK ==
    /\ kernel.holder = None => kernel = Unlocked
    /\ kernel.holder # None =>
         LET c == kernel.holder
             t == current[c]
         IN
         \/ /\ kernel.after = "pick" /\ kernel.wake = None
            /\ core[c] = "idlePick"
         \/ /\ kernel.after = "store" /\ kernel.wake = None
            /\ core[c] = "guest" /\ state[t] # "READY"
         \/ /\ kernel.after = "return" /\ kernel.wake # None
            /\ core[c] = "guest" /\ state[t] = "RUNNING"
         \/ /\ kernel.after = "return" /\ kernel.wake # None
            /\ core[c] = "events" /\ ~kernel.resched /\ ~kernel.should
         \/ /\ kernel.after = "exit" /\ kernel.wake \in {None, JoinQueue(t)}
            /\ core[c] = "guest" /\ state[t] = "RUNNING" /\ resumeAt[t] = Guest
            /\ ~kernel.resched /\ ~kernel.should
            /\ (kernel.wake = None => waitQueue[JoinQueue(t)] = <<>>)
         \/ /\ kernel.after = "join" /\ kernel.wake = None
            /\ core[c] = "guest" /\ state[t] = "RUNNING" /\ resumeAt[t].op = "join"

\* The holder is in the tail of OSExitThread for t.
Exiting(t) == kernel.holder # None /\ kernel.after = "exit" /\ current[kernel.holder] = t

\* Threads in the middle of a join or a creation: no two for one target; a
\* creation has a target that is gone; and a joiner either waits for a target
\* that can still exit, or was woken by its exit.
PendingOK ==
    /\ \A j \in Thread : /\ (resumeAt[j].op = "guest" <=> resumeAt[j].target = None)
                         /\ (state[j] \in {"NONE", "MORIBUND"} => resumeAt[j] = Guest)
    /\ \A j, k \in Thread : resumeAt[j].target = resumeAt[k].target /\ resumeAt[j] # Guest => j = k
    /\ \A j \in Thread : resumeAt[j].op = "create" => resumeAt[j].target \notin active

\* Only the boot thread waits for the previous thread of a structure that it
\* creates again, and that thread cannot be stopped before it exits: it is the
\* reason that the poll ends with the structure free (the title is expected to
\* keep to that, see RunsOn).
PollsOK ==
    /\ \A j \in Thread : resumeAt[j].op = "poll" =>
          LET t == resumeAt[j].target IN
          /\ j = Boot /\ t # Boot
          /\ t \in active => suspendCounter[t] = 0 /\ state[t] # "WAITING"
    /\ host.phase = "stopped" => active = {}

JoinOK(j, t) ==
    /\ t \in active /\ t \notin detached /\ j # t
    /\ state[j] = "WAITING" => /\ currentWaitQueue[j] = JoinQueue(t)
                               /\ state[t] # "MORIBUND"
    /\ state[j] # "WAITING" => state[t] = "MORIBUND" \/ Exiting(t)
    /\ state[j] = "RUNNING" => /\ kernel.holder # None /\ kernel.after = "join"
                               /\ current[kernel.holder] = j

JoinsOK ==
    /\ \A j, t \in Thread : resumeAt[j] = Joining(t) => JoinOK(j, t)
    /\ \A j, t \in Thread : currentWaitQueue[j] = JoinQueue(t) => resumeAt[j] = Joining(t)
    /\ \A t \in Thread : kernel.wake = JoinQueue(t) => Exiting(t)

\* Once OSSchedulerEnd has joined the host threads, none of them runs.
CoresJoined ==
    host.phase \in {"ended", "stopped"} => \A c \in Core : core[c] = "exited"

IInv ==
    /\ TypeOK /\ RunQueuesExact /\ OneCorePerThread /\ KernelOK
    /\ WaitQueuesExact /\ ActiveExact /\ CoresJoined
    /\ host.phase # "stopped" => PendingOK /\ JoinsOK
-----------------------------------------------------------------------------
\* Run queues link exactly the threads whose back pointers say so.
RunListsOK ==
    \A c \in Core : /\ NoDuplicates(runQueue[c])
                    /\ Threads(runQueue[c]) = {t \in Thread : c \in currentRunQueue[t]}

RunTypes ==
    /\ currentRunQueue \in [Thread -> SUBSET Core]
    /\ runQueue \in [Core -> Seq(Thread)]
    /\ runQueueCount \in [Core -> Int]

\* MoveOnRunQueues keeps lists, back pointers and counters in step, provided
\* that t is on the lists it leaves and not on those it joins.
LEMMA MoveOnRunQueuesProperties ==
    ASSUME RunTypes, RunListsOK,
           NEW t \in Thread, NEW off \in SUBSET currentRunQueue[t],
           NEW on \in SUBSET Core, on \intersect (currentRunQueue[t] \ off) = {},
           MoveOnRunQueues(t, off, on)
    PROVE  /\ RunTypes' /\ RunListsOK'
           /\ currentRunQueue' = [currentRunQueue EXCEPT ![t] = (@ \ off) \union on]
           /\ \A c \in Core : runQueueCount'[c] - Len(runQueue'[c])
                              = runQueueCount[c] - Len(runQueue[c])
<1>1. currentRunQueue' = [currentRunQueue EXCEPT ![t] = (@ \ off) \union on]
  BY DEF MoveOnRunQueues
<1>2. currentRunQueue' \in [Thread -> SUBSET Core]
  BY <1>1 DEF RunTypes
<1> DEFINE rest(c) == IF c \in off THEN removeThread(runQueue[c], t) ELSE runQueue[c]
           here(c) == IF c \in off THEN 1 ELSE 0
           there(c) == IF c \in on THEN 1 ELSE 0
           list(c) == IF c \in on THEN addThread(rest(c), t) ELSE rest(c)
           count(c) == runQueueCount[c] - here(c) + there(c)
<1>3. runQueue' = [c \in Core |-> list(c)]
  BY DEF MoveOnRunQueues
<1>4. runQueueCount' = [c \in Core |-> count(c)]
  BY DEF MoveOnRunQueues
<1> HIDE DEF rest
<1>5. ASSUME NEW c \in Core
      PROVE  /\ rest(c) \in Seq(Thread) /\ NoDuplicates(rest(c))
             /\ Len(rest(c)) = Len(runQueue[c]) - here(c)
             /\ Threads(rest(c)) = IF c \in off THEN Threads(runQueue[c]) \ {t}
                                   ELSE Threads(runQueue[c])
  <2>1. runQueue[c] \in Seq(Thread) /\ NoDuplicates(runQueue[c]) /\ Len(runQueue[c]) \in Nat
    BY DEF RunTypes, RunListsOK
  <2>2. CASE c \in off
    <3>1. t \in Threads(runQueue[c]) BY <2>2 DEF RunListsOK
    <3>2. /\ removeThread(runQueue[c], t) \in Seq(Thread)
          /\ Len(removeThread(runQueue[c], t)) = Len(runQueue[c]) - 1
          /\ Threads(removeThread(runQueue[c], t)) = Threads(runQueue[c]) \ {t}
          /\ NoDuplicates(removeThread(runQueue[c], t))
      BY <2>1, <3>1, RemoveThreadProperties
    <3> QED BY <2>2, <3>2 DEF rest
  <2>3. CASE c \notin off BY <2>1, <2>3 DEF rest
  <2> QED BY <2>2, <2>3
<1>6. ASSUME NEW c \in Core
      PROVE  /\ list(c) \in Seq(Thread) /\ NoDuplicates(list(c))
             /\ Len(list(c)) = Len(rest(c)) + there(c)
             /\ Threads(list(c)) = IF c \in on THEN Threads(rest(c)) \union {t} ELSE Threads(rest(c))
  <2>1. CASE c \in on
    <3>1. t \notin Threads(rest(c)) BY <1>5, <2>1 DEF RunListsOK
    <3>2. /\ addThread(rest(c), t) \in Seq(Thread)
          /\ Len(addThread(rest(c), t)) = Len(rest(c)) + 1
          /\ Threads(addThread(rest(c), t)) = Threads(rest(c)) \union {t}
          /\ NoDuplicates(addThread(rest(c), t))
      BY <1>5, <3>1, AddThreadProperties
    <3> QED BY <2>1, <3>2
  <2>2. CASE c \notin on
    <3>1. Len(rest(c)) \in Nat BY <1>5
    <3> QED BY <1>5, <2>2, <3>1
  <2> QED BY <2>1, <2>2
<1> HIDE DEF list
<1>7. RunTypes'
  <2>1. \A c \in Core : count(c) \in Int BY DEF RunTypes
  <2>2. runQueueCount' \in [Core -> Int] BY <1>4, <2>1
  <2>3. runQueue' \in [Core -> Seq(Thread)] BY <1>3, <1>6
  <2> QED BY <1>2, <2>2, <2>3 DEF RunTypes
<1>8. RunListsOK'
  <2>1. SUFFICES ASSUME NEW c \in Core
                 PROVE  /\ NoDuplicates(list(c))
                        /\ Threads(list(c)) = {u \in Thread : c \in currentRunQueue'[u]}
    BY <1>3 DEF RunListsOK
  <2>2. Threads(runQueue[c]) = {u \in Thread : c \in currentRunQueue[u]}
    BY DEF RunListsOK
  <2>3. \A u \in Thread : c \in currentRunQueue'[u] <=>
           IF u = t THEN (c \in currentRunQueue[t] /\ c \notin off) \/ c \in on
           ELSE c \in currentRunQueue[u]
    BY <1>1 DEF RunTypes
  <2> QED BY <1>5, <1>6, <2>2, <2>3
<1>9. \A c \in Core : runQueueCount'[c] - Len(runQueue'[c]) = runQueueCount[c] - Len(runQueue[c])
  <2>1. SUFFICES ASSUME NEW c \in Core
                 PROVE count(c) - Len(list(c)) = runQueueCount[c] - Len(runQueue[c])
    BY <1>3, <1>4
  <2>2. runQueueCount[c] \in Int /\ Len(runQueue[c]) \in Nat BY DEF RunTypes
  <2> QED BY <1>5, <1>6, <2>2
<1> QED BY <1>1, <1>7, <1>8, <1>9
-----------------------------------------------------------------------------
\* The values that the lock takes.
LEMMA LockValues ==
    /\ Unlocked \in Kernels /\ Unlocked.holder = None /\ Unlocked.wake = None
    /\ \A c \in Core, after \in {"return", "exit", "store", "pick", "join"} :
          /\ Hold(c, after) \in Kernels
          /\ Hold(c, after).holder = c /\ Hold(c, after).wake = None
          /\ Hold(c, after).after = after
    /\ \A c \in Core, q \in WaitQueues, resched \in BOOLEAN,
          after \in {"return", "exit", "store", "pick", "join"} :
          /\ Wake(c, q, resched, after) \in Kernels
          /\ Wake(c, q, resched, after).holder = c /\ Wake(c, q, resched, after).wake = q
          /\ Wake(c, q, resched, after).after = after
  BY DEF Unlocked, Hold, Wake, Kernels

\* A step that changes nothing keeps the invariant.
LEMMA StutterInvariant ==
    ASSUME IInv, UNCHANGED vars PROVE IInv'
<1> USE DEF vars, threadVars, runVars, waitVars, coreVars
<1>1. TypeOK'
  BY DEF IInv, TypeOK
<1>2. RunQueuesExact' /\ OneCorePerThread' /\ WaitQueuesExact' /\ ActiveExact' /\ CoresJoined'
  BY DEF IInv, RunQueuesExact, OneCorePerThread, WaitQueuesExact, ActiveExact, CoresJoined
<1>3. KernelOK'
  BY DEF IInv, KernelOK
<1>4. host.phase # "stopped" => PendingOK' /\ JoinsOK'
  BY DEF IInv, PendingOK, JoinsOK, JoinOK, Exiting
<1> QED BY <1>1, <1>2, <1>3, <1>4 DEF IInv

\* A freshly started title.
Fresh ==
    /\ FreshTitle(state, suspendCounter, affinity, priority, detached, resumeAt,
                  currentRunQueue, currentWaitQueue, runQueue, waitQueue,
                  active, current, core)
    /\ runQueueCount \in [Core -> Int] /\ kernel = Unlocked
    /\ host \in [phase : {"running"}, active : BOOLEAN, todo : SUBSET Core, titles : Nat]

\* A freshly started title, the first or a later one, satisfies the invariant.
LEMMA FreshInvariant == Fresh => IInv
<1> SUFFICES ASSUME Fresh PROVE IInv
  OBVIOUS
<1> USE CoreAssumption, ThreadAssumption, GuestAssumption
<1>1. (CHOOSE p \in Priorities : TRUE) \in Priorities
  BY DEF GuestAssumption
<1>2. TypeOK
  BY <1>1 DEF Fresh, FreshTitle, TypeOK, States, ResumePoints, Guest, CoreModes, HostPhases,
     Kernels, Unlocked, CoreAssumption, ThreadAssumption
<1>3. RunQueuesExact
  <2>1. NoDuplicates(<<Boot>>) /\ Threads(<<Boot>>) = {Boot}
    BY DEF NoDuplicates, Threads
  <2>2. NoDuplicates(<<>>) /\ Threads(<<>>) = {}
    BY DEF NoDuplicates, Threads
  <2>3. \A t \in Thread :
           currentRunQueue[t] = ReadyCores(state[t], suspendCounter[t], affinity[t], {})
    BY DEF Fresh, FreshTitle, ReadyCores
  <2>4. ASSUME NEW c \in Core
        PROVE  /\ NoDuplicates(runQueue[c])
               /\ Threads(runQueue[c]) = {t \in Thread : c \in currentRunQueue[t]}
    <3>1. /\ runQueue[c] = IF c = MainCore THEN <<Boot>> ELSE <<>>
          /\ \A t \in Thread : currentRunQueue[t] = IF t = Boot THEN {MainCore} ELSE {}
      BY DEF Fresh, FreshTitle
    <3> QED BY <2>1, <2>2, <3>1 DEF ThreadAssumption
  <2> QED BY <2>3, <2>4 DEF RunQueuesExact
<1>4. OneCorePerThread
  BY DEF Fresh, FreshTitle, OneCorePerThread
<1>5. KernelOK /\ CoresJoined
  BY DEF Fresh, KernelOK, CoresJoined, Unlocked
<1>6. WaitQueuesExact
  <2>1. NoDuplicates(<<>>) /\ Threads(<<>>) = {}
    BY DEF NoDuplicates, Threads
  <2>2. \A q \in WaitQueues : q # None
    BY DEF WaitQueues, ThreadAssumption, JoinQueue, TimerQueue
  <2> QED BY <2>1, <2>2 DEF Fresh, FreshTitle, WaitQueuesExact
<1>7. ActiveExact
  BY DEF Fresh, FreshTitle, ActiveExact, ThreadAssumption
<1>8. PendingOK
  BY DEF Fresh, FreshTitle, PendingOK, Guest
<1>9. JoinsOK
  BY DEF Fresh, FreshTitle, JoinsOK, Guest, Joining, Unlocked, JoinQueue
<1> QED BY <1>2, <1>3, <1>4, <1>5, <1>6, <1>7, <1>8, <1>9 DEF IInv

\* The first title is a freshly started one.
LEMMA InitInvariant == Init => IInv
<1>1. Init => Fresh
  BY CoreAssumption DEF Init, Fresh
<1> QED BY <1>1, FreshInvariant

\* A core in guest code that does not hold the lock runs a RUNNING thread,
\* which is active and linked nowhere.
LEMMA CallFacts ==
    ASSUME IInv, NEW c \in Core, core[c] = "guest", kernel = Unlocked
    PROVE  /\ current[c] \in active /\ active \subseteq Thread
           /\ state[current[c]] = "RUNNING"
           /\ currentRunQueue[current[c]] = {} /\ currentWaitQueue[current[c]] = None
           /\ host.phase \notin {"ended", "stopped"}
<1>1. current[c] \in Thread /\ state[current[c]] = "RUNNING"
  BY CoreAssumption DEF IInv, TypeOK, OneCorePerThread, Unlocked
<1>2. host.phase \notin {"ended", "stopped"}
  BY DEF IInv, CoresJoined
<1> QED BY <1>1, <1>2 DEF IInv, RunQueuesExact, ReadyCores, WaitQueuesExact, ActiveExact

\* Calls that only take the lock and leave something to do: OSYieldThread,
\* OSWakeupThread, OSExitThread and OSSetThreadPriority.
LEMMA LockInvariant ==
    ASSUME IInv, NEW c \in Core, core[c] = "guest", kernel = Unlocked, resumeAt[current[c]] = Guest,
           \/ kernel' \in {Unlocked, Hold(c, "store")}
           \/ \E q \in UserQueue : kernel' = Wake(c, q, TRUE, "return")
           \/ kernel' = Wake(c, JoinQueue(current[c]), FALSE, "exit"),
           priority' \in [Thread -> Priorities],
           UNCHANGED <<state, suspendCounter, affinity, detached, resumeAt,
                       runVars, waitVars, active, coreVars, host>>
    PROVE  IInv'
<1> DEFINE me == current[c]
<1>1. /\ me \in Thread /\ state[me] = "RUNNING" /\ c # None
      /\ host.phase \notin {"ended", "stopped"} /\ PendingOK /\ JoinsOK
  BY CallFacts, CoreAssumption DEF IInv
<1>2. \A q \in UserQueue, t \in Thread : q \in WaitQueues /\ q # None /\ q # JoinQueue(t)
  BY ThreadAssumption DEF WaitQueues, JoinQueue
<1>3. \A t \in Thread : JoinQueue(t) \in WaitQueues /\ JoinQueue(t) # None
  BY ThreadAssumption DEF WaitQueues, JoinQueue
<1>4. /\ kernel'.holder \in {None, c}
      /\ kernel'.holder = None => kernel' = Unlocked
      /\ kernel'.after # "join"
      /\ kernel' \in Kernels
  <2>1. CASE kernel' = Unlocked
    BY <2>1, LockValues DEF Unlocked
  <2>4. CASE kernel' = Hold(c, "store")
    BY <1>1, <2>4, LockValues
  <2>2. CASE \E q \in UserQueue : kernel' = Wake(c, q, TRUE, "return")
    BY <1>1, <1>2, <2>2 DEF Wake, Kernels
  <2>3. CASE kernel' = Wake(c, JoinQueue(me), FALSE, "exit")
    BY <1>1, <1>3, <2>3 DEF Wake, Kernels
  <2> QED BY <2>1, <2>2, <2>3, <2>4
<1>5. TypeOK'
  BY <1>4 DEF IInv, TypeOK, runVars, waitVars, coreVars
<1>6. RunQueuesExact' /\ WaitQueuesExact' /\ ActiveExact' /\ CoresJoined'
  BY DEF IInv, RunQueuesExact, WaitQueuesExact, ActiveExact, CoresJoined, runVars, waitVars, coreVars
<1>7. OneCorePerThread'
  BY <1>1, CoreAssumption DEF IInv, OneCorePerThread, Unlocked, coreVars
<1>8. KernelOK'
  <2>1. CASE kernel' = Unlocked
    BY <2>1 DEF KernelOK, Unlocked
  <2>4. CASE kernel' = Hold(c, "store")
    BY <1>1, <2>4 DEF KernelOK, Hold, Unlocked, coreVars
  <2>2. CASE \E q \in UserQueue : kernel' = Wake(c, q, TRUE, "return")
    BY <1>1, <1>2, <2>2 DEF KernelOK, Wake, coreVars
  <2>3. CASE kernel' = Wake(c, JoinQueue(me), FALSE, "exit")
    BY <1>1, <1>3, <2>3 DEF KernelOK, Wake, coreVars
  <2> QED BY <2>1, <2>2, <2>3, <2>4
<1>9. PendingOK'
  BY <1>1 DEF PendingOK
<1>10. JoinsOK'
  <2>1. \A t \in Thread : ~Exiting(t) BY DEF Exiting, Unlocked
  <2>2. \A j, t \in Thread : resumeAt[j] = Joining(t) => JoinOK(j, t)'
    BY <1>1, <2>1 DEF JoinsOK, JoinOK, Unlocked, waitVars
  <2>3. ASSUME NEW t \in Thread, kernel'.wake = JoinQueue(t) PROVE Exiting(t)'
    <3>1. kernel' = Wake(c, JoinQueue(me), FALSE, "exit")
      <4>1. kernel'.wake # None BY <1>3, <2>3
      <4>2. kernel' # Unlocked /\ kernel' # Hold(c, "store") BY <4>1, LockValues
      <4>3. \A q \in UserQueue : kernel' # Wake(c, q, TRUE, "return")
        BY <1>2, <2>3 DEF Wake
      <4> QED BY <4>2, <4>3
    <3>2. t = me BY <2>3, <3>1 DEF Wake, JoinQueue
    <3> QED BY <1>1, <3>1, <3>2 DEF Exiting, Wake, coreVars
  <2> QED BY <1>1, <2>2, <2>3 DEF JoinsOK, waitVars
<1> QED BY <1>1, <1>5, <1>6, <1>7, <1>8, <1>9, <1>10 DEF IInv

\* Queueing the caller keeps the wait queues exact.
LEMMA QueueAndWaitProperties ==
    ASSUME IInv, NEW c \in Core, core[c] = "guest", kernel = Unlocked,
           NEW q \in WaitQueues, QueueAndWait(c, q), UNCHANGED host
    PROVE  /\ state' = [state EXCEPT ![current[c]] = "WAITING"]
           /\ currentWaitQueue' = [currentWaitQueue EXCEPT ![current[c]] = q]
           /\ waitQueue' \in [WaitQueues -> Seq(Thread)]
           /\ WaitQueuesExact'
<1> DEFINE me == current[c]
<1>1. me \in Thread /\ state[me] = "RUNNING" /\ host.phase # "stopped"
      /\ currentWaitQueue[me] = None
  BY CallFacts
<1>2. /\ state' = [state EXCEPT ![me] = "WAITING"]
      /\ currentWaitQueue' = [currentWaitQueue EXCEPT ![me] = q]
  BY DEF QueueAndWait
<1>3. /\ state \in [Thread -> States]
      /\ waitQueue \in [WaitQueues -> Seq(Thread)]
      /\ currentWaitQueue \in [Thread -> WaitQueues \union {None}]
  BY DEF IInv, TypeOK
<1>4. /\ \A t \in Thread : state[t] = "WAITING" <=> currentWaitQueue[t] # None
      /\ \A r \in WaitQueues : /\ NoDuplicates(waitQueue[r])
                               /\ Threads(waitQueue[r]) = {t \in Thread : currentWaitQueue[t] = r}
  BY <1>1 DEF IInv, WaitQueuesExact
<1>5. PICK i \in 0 .. Len(waitQueue[q]) :
        waitQueue' = [waitQueue EXCEPT ![q] = insertBehind(@, i, me)]
  BY DEF QueueAndWait
<1>6. q # None
  BY ThreadAssumption DEF WaitQueues, JoinQueue, TimerQueue
<1>7. me \notin Threads(waitQueue[q]) /\ waitQueue[q] \in Seq(Thread)
  BY <1>1, <1>3, <1>4, <1>6
<1> DEFINE r == insertBehind(waitQueue[q], i, me)
<1>8. r \in Seq(Thread) /\ NoDuplicates(r) /\ Threads(r) = Threads(waitQueue[q]) \union {me}
  BY <1>1, <1>4, <1>7, InsertBehindProperties
<1>9. waitQueue' = [waitQueue EXCEPT ![q] = r]
  BY <1>5
<1> HIDE DEF r, me
<1>10. waitQueue' \in [WaitQueues -> Seq(Thread)]
  BY <1>3, <1>8, <1>9
<1>11. \A t \in Thread : state'[t] = "WAITING" <=> currentWaitQueue'[t] # None
  BY <1>1, <1>2, <1>3, <1>4, <1>6
<1>12. ASSUME NEW s \in WaitQueues
       PROVE  /\ NoDuplicates(waitQueue'[s])
              /\ Threads(waitQueue'[s]) = {t \in Thread : currentWaitQueue'[t] = s}
  <2>1. waitQueue'[s] = IF s = q THEN r ELSE waitQueue[s]
    BY <1>3, <1>9
  <2>2. \A t \in Thread : currentWaitQueue'[t] = IF t = me THEN q ELSE currentWaitQueue[t]
    BY <1>2, <1>3
  <2>3. currentWaitQueue[me] # s
    BY <1>1, ThreadAssumption DEF WaitQueues, JoinQueue, TimerQueue, me
  <2>4. Threads(waitQueue[s]) = {t \in Thread : currentWaitQueue[t] = s} /\ NoDuplicates(waitQueue[s])
    BY <1>4
  <2>5. CASE s = q
    BY <1>1, <1>8, <2>1, <2>2, <2>4, <2>5
  <2>6. CASE s # q
    BY <1>1, <2>1, <2>2, <2>3, <2>4, <2>6
  <2> QED BY <2>5, <2>6
<1> QED BY <1>2, <1>10, <1>11, <1>12 DEF WaitQueuesExact, me

\* OSSleepThread, OSSleepTicks and the sleep of a creation that polls, which
\* differ in the queue and in where the thread goes on.
LEMMA SleepInvariant ==
    ASSUME IInv, NEW c \in Core, core[c] = "guest", kernel = Unlocked,
           resumeAt[current[c]].op # "join",
           NEW q \in UserQueue \union {TimerQueue(current[c])},
           QueueAndWait(c, q),
           NEW at \in {Guest} \union {Polling(t) : t \in Thread},
           resumeAt' = [resumeAt EXCEPT ![current[c]] = at],
           at # Guest => \A j \in Thread \ {current[c]} : resumeAt[j].target # at.target,
           UNCHANGED <<suspendCounter, affinity, priority, detached,
                       runVars, active, coreVars, host>>
    PROVE  IInv'
<1> DEFINE me == current[c]
<1>1. /\ me \in Thread /\ state[me] = "RUNNING" /\ me \in active
      /\ host.phase \notin {"ended", "stopped"} /\ PendingOK /\ JoinsOK
  BY CallFacts DEF IInv
<1>2. q \in WaitQueues
  BY <1>1 DEF WaitQueues
<1>3. /\ state' = [state EXCEPT ![me] = "WAITING"]
      /\ currentWaitQueue' = [currentWaitQueue EXCEPT ![me] = q]
      /\ waitQueue' \in [WaitQueues -> Seq(Thread)]
      /\ WaitQueuesExact' /\ kernel' = Hold(c, "store")
  BY <1>2, QueueAndWaitProperties DEF QueueAndWait
<1>4. q # None /\ \A t \in Thread : q # JoinQueue(t)
  BY <1>1, ThreadAssumption DEF JoinQueue, TimerQueue
<1>5. /\ state \in [Thread -> States] /\ currentWaitQueue \in [Thread -> WaitQueues \union {None}]
      /\ c # None /\ resumeAt \in [Thread -> ResumePoints]
  BY CoreAssumption DEF IInv, TypeOK
<1> HIDE DEF me
<1>5a. \A j \in Thread : resumeAt'[j] = IF j = me THEN at ELSE resumeAt[j]
  BY <1>5 DEF me
<1>5b. /\ at \in ResumePoints /\ at.op \in {"guest", "poll"}
       /\ (at.op = "guest" <=> at.target = None) /\ (at.target = None => at = Guest)
  BY ThreadAssumption DEF Guest, Polling, ResumePoints
<1>6. TypeOK'
  <2>1. resumeAt' \in [Thread -> ResumePoints] BY <1>5, <1>5b
  <2> QED BY <1>1, <1>2, <1>3, <2>1 DEF IInv, TypeOK, States, Hold, Unlocked, Kernels, runVars, coreVars
<1>7. RunQueuesExact'
  BY <1>1, <1>3, <1>5 DEF IInv, RunQueuesExact, ReadyCores, runVars
<1>8. OneCorePerThread'
  <2>1. \A d \in Core : core[d] = "guest" /\ d # c => state[current[d]] = "RUNNING" /\ current[d] # me
                                                      /\ current[d] \in Thread
    BY <1>1, CoreAssumption DEF IInv, TypeOK, OneCorePerThread, Unlocked, me
  <2>2. /\ UNCHANGED <<current, core>>
        /\ kernel'.holder = c
    BY <1>3 DEF coreVars, Hold, Unlocked
  <2> QED BY <1>1, <1>3, <1>5, <2>1, <2>2 DEF IInv, OneCorePerThread
<1>9. KernelOK'
  BY <1>1, <1>3, <1>5 DEF KernelOK, Hold, Unlocked, coreVars, me
<1>10. ActiveExact' /\ CoresJoined'
  BY <1>1, <1>3, <1>5 DEF IInv, ActiveExact, CoresJoined, coreVars
<1>11. PendingOK'
  <2>1. \A j \in Thread : resumeAt[j].target = None => resumeAt[j] = Guest
    BY <1>1, <1>5 DEF PendingOK, ResumePoints, Guest
  <2>2. ASSUME NEW j \in Thread, NEW k \in Thread,
               resumeAt'[j].target = resumeAt'[k].target, resumeAt'[j] # Guest
        PROVE  j = k
    <3>1. CASE j = me /\ k # me BY <1>5a, <2>2, <3>1 DEF me
    <3>2. CASE j # me /\ k = me
      <4>1. resumeAt[j].target = at.target /\ resumeAt[j].target # None BY <1>5a, <2>1, <2>2, <3>2
      <4>2. at # Guest BY <4>1 DEF Guest
      <4> QED BY <3>2, <4>1, <4>2 DEF me
    <3>3. CASE j # me /\ k # me BY <1>1, <1>5a, <2>2, <3>3 DEF PendingOK
    <3> QED BY <3>1, <3>2, <3>3
  <2>3. \A j \in Thread : state'[j] = IF j = me THEN "WAITING" ELSE state[j] BY <1>3, <1>5
  <2>4. ASSUME NEW j \in Thread
        PROVE  /\ (resumeAt'[j].op = "guest" <=> resumeAt'[j].target = None)
               /\ (state'[j] \in {"NONE", "MORIBUND"} => resumeAt'[j] = Guest)
               /\ (resumeAt'[j].op = "create" => resumeAt'[j].target \notin active')
    <3>1. CASE j = me BY <1>5a, <1>5b, <2>3, <3>1
    <3>2. CASE j # me BY <1>1, <1>5a, <2>3, <3>2 DEF PendingOK
    <3> QED BY <3>1, <3>2
  <2> QED BY <2>2, <2>4 DEF PendingOK
<1>12. JoinsOK'
  <2>1. \A t \in Thread : ~Exiting(t) BY DEF Exiting, Unlocked
  <2>2. resumeAt[me].op # "join" BY DEF me
  <2>3. kernel'.wake = None BY <1>3 DEF Hold, Unlocked
  <2>4. ASSUME NEW j \in Thread, NEW t \in Thread, resumeAt'[j] = Joining(t) PROVE JoinOK(j, t)'
    <3>1. j # me /\ resumeAt[j] = Joining(t) BY <1>5a, <1>5b, <2>4 DEF Joining
    <3>2. JoinOK(j, t) BY <1>1, <3>1 DEF JoinsOK
    <3>3. state'[j] = state[j] /\ currentWaitQueue'[j] = currentWaitQueue[j]
      BY <1>3, <1>5, <3>1
    <3>4. state'[t] = IF t = me THEN "WAITING" ELSE state[t] BY <1>3, <1>5
    <3> QED BY <1>1, <2>1, <3>2, <3>3, <3>4 DEF JoinOK, Unlocked
  <2>5. ASSUME NEW j \in Thread, NEW t \in Thread, currentWaitQueue'[j] = JoinQueue(t)
        PROVE resumeAt'[j] = Joining(t)
    <3>1. j # me /\ currentWaitQueue[j] = JoinQueue(t) BY <1>1, <1>3, <1>4, <1>5, <2>5
    <3> QED BY <1>1, <1>5a, <3>1 DEF JoinsOK
  <2>6. \A t \in Thread : kernel'.wake # JoinQueue(t)
    BY <2>3, ThreadAssumption DEF JoinQueue
  <2> QED BY <2>4, <2>5, <2>6 DEF JoinsOK
<1> QED BY <1>3, <1>6, <1>7, <1>8, <1>9, <1>10, <1>11, <1>12 DEF IInv

\* A guest that sleeps goes on in guest code.
LEMMA GuestSleeps ==
    ASSUME IInv, NEW c \in Core, core[c] = "guest", kernel = Unlocked, resumeAt[current[c]] = Guest,
           NEW q \in UserQueue \union {TimerQueue(current[c])}, QueueAndWait(c, q),
           UNCHANGED <<suspendCounter, affinity, priority, detached, resumeAt,
                       runVars, active, coreVars, host>>
    PROVE  IInv'
<1>1. resumeAt' = [resumeAt EXCEPT ![current[c]] = Guest]
  BY DEF IInv, TypeOK
<1>2. resumeAt[current[c]].op # "join" BY DEF Guest
<1> QED BY <1>1, <1>2, SleepInvariant

\* OSSetThreadPriority: a priority is no part of the invariant, only the lock is.
LEMMA PriorityInvariant ==
    ASSUME IInv, NEW c \in Core, NEW t \in Thread, NEW p \in Priorities, OSSetThreadPriority(c, t, p)
    PROVE  IInv'
<1>1. priority' \in [Thread -> Priorities]
  BY DEF OSSetThreadPriority, IInv, TypeOK
<1> QED BY <1>1, LockInvariant DEF OSSetThreadPriority, Calls
-----------------------------------------------------------------------------
\* The lock-free steps of the idle loops, and the expiry of an alarm.
LEMMA IdleInvariant ==
    ASSUME IInv, NEW c \in Core, core[c] \in {"idleTop", "waitNonZero", "events", "leaving"},
           core[c] = "events" => kernel.holder # c,
           NEW m \in CoreModes \ {"guest"}, core' = [core EXCEPT ![c] = m],
           UNCHANGED <<threadVars, runVars, waitVars, active, current, kernel, host>>
    PROVE  IInv'
<1>1. /\ core \in [Core -> CoreModes] /\ kernel \in Kernels /\ KernelOK
      /\ host.phase \notin {"ended", "stopped"}
  BY DEF IInv, TypeOK, CoresJoined
<1>2. kernel.holder # c
  BY <1>1, CoreAssumption DEF KernelOK
<1>3. TypeOK'
  BY DEF IInv, TypeOK, threadVars, runVars, waitVars
<1>4. RunQueuesExact' /\ WaitQueuesExact' /\ ActiveExact'
  BY DEF IInv, RunQueuesExact, WaitQueuesExact, ActiveExact, threadVars, runVars, waitVars
<1>5. OneCorePerThread'
  BY <1>1 DEF IInv, OneCorePerThread, threadVars
<1>6. KernelOK'
  BY <1>1, <1>2 DEF KernelOK, threadVars, waitVars, Kernels
<1>7. CoresJoined' /\ PendingOK' /\ JoinsOK'
  BY <1>1 DEF IInv, CoresJoined, PendingOK, JoinsOK, JoinOK, Exiting, threadVars, waitVars
<1> QED BY <1>3, <1>4, <1>5, <1>6, <1>7 DEF IInv

\* The alarm of a sleeping thread gives the main core the lock to wake it.
LEMMA TimerInvariant ==
    ASSUME IInv, NEW t \in Thread, TimerFires(t) PROVE IInv'
<1>1. /\ kernel = Unlocked /\ core[MainCore] = "events" /\ MainCore \in Core /\ MainCore # None
      /\ kernel' = Wake(MainCore, TimerQueue(t), FALSE, "return")
      /\ UNCHANGED <<threadVars, runVars, waitVars, active, coreVars, host>>
  BY CoreAssumption DEF TimerFires
<1>2. /\ TimerQueue(t) \in WaitQueues /\ TimerQueue(t) # None
      /\ \A u \in Thread : TimerQueue(t) # JoinQueue(u)
  BY ThreadAssumption DEF WaitQueues, JoinQueue, TimerQueue
<1>3. host.phase \notin {"ended", "stopped"}
  BY <1>1 DEF IInv, CoresJoined
<1>4. TypeOK'
  BY <1>1, <1>2 DEF IInv, TypeOK, Wake, Kernels, threadVars, runVars, waitVars, coreVars
<1>5. RunQueuesExact' /\ WaitQueuesExact' /\ ActiveExact' /\ CoresJoined'
  BY <1>1 DEF IInv, RunQueuesExact, WaitQueuesExact, ActiveExact, CoresJoined,
              threadVars, runVars, waitVars, coreVars
<1>6. OneCorePerThread'
  BY <1>1, CoreAssumption DEF IInv, OneCorePerThread, Wake, Unlocked, threadVars, coreVars
<1>7. KernelOK'
  BY <1>1, <1>2 DEF KernelOK, Wake, threadVars, coreVars
<1>8. PendingOK'
  BY <1>1, <1>3 DEF IInv, PendingOK, threadVars
<1>9. JoinsOK'
  BY <1>1, <1>2, <1>3 DEF IInv, JoinsOK, JoinOK, Exiting, Wake, Unlocked, threadVars, waitVars, coreVars
<1> QED BY <1>4, <1>5, <1>6, <1>7, <1>8, <1>9 DEF IInv
-----------------------------------------------------------------------------
\* Dispatch of a thread from the core's run queue, by the idle loop or by the
\* core that gave up its thread.
LEMMA DispatchInvariant ==
    ASSUME IInv, NEW c \in Core, core[c] = "idlePick", kernel.holder \in {None, c},
           NEW i \in DOMAIN runQueue[c], Dispatch(c, runQueue[c][i])
    PROVE  IInv'
<1> DEFINE t == runQueue[c][i]
<1>1. /\ host.phase \notin {"ended", "stopped"} /\ PendingOK /\ JoinsOK /\ c # None
      /\ RunTypes /\ RunListsOK /\ TypeOK
  BY CoreAssumption DEF IInv, CoresJoined, RunTypes, RunListsOK, RunQueuesExact, TypeOK
<1>2. t \in Thread /\ c \in currentRunQueue[t]
  BY <1>1 DEF RunListsOK, Threads
<1>3. state[t] = "READY" /\ suspendCounter[t] = 0 /\ currentWaitQueue[t] = None
  BY <1>1, <1>2 DEF IInv, RunQueuesExact, ReadyCores, WaitQueuesExact
<1>4. kernel.after # "exit" /\ kernel.after # "join" /\ kernel.wake = None
  BY <1>1 DEF IInv, KernelOK, Unlocked
<1>5. \A d \in Core : current[d] # t /\ (core[d] = "guest" => state[current[d]] = "RUNNING")
  BY <1>1, <1>2, <1>3, CoreAssumption, ThreadAssumption DEF IInv, OneCorePerThread
<1>6. current[c] = None
  BY <1>1 DEF IInv, OneCorePerThread
<1> HIDE DEF t
<1>7. /\ state' = [state EXCEPT ![t] = "RUNNING"]
      /\ current' = [current EXCEPT ![c] = t]
      /\ core' = [core EXCEPT ![c] = "guest"]
      /\ kernel' = IF resumeAt[t].op = "join" THEN Hold(c, "join") ELSE Unlocked
      /\ UNCHANGED <<suspendCounter, affinity, priority, detached, resumeAt,
                     waitVars, active, host>>
      /\ MoveOnRunQueues(t, currentRunQueue[t], {})
  BY DEF Dispatch, __OSRemoveThreadFromRunQueues, t
<1>8. /\ RunTypes' /\ RunListsOK'
      /\ currentRunQueue' = [currentRunQueue EXCEPT ![t] = (@ \ currentRunQueue[t]) \union {}]
  <2>1. /\ currentRunQueue[t] \in SUBSET currentRunQueue[t] /\ {} \in SUBSET Core
        /\ {} \intersect (currentRunQueue[t] \ currentRunQueue[t]) = {}
    OBVIOUS
  <2> QED BY <1>1, <1>2, <1>7, <2>1, MoveOnRunQueuesProperties
<1>9. TypeOK'
  BY <1>1, <1>2, <1>7, <1>8 DEF TypeOK, RunTypes, States, CoreModes, Kernels, Hold, Unlocked, waitVars
<1>10. RunQueuesExact'
  BY <1>1, <1>2, <1>7, <1>8 DEF IInv, TypeOK, RunQueuesExact, ReadyCores, RunListsOK
<1>11. OneCorePerThread'
  BY <1>1, <1>2, <1>5, <1>6, <1>7, ThreadAssumption DEF IInv, TypeOK, OneCorePerThread, Hold, Unlocked
<1>12. KernelOK'
  BY <1>1, <1>2, <1>7 DEF KernelOK, TypeOK, Hold, Unlocked
<1>13. WaitQueuesExact' /\ ActiveExact' /\ CoresJoined'
  BY <1>1, <1>2, <1>3, <1>7 DEF IInv, TypeOK, WaitQueuesExact, ActiveExact, CoresJoined, waitVars
<1>14. PendingOK'
  BY <1>1, <1>2, <1>3, <1>7 DEF TypeOK, PendingOK
<1>15. JoinsOK'
  <2>1. \A u \in Thread : ~Exiting(u) BY <1>4 DEF Exiting
  <2>2. ASSUME NEW j \in Thread, NEW u \in Thread, resumeAt[j] = Joining(u) PROVE JoinOK(j, u)'
    <3>1. JoinOK(j, u) BY <1>1, <2>2 DEF JoinsOK
    <3>2. CASE j = t
      <4>1. state[u] = "MORIBUND" /\ u # t BY <1>3, <2>1, <3>1, <3>2 DEF JoinOK
      <4>2. state'[u] = "MORIBUND" /\ state'[t] = "RUNNING" BY <1>1, <1>2, <1>7, <4>1 DEF TypeOK
      <4>3. kernel' = Hold(c, "join") /\ current'[c] = t
        BY <1>1, <1>7, <2>2, <3>2 DEF Joining, TypeOK
      <4> QED BY <1>1, <1>7, <3>1, <3>2, <4>2, <4>3 DEF JoinOK, Hold, Unlocked
    <3>3. CASE j # t
      <4>1. state'[j] = state[j] /\ (state'[u] = "MORIBUND" <=> state[u] = "MORIBUND")
        BY <1>1, <1>2, <1>3, <1>7, <3>3 DEF TypeOK
      <4> QED BY <1>4, <1>7, <2>1, <3>1, <4>1 DEF JoinOK, waitVars
    <3> QED BY <3>2, <3>3
  <2>3. \A u \in Thread : kernel'.wake # JoinQueue(u)
    BY <1>7, ThreadAssumption DEF Hold, Unlocked, JoinQueue
  <2> QED BY <1>1, <1>7, <2>2, <2>3 DEF JoinsOK, waitVars
<1> QED BY <1>1, <1>7, <1>9, <1>10, <1>11, <1>12, <1>13, <1>14, <1>15 DEF IInv
-----------------------------------------------------------------------------
\* Leaving the run queues alone is a move from no queue to no queue.
LEMMA NoMove ==
    ASSUME RunTypes, NEW t \in Thread, UNCHANGED runVars
    PROVE  MoveOnRunQueues(t, {}, {})
<1>1. runQueue = [c \in Core |-> runQueue[c]]
  BY DEF RunTypes
<1>2. \A c \in Core : runQueueCount[c] = runQueueCount[c] - 0 + 0
  BY DEF RunTypes
<1>3. runQueueCount = [c \in Core |-> runQueueCount[c] - 0 + 0]
  BY <1>2 DEF RunTypes
<1>4. currentRunQueue = [currentRunQueue EXCEPT ![t] = (@ \ {}) \union {}]
  BY DEF RunTypes
<1> QED BY <1>1, <1>3, <1>4 DEF MoveOnRunQueues, runVars

\* A thread other than those that the cores run gets new scheduling fields
\* and run queues to match: what resume, suspend, affinity and start share.
LEMMA RequeueInvariant ==
    ASSUME IInv, NEW c \in Core, core[c] = "guest", kernel = Unlocked, resumeAt[current[c]] = Guest,
           NEW t \in Thread, NEW off \in SUBSET currentRunQueue[t], NEW on \in SUBSET Core,
           MoveOnRunQueues(t, off, on), on \intersect (currentRunQueue[t] \ off) = {},
           (currentRunQueue[t] \ off) \union on
               = ReadyCores(state[t], suspendCounter'[t], affinity'[t], {}),
           kernel' \in {Unlocked, Hold(c, "store")},
           suspendCounter' \in [Thread -> Nat], affinity' \in [Thread -> SUBSET Core],
           \A u \in Thread \ {t} : suspendCounter'[u] = suspendCounter[u] /\ affinity'[u] = affinity[u],
           UNCHANGED <<state, priority, detached, resumeAt, waitVars, active, coreVars, host>>
    PROVE  IInv'
<1>1. /\ host.phase \notin {"ended", "stopped"} /\ PendingOK /\ JoinsOK /\ c # None
      /\ RunTypes /\ RunListsOK /\ TypeOK /\ state[current[c]] = "RUNNING" /\ current[c] \in Thread
  BY CallFacts, CoreAssumption DEF IInv, RunTypes, RunListsOK, RunQueuesExact, TypeOK
<1>2. /\ RunTypes' /\ RunListsOK'
      /\ currentRunQueue' = [currentRunQueue EXCEPT ![t] = (@ \ off) \union on]
  <2>1. RunTypes /\ RunListsOK BY <1>1
  <2>2. MoveOnRunQueues(t, off, on) OBVIOUS
  <2>3. on \intersect (currentRunQueue[t] \ off) = {} OBVIOUS
  <2> QED BY <2>1, <2>2, <2>3, MoveOnRunQueuesProperties
<1>3. kernel' \in Kernels /\ kernel'.holder \in {None, c} /\ kernel'.wake = None
  BY LockValues
<1>4. TypeOK'
  BY <1>1, <1>2, <1>3 DEF TypeOK, RunTypes, waitVars, coreVars
<1>5. RunQueuesExact'
  <2>1. ASSUME NEW u \in Thread
        PROVE currentRunQueue'[u] = ReadyCores(state'[u], suspendCounter'[u], affinity'[u], {})
    <3>1. CASE u = t BY <1>1, <1>2, <3>1 DEF RunTypes
    <3>2. CASE u # t BY <1>1, <1>2, <3>2 DEF RunTypes, IInv, RunQueuesExact
    <3> QED BY <3>1, <3>2
  <2> QED BY <1>2, <2>1 DEF RunQueuesExact, RunListsOK
<1>6. OneCorePerThread'
  BY <1>1, <1>3, CoreAssumption DEF IInv, OneCorePerThread, Unlocked, coreVars
<1>7. KernelOK'
  <2>1. CASE kernel' = Unlocked
    BY <2>1 DEF KernelOK, Unlocked
  <2>2. CASE kernel' = Hold(c, "store")
    BY <1>1, <2>2 DEF KernelOK, Hold, Unlocked, coreVars
  <2> QED BY <2>1, <2>2
<1>8. WaitQueuesExact' /\ ActiveExact' /\ CoresJoined' /\ PendingOK'
  BY <1>1 DEF IInv, WaitQueuesExact, ActiveExact, CoresJoined, PendingOK, waitVars, coreVars
<1>9. JoinsOK'
  <2>1. \A u \in Thread : ~Exiting(u) BY DEF Exiting, Unlocked
  <2>2. \A j, u \in Thread : resumeAt[j] = Joining(u) => JoinOK(j, u)'
    BY <1>1, <2>1 DEF JoinsOK, JoinOK, Unlocked, waitVars
  <2>3. \A u \in Thread : kernel'.wake # JoinQueue(u)
    BY <1>3, ThreadAssumption DEF JoinQueue
  <2> QED BY <1>1, <2>2, <2>3 DEF JoinsOK, waitVars
<1> QED BY <1>1, <1>4, <1>5, <1>6, <1>7, <1>8, <1>9 DEF IInv

\* OSResumeThread: a thread joins the run queues exactly when the last suspension goes.
LEMMA ResumeInvariant ==
    ASSUME IInv, NEW c \in Core, NEW t \in Thread, OSResumeThread(c, t) PROVE IInv'
<1>1. PICK count \in {1, suspendCounter[t]} : __OSResumeThreadInternal(c, t, count)
  BY DEF OSResumeThread
<1>2. /\ core[c] = "guest" /\ kernel = Unlocked /\ resumeAt[current[c]] = Guest
      /\ UNCHANGED <<state, affinity, priority, detached, resumeAt, waitVars, active, coreVars, host>>
  BY <1>1 DEF OSResumeThread, Calls, __OSResumeThreadInternal
<1>3. /\ TypeOK /\ RunTypes /\ RunListsOK
      /\ currentRunQueue[t] = ReadyCores(state[t], suspendCounter[t], affinity[t], {})
  BY <1>2, CallFacts DEF IInv, RunTypes, RunListsOK, RunQueuesExact, TypeOK
<1>4. /\ suspendCounter[t] \in Nat \ {0} /\ suspendCounter[t] # 0
      /\ suspendCounter' = [suspendCounter EXCEPT ![t] = IF @ < count THEN 0 ELSE @ - count]
  BY <1>1, <1>3 DEF __OSResumeThreadInternal, TypeOK
<1>5. suspendCounter' \in [Thread -> Nat]
  BY <1>3, <1>4 DEF TypeOK
<1>6. \A u \in Thread \ {t} : suspendCounter'[u] = suspendCounter[u] /\ affinity'[u] = affinity[u]
  BY <1>2, <1>3, <1>4 DEF TypeOK
<1>7. currentRunQueue[t] = {}
  BY <1>3, <1>4 DEF ReadyCores
<1>8. CASE suspendCounter'[t] = 0
  <2> DEFINE on == ReadyCores(state'[t], suspendCounter'[t], affinity'[t], currentRunQueue[t])
  <2>1. MoveOnRunQueues(t, {}, on) /\ kernel' \in {Unlocked, Hold(c, "store")}
    BY <1>1, <1>8 DEF __OSResumeThreadInternal, __OSAddReadyThreadToRunQueue
  <2>2. on = ReadyCores(state[t], suspendCounter'[t], affinity'[t], {}) /\ on \in SUBSET Core
    BY <1>2, <1>3, <1>7 DEF ReadyCores, TypeOK
  <2>3. /\ {} \in SUBSET currentRunQueue[t] /\ on \intersect (currentRunQueue[t] \ {}) = {}
        /\ (currentRunQueue[t] \ {}) \union on = on
    BY <1>7
  <2>4. affinity' \in [Thread -> SUBSET Core] BY <1>2, <1>3 DEF TypeOK
  <2> HIDE DEF on
  <2> QED BY <1>2, <1>5, <1>6, <2>1, <2>2, <2>3, <2>4, RequeueInvariant
<1>9. CASE suspendCounter'[t] # 0
  <2>1. UNCHANGED runVars /\ kernel' = Unlocked
    BY <1>1, <1>9 DEF __OSResumeThreadInternal
  <2>2. MoveOnRunQueues(t, {}, {})
    BY <1>3, <2>1, NoMove
  <2>3. /\ {} \in SUBSET currentRunQueue[t] /\ {} \in SUBSET Core
        /\ {} \intersect (currentRunQueue[t] \ {}) = {}
    OBVIOUS
  <2>4. (currentRunQueue[t] \ {}) \union {} = ReadyCores(state[t], suspendCounter'[t], affinity'[t], {})
    BY <1>7, <1>9 DEF ReadyCores
  <2>5. affinity' \in [Thread -> SUBSET Core] BY <1>2, <1>3 DEF TypeOK
  <2> QED BY <1>2, <1>5, <1>6, <2>1, <2>2, <2>3, <2>4, <2>5, RequeueInvariant
<1> QED BY <1>8, <1>9

\* OSSuspendThread: a READY thread leaves the run queues with its first suspension.
LEMMA SuspendInvariant ==
    ASSUME IInv, NEW c \in Core, NEW t \in Thread, OSSuspendThread(c, t) PROVE IInv'
<1>1. /\ core[c] = "guest" /\ kernel = Unlocked /\ resumeAt[current[c]] = Guest
      /\ __OSSuspendThreadInternal(c, t)
      /\ UNCHANGED <<state, affinity, priority, detached, resumeAt, waitVars, active, coreVars, host>>
  BY DEF OSSuspendThread, Calls, __OSSuspendThreadInternal
<1>2. /\ TypeOK /\ RunTypes /\ RunListsOK /\ currentRunQueue[current[c]] = {}
      /\ currentRunQueue[t] = ReadyCores(state[t], suspendCounter[t], affinity[t], {})
  BY <1>1, CallFacts DEF IInv, RunTypes, RunListsOK, RunQueuesExact, TypeOK
<1>3. suspendCounter' = [suspendCounter EXCEPT ![t] = @ + 1] /\ suspendCounter[t] \in Nat
  BY <1>1, <1>2 DEF __OSSuspendThreadInternal, TypeOK
<1>4. /\ suspendCounter' \in [Thread -> Nat] /\ affinity' \in [Thread -> SUBSET Core]
      /\ \A u \in Thread \ {t} : suspendCounter'[u] = suspendCounter[u] /\ affinity'[u] = affinity[u]
      /\ suspendCounter'[t] # 0
  BY <1>1, <1>2, <1>3 DEF TypeOK
<1>5. ReadyCores(state[t], suspendCounter'[t], affinity'[t], {}) = {}
  BY <1>4 DEF ReadyCores
<1>6. kernel' \in {Unlocked, Hold(c, "store")}
  BY <1>1 DEF __OSSuspendThreadInternal
<1>7. /\ {} \in SUBSET Core /\ {} \in SUBSET currentRunQueue[t]
      /\ currentRunQueue[t] \in SUBSET currentRunQueue[t]
      /\ {} \intersect (currentRunQueue[t] \ currentRunQueue[t]) = {}
      /\ {} \intersect (currentRunQueue[t] \ {}) = {}
  OBVIOUS
<1>8. CASE t # current[c] /\ suspendCounter[t] = 0
  <2>1. MoveOnRunQueues(t, currentRunQueue[t], {})
    BY <1>1, <1>8 DEF __OSSuspendThreadInternal, __OSRemoveThreadFromRunQueues
  <2>2. (currentRunQueue[t] \ currentRunQueue[t]) \union {}
           = ReadyCores(state[t], suspendCounter'[t], affinity'[t], {})
    BY <1>5
  <2> QED BY <1>1, <1>4, <1>6, <1>7, <2>1, <2>2, RequeueInvariant
<1>9. CASE t = current[c] \/ suspendCounter[t] # 0
  <2>1. MoveOnRunQueues(t, {}, {})
    BY <1>1, <1>2, <1>9, NoMove DEF __OSSuspendThreadInternal
  <2>2. currentRunQueue[t] = {}
    BY <1>2, <1>9 DEF ReadyCores
  <2>3. (currentRunQueue[t] \ {}) \union {} = ReadyCores(state[t], suspendCounter'[t], affinity'[t], {})
    BY <1>5, <2>2
  <2> QED BY <1>1, <1>4, <1>6, <1>7, <2>1, <2>3, RequeueInvariant
<1> QED BY <1>8, <1>9

\* OSSetThreadAffinity: the links follow the new mask; a running thread has none.
LEMMA AffinityInvariant ==
    ASSUME IInv, NEW c \in Core, NEW t \in Thread, NEW mask \in Affinities,
           OSSetThreadAffinity(c, t, mask) PROVE IInv'
<1>1. /\ core[c] = "guest" /\ kernel = Unlocked /\ resumeAt[current[c]] = Guest
      /\ kernel' \in {Unlocked, Hold(c, "store")}
      /\ affinity' = [affinity EXCEPT ![t] = mask]
      /\ UNCHANGED <<state, suspendCounter, priority, detached, resumeAt, waitVars, active, coreVars, host>>
  BY DEF OSSetThreadAffinity, Calls
<1>2. /\ TypeOK /\ RunTypes /\ RunListsOK /\ mask \subseteq Core
      /\ currentRunQueue[t] = ReadyCores(state[t], suspendCounter[t], affinity[t], {})
  BY <1>1, CallFacts, GuestAssumption DEF IInv, RunTypes, RunListsOK, RunQueuesExact, TypeOK
<1>3. /\ suspendCounter' \in [Thread -> Nat] /\ affinity' \in [Thread -> SUBSET Core]
      /\ \A u \in Thread \ {t} : suspendCounter'[u] = suspendCounter[u] /\ affinity'[u] = affinity[u]
      /\ affinity'[t] = mask /\ suspendCounter'[t] = suspendCounter[t]
  BY <1>1, <1>2 DEF TypeOK
<1>4. CASE state[t] \in {"RUNNING", "NONE"} \/ mask = affinity[t]
  <2>1. MoveOnRunQueues(t, {}, {})
    BY <1>2, <1>4, NoMove DEF OSSetThreadAffinity
  <2>2. (currentRunQueue[t] \ {}) \union {} = ReadyCores(state[t], suspendCounter'[t], affinity'[t], {})
    BY <1>2, <1>3, <1>4 DEF ReadyCores
  <2>3. /\ {} \in SUBSET Core /\ {} \in SUBSET currentRunQueue[t]
        /\ {} \intersect (currentRunQueue[t] \ {}) = {}
    OBVIOUS
  <2> QED BY <1>1, <1>3, <2>1, <2>2, <2>3, RequeueInvariant
<1>5. CASE ~(state[t] \in {"RUNNING", "NONE"} \/ mask = affinity[t])
  <2> DEFINE on == ReadyCores(state[t], suspendCounter[t], mask, {})
  <2>1. MoveOnRunQueues(t, currentRunQueue[t], on)
    BY <1>5 DEF OSSetThreadAffinity
  <2>2. (currentRunQueue[t] \ currentRunQueue[t]) \union on
           = ReadyCores(state[t], suspendCounter'[t], affinity'[t], {})
    BY <1>3
  <2>3. /\ on \in SUBSET Core /\ currentRunQueue[t] \in SUBSET currentRunQueue[t]
        /\ on \intersect (currentRunQueue[t] \ currentRunQueue[t]) = {}
    BY <1>2 DEF ReadyCores
  <2> HIDE DEF on
  <2> QED BY <1>1, <1>3, <2>1, <2>2, <2>3, RequeueInvariant
<1> QED BY <1>4, <1>5
-----------------------------------------------------------------------------
\* The guest does not end or stop a thread that it joins or creates elsewhere
\* (MayEnd, RunsOn).
WellBehaved == "misuse" \notin Ops

\* OSRunThread starts a thread that is linked nowhere and that nobody joins.
LEMMA RunThreadInvariant ==
    ASSUME IInv, WellBehaved, NEW c \in Core, NEW t \in Thread, OSRunThread(c, t) PROVE IInv'
<1> DEFINE off == IF state[t] = "MORIBUND" THEN currentRunQueue[t] ELSE {}
           on  == affinity[t] \ (currentRunQueue[t] \ off)
<1>1. /\ core[c] = "guest" /\ kernel = Unlocked /\ resumeAt[current[c]] = Guest
      /\ state[t] \in {"NONE", "MORIBUND"} /\ \A j \in Thread : resumeAt[j].target # t
      /\ state' = [state EXCEPT ![t] = "READY"]
      /\ suspendCounter' = [suspendCounter EXCEPT ![t] = 0]
      /\ resumeAt' = [resumeAt EXCEPT ![t] = Guest]
      /\ active' = active \union {t}
      /\ MoveOnRunQueues(t, off, on)
      /\ UNCHANGED <<affinity, priority, detached, waitVars, coreVars, kernel, host>>
  BY DEF OSRunThread, Calls, MayEnd, WellBehaved
<1>2. /\ TypeOK /\ RunTypes /\ RunListsOK /\ PendingOK /\ JoinsOK
      /\ host.phase \notin {"ended", "stopped"}
      /\ currentRunQueue[t] = {} /\ currentWaitQueue[t] = None /\ resumeAt[t] = Guest
  BY <1>1, CallFacts DEF IInv, RunTypes, RunListsOK, RunQueuesExact, TypeOK, ReadyCores,
                         WaitQueuesExact, PendingOK
<1>3. off \in SUBSET currentRunQueue[t] /\ on \in SUBSET Core
      /\ on \intersect (currentRunQueue[t] \ off) = {}
      /\ (currentRunQueue[t] \ off) \union on = affinity[t]
  BY <1>2 DEF TypeOK
<1> HIDE DEF off, on
<1>4. /\ RunTypes' /\ RunListsOK'
      /\ currentRunQueue' = [currentRunQueue EXCEPT ![t] = (@ \ off) \union on]
  <2>1. RunTypes /\ RunListsOK BY <1>2
  <2> QED BY <1>1, <1>3, <2>1, MoveOnRunQueuesProperties
<1>5. \A d \in Core : core[d] = "guest" => state[current[d]] = "RUNNING" /\ current[d] # t
  BY <1>1, CoreAssumption DEF IInv, OneCorePerThread, Unlocked
<1>6. resumeAt' = resumeAt
  BY <1>1, <1>2 DEF TypeOK
<1>7. TypeOK'
  BY <1>1, <1>2, <1>4, <1>6 DEF TypeOK, RunTypes, States, waitVars, coreVars
<1>8. RunQueuesExact'
  BY <1>1, <1>2, <1>3, <1>4 DEF IInv, TypeOK, RunQueuesExact, ReadyCores, RunListsOK
<1>9. OneCorePerThread'
  BY <1>1, <1>2, <1>5 DEF IInv, TypeOK, OneCorePerThread, coreVars
<1>10. KernelOK'
  BY <1>1 DEF KernelOK, Unlocked
<1>11. WaitQueuesExact' /\ ActiveExact' /\ CoresJoined'
  BY <1>1, <1>2 DEF IInv, TypeOK, WaitQueuesExact, ActiveExact, CoresJoined, waitVars, coreVars
<1>12. PendingOK'
  BY <1>1, <1>2, <1>6 DEF TypeOK, PendingOK
<1>13. JoinsOK'
  <2>1. \A u \in Thread : ~Exiting(u) BY <1>1 DEF Exiting, Unlocked
  <2>2. ASSUME NEW j \in Thread, NEW u \in Thread, resumeAt[j] = Joining(u) PROVE JoinOK(j, u)'
    <3>1. JoinOK(j, u) BY <1>2, <2>2 DEF JoinsOK
    <3>2. u # t /\ j # t BY <1>1, <1>2, <2>2 DEF Joining, Guest
    <3>3. state'[j] = state[j] /\ state'[u] = state[u] BY <1>1, <1>2, <3>2 DEF TypeOK
    <3> QED BY <1>1, <2>1, <3>1, <3>3 DEF JoinOK, waitVars, coreVars
  <2> QED BY <1>1, <1>2, <1>6, <2>1, <2>2 DEF JoinsOK, Exiting, waitVars, coreVars
<1> QED BY <1>7, <1>8, <1>9, <1>10, <1>11, <1>12, <1>13 DEF IInv

\* The second half of OSCreateThread overwrites a structure that no list links.
LEMMA CreateThreadInvariant ==
    ASSUME IInv, NEW c \in Core, NEW mask \in Affinities, NEW p \in Priorities, NEW det \in BOOLEAN,
           CreateThread(c, mask, p, det)
    PROVE  IInv'
<1> DEFINE me == current[c]
           t  == resumeAt[me].target
<1>1. core[c] = "guest" /\ kernel = Unlocked /\ resumeAt[me].op = "create"
  BY DEF CreateThread
<1>2. /\ TypeOK /\ PendingOK /\ JoinsOK /\ host.phase \notin {"ended", "stopped"}
      /\ me \in Thread /\ state[me] = "RUNNING"
  BY <1>1, CallFacts DEF IInv
<1>3. t \in Thread /\ t \notin active
  BY <1>1, <1>2 DEF PendingOK, TypeOK, ResumePoints
<1>4. /\ state[t] = "NONE" /\ resumeAt[t] = Guest /\ currentRunQueue[t] = {}
      /\ currentWaitQueue[t] = None
  BY <1>2, <1>3 DEF IInv, ActiveExact, PendingOK, RunQueuesExact, ReadyCores, WaitQueuesExact
<1> HIDE DEF t, me
<1>5. /\ state' = [state EXCEPT ![t] = "READY"]
      /\ suspendCounter' = [suspendCounter EXCEPT ![t] = 1]
      /\ affinity' = [affinity EXCEPT ![t] = mask]
      /\ priority' = [priority EXCEPT ![t] = p]
      /\ detached' \in {detached \union {t}, detached \ {t}}
      /\ resumeAt' = [resumeAt EXCEPT ![me] = Guest, ![t] = Guest]
      /\ currentRunQueue' = [currentRunQueue EXCEPT ![t] = {}]
      /\ waitQueue' = [waitQueue EXCEPT ![JoinQueue(t)] = <<>>]
      /\ active' = active \union {t}
      /\ UNCHANGED <<runQueue, runQueueCount, currentWaitQueue, coreVars, kernel, host>>
  BY DEF CreateThread, t, me
<1>6. \A j \in Thread : currentWaitQueue[j] # JoinQueue(t)
  <2>1. SUFFICES ASSUME NEW j \in Thread, currentWaitQueue[j] = JoinQueue(t) PROVE FALSE
    OBVIOUS
  <2>2. resumeAt[j] = Joining(t) BY <1>2, <1>3, <2>1 DEF JoinsOK
  <2>3. JoinOK(j, t) BY <1>2, <1>3, <2>2 DEF JoinsOK
  <2> QED BY <1>3, <2>3 DEF JoinOK
<1>7. waitQueue[JoinQueue(t)] = <<>> /\ JoinQueue(t) \in WaitQueues
  <2>1. JoinQueue(t) \in WaitQueues BY <1>3 DEF WaitQueues
  <2>2. Threads(waitQueue[JoinQueue(t)]) = {} BY <1>2, <1>6, <2>1 DEF IInv, WaitQueuesExact
  <2>3. waitQueue[JoinQueue(t)] \in Seq(Thread) BY <1>2, <2>1 DEF TypeOK
  <2>4. waitQueue[JoinQueue(t)] = <<>> BY <2>2, <2>3, NoThreadsProperty
  <2> QED BY <2>1, <2>4
<1>8. currentRunQueue' = currentRunQueue /\ waitQueue' = waitQueue
  BY <1>2, <1>4, <1>5, <1>7 DEF TypeOK
<1>9. mask \in SUBSET Core BY GuestAssumption
<1>10. resumeAt' = [resumeAt EXCEPT ![me] = Guest]
  BY <1>2, <1>4, <1>5 DEF TypeOK
<1>11. \A d \in Core : core[d] = "guest" => state[current[d]] = "RUNNING" /\ current[d] # t
  BY <1>1, <1>4, CoreAssumption DEF IInv, OneCorePerThread, Unlocked
<1>12. TypeOK'
  <2>1. Guest \in ResumePoints BY DEF Guest, ResumePoints
  <2>2. resumeAt' \in [Thread -> ResumePoints] BY <1>2, <1>10, <2>1 DEF TypeOK
  <2>3. /\ state' \in [Thread -> States] /\ suspendCounter' \in [Thread -> Nat]
        /\ affinity' \in [Thread -> SUBSET Core] /\ priority' \in [Thread -> Priorities]
    BY <1>2, <1>5, <1>9 DEF TypeOK, States
  <2>4. active' \subseteq Thread /\ detached' \subseteq Thread BY <1>2, <1>3, <1>5 DEF TypeOK
  <2> QED BY <1>2, <1>5, <1>8, <2>2, <2>3, <2>4 DEF TypeOK, coreVars
<1>13. RunQueuesExact'
  <2>1. ASSUME NEW u \in Thread
        PROVE currentRunQueue'[u] = ReadyCores(state'[u], suspendCounter'[u], affinity'[u], {})
    <3>1. CASE u = t BY <1>2, <1>4, <1>5, <1>8, <3>1 DEF TypeOK, ReadyCores
    <3>2. CASE u # t BY <1>2, <1>5, <1>8, <3>2 DEF IInv, TypeOK, RunQueuesExact
    <3> QED BY <3>1, <3>2
  <2> QED BY <1>2, <1>5, <1>8, <2>1 DEF IInv, RunQueuesExact
<1>14. OneCorePerThread'
  BY <1>2, <1>3, <1>4, <1>5, <1>11 DEF IInv, TypeOK, OneCorePerThread, coreVars
<1>15. KernelOK'
  BY <1>1, <1>5 DEF KernelOK, Unlocked
<1>16. WaitQueuesExact' /\ ActiveExact' /\ CoresJoined'
  BY <1>2, <1>3, <1>4, <1>5, <1>8 DEF IInv, TypeOK, WaitQueuesExact, ActiveExact, CoresJoined, coreVars
<1>17. PendingOK'
  <2>1. \A j \in Thread : resumeAt'[j] = IF j = me THEN Guest ELSE resumeAt[j]
    BY <1>2, <1>10 DEF TypeOK
  <2>2. \A j \in Thread : j # me => resumeAt[j].target # t
    BY <1>1, <1>2 DEF PendingOK, Guest, t
  <2>3. \A j \in Thread : state'[j] = IF j = t THEN "READY" ELSE state[j]
    BY <1>2, <1>5 DEF TypeOK
  <2>4. \A j \in Thread : resumeAt[j] \in ResumePoints BY <1>2 DEF TypeOK
  <2>5. \A j \in Thread : resumeAt[j].target = None => resumeAt[j] = Guest
    BY <1>2, <2>4 DEF PendingOK, ResumePoints, Guest
  <2>6. ASSUME NEW j \in Thread, NEW k \in Thread,
               resumeAt'[j].target = resumeAt'[k].target, resumeAt'[j] # Guest
        PROVE  j = k
    <3>1. j # me /\ resumeAt[j].target # None BY <2>1, <2>5, <2>6
    <3>2. k # me BY <2>1, <2>6, <3>1 DEF Guest
    <3> QED BY <1>2, <2>1, <2>6, <3>1, <3>2 DEF PendingOK
  <2>7. ASSUME NEW j \in Thread
        PROVE  /\ (resumeAt'[j].op = "guest" <=> resumeAt'[j].target = None)
               /\ (state'[j] \in {"NONE", "MORIBUND"} => resumeAt'[j] = Guest)
               /\ (resumeAt'[j].op = "create" => resumeAt'[j].target \notin active')
    <3>1. CASE j = me
      <4>1. resumeAt'[j] = Guest BY <2>1, <3>1
      <4>2. Guest.op = "guest" /\ Guest.target = None BY DEF Guest
      <4> QED BY <4>1, <4>2
    <3>2. CASE j # me
      <4>1. resumeAt'[j] = resumeAt[j] /\ resumeAt[j].target # t BY <2>1, <2>2, <3>2
      <4>2. state'[j] \in {"NONE", "MORIBUND"} => state[j] \in {"NONE", "MORIBUND"}
        BY <2>3
      <4>3. active' = active \union {t} BY <1>5
      <4> QED BY <1>2, <4>1, <4>2, <4>3 DEF PendingOK
    <3> QED BY <3>1, <3>2
  <2> QED BY <2>6, <2>7 DEF PendingOK
<1>18. JoinsOK'
  <2>1. \A u \in Thread : ~Exiting(u) BY <1>1 DEF Exiting, Unlocked
  <2>2. \A j \in Thread : resumeAt'[j] = IF j = me THEN Guest ELSE resumeAt[j]
    BY <1>2, <1>10 DEF TypeOK
  <2>3. ASSUME NEW j \in Thread, NEW u \in Thread, resumeAt'[j] = Joining(u) PROVE JoinOK(j, u)'
    <3>1. j # me /\ resumeAt[j] = Joining(u) BY <2>2, <2>3 DEF Joining, Guest
    <3>2. JoinOK(j, u) BY <1>2, <3>1 DEF JoinsOK
    <3>3. u # t /\ j # t BY <1>3, <1>4, <3>1, <3>2 DEF JoinOK, Joining, Guest
    <3>4. state'[j] = state[j] /\ state'[u] = state[u] BY <1>2, <1>5, <3>3 DEF TypeOK
    <3> QED BY <1>5, <2>1, <3>2, <3>3, <3>4 DEF JoinOK, coreVars
  <2>4. ASSUME NEW j \in Thread, NEW u \in Thread, currentWaitQueue'[j] = JoinQueue(u)
        PROVE resumeAt'[j] = Joining(u)
    <3>1. resumeAt[j] = Joining(u) BY <1>2, <1>5, <2>4 DEF JoinsOK
    <3>2. j # me BY <1>1, <3>1 DEF Joining
    <3> QED BY <2>2, <3>1, <3>2
  <2>5. \A u \in Thread : kernel'.wake # JoinQueue(u)
    BY <1>1, <1>5, ThreadAssumption DEF JoinQueue, Unlocked
  <2> QED BY <2>3, <2>4, <2>5 DEF JoinsOK
<1> QED BY <1>12, <1>13, <1>14, <1>15, <1>16, <1>17, <1>18 DEF IInv
-----------------------------------------------------------------------------
\* A thread that has exited is reaped, by a join, by a detach or before its
\* structure is created again; nobody else joins or creates it.
LEMMA ReapInvariant ==
    ASSUME IInv, NEW c \in Core, core[c] = "guest", state[current[c]] = "RUNNING",
           kernel = Unlocked \/ (kernel.holder = c /\ kernel.after = "join"), kernel' = Unlocked,
           NEW t \in Thread, state[t] = "MORIBUND",
           state' = [state EXCEPT ![t] = "NONE"], active' = active \ {t},
           detached' \in {detached, detached \union {t}},
           RunTypes', RunListsOK', currentRunQueue' = currentRunQueue,
           NEW at \in {Guest, Creating(t)}, resumeAt' = [resumeAt EXCEPT ![current[c]] = at],
           \A j \in Thread \ {current[c]} : resumeAt[j].target # t,
           UNCHANGED <<suspendCounter, affinity, priority, waitVars, coreVars, host>>
    PROVE  IInv'
<1> DEFINE me == current[c]
<1>1. /\ TypeOK /\ host.phase \notin {"ended", "stopped"} /\ PendingOK /\ JoinsOK
      /\ me \in Thread /\ c # None /\ t # me
  BY CoreAssumption, ThreadAssumption DEF IInv, CoresJoined, TypeOK, OneCorePerThread
<1>2. /\ currentRunQueue[t] = {} /\ currentWaitQueue[t] = None /\ resumeAt[t] = Guest
      /\ currentWaitQueue[me] = None
  BY <1>1 DEF IInv, RunQueuesExact, ReadyCores, WaitQueuesExact, PendingOK
<1>3. \A d \in Core : core[d] = "guest" => /\ state[current[d]] = "RUNNING" /\ current[d] # t
                                           /\ current[d] \in Thread
  BY <1>1, CoreAssumption DEF IInv, TypeOK, OneCorePerThread, Unlocked
<1>4. \A j \in Thread : state'[j] = IF j = t THEN "NONE" ELSE state[j]
  BY <1>1 DEF TypeOK
<1>5. \A j \in Thread : resumeAt'[j] = IF j = me THEN at ELSE resumeAt[j]
  BY <1>1 DEF TypeOK
<1>6. TypeOK'
  <2>1. at \in ResumePoints BY DEF Guest, Creating, ResumePoints
  <2>2. resumeAt' \in [Thread -> ResumePoints] BY <1>1, <2>1 DEF TypeOK
  <2>3. state' \in [Thread -> States] BY <1>1 DEF TypeOK, States
  <2>4. active' \subseteq Thread /\ detached' \subseteq Thread BY <1>1 DEF TypeOK
  <2>5. kernel' \in Kernels BY LockValues
  <2> QED BY <1>1, <2>2, <2>3, <2>4, <2>5 DEF TypeOK, RunTypes, waitVars, coreVars
<1>7. RunQueuesExact'
  BY <1>1, <1>2, <1>4 DEF IInv, RunQueuesExact, ReadyCores, RunListsOK
<1>8. OneCorePerThread'
  BY <1>1, <1>3, <1>4 DEF IInv, OneCorePerThread, coreVars
<1>9. KernelOK'
  BY DEF KernelOK, Unlocked
<1>10. WaitQueuesExact' /\ ActiveExact' /\ CoresJoined'
  BY <1>1, <1>2, <1>4 DEF IInv, TypeOK, WaitQueuesExact, ActiveExact, CoresJoined, waitVars, coreVars
<1>11. PendingOK'
  <2>1. \A j \in Thread : resumeAt[j].target = None => resumeAt[j] = Guest
    BY <1>1 DEF TypeOK, PendingOK, ResumePoints, Guest
  <2>2. /\ at.op \in {"guest", "create"} /\ at.target \in {None, t} /\ t # None
        /\ (at.op = "guest" <=> at.target = None)
        /\ (at.target = None => at = Guest)
    BY ThreadAssumption DEF Guest, Creating
  <2>3. ASSUME NEW j \in Thread, NEW k \in Thread,
               resumeAt'[j].target = resumeAt'[k].target, resumeAt'[j] # Guest
        PROVE  j = k
    <3>1. CASE j = me /\ k # me
      <4>1. at = resumeAt'[j] /\ at # Guest /\ resumeAt[k].target = t BY <1>5, <2>2, <2>3, <3>1
      <4> QED BY <3>1, <4>1
    <3>2. CASE j # me /\ k = me
      <4>1. resumeAt[j].target = at.target /\ resumeAt[j] # Guest BY <1>5, <2>3, <3>2
      <4>2. resumeAt[j].target # None BY <2>1, <4>1
      <4> QED BY <2>2, <3>2, <4>1, <4>2
    <3>3. CASE j # me /\ k # me
      BY <1>1, <1>5, <2>3, <3>3 DEF PendingOK
    <3> QED BY <3>1, <3>2, <3>3
  <2>4. ASSUME NEW j \in Thread
        PROVE  /\ (resumeAt'[j].op = "guest" <=> resumeAt'[j].target = None)
               /\ (state'[j] \in {"NONE", "MORIBUND"} => resumeAt'[j] = Guest)
               /\ (resumeAt'[j].op = "create" => resumeAt'[j].target \notin active')
    <3>1. CASE j = me
      <4>1. resumeAt'[j] = at /\ state'[j] = "RUNNING" BY <1>1, <1>4, <1>5, <3>1
      <4>2. at.op = "create" => at.target = t BY DEF Guest, Creating
      <4> QED BY <2>2, <4>1, <4>2
    <3>2. CASE j # me
      <4>1. resumeAt'[j] = resumeAt[j] BY <1>5, <3>2
      <4>2. state'[j] \in {"NONE", "MORIBUND"} => state[j] \in {"NONE", "MORIBUND"} BY <1>4
      <4> QED BY <1>1, <4>1, <4>2 DEF PendingOK
    <3> QED BY <3>1, <3>2
  <2> QED BY <2>3, <2>4 DEF PendingOK
<1>12. JoinsOK'
  <2>1. \A u \in Thread : ~Exiting(u) BY DEF Exiting, Unlocked
  <2>2. ASSUME NEW j \in Thread, NEW u \in Thread, resumeAt'[j] = Joining(u) PROVE JoinOK(j, u)'
    <3>1. j # me /\ resumeAt[j] = Joining(u) BY <1>5, <2>2 DEF Joining, Guest, Creating
    <3>2. JoinOK(j, u) BY <1>1, <3>1 DEF JoinsOK
    <3>3. u # t BY <3>1 DEF Joining
    <3>4. j # t BY <1>2, <3>1 DEF Joining, Guest
    <3>5. state[j] # "RUNNING" BY <3>1, <3>2 DEF JoinOK, Unlocked
    <3>6. state'[j] = state[j] /\ state'[u] = state[u] BY <1>4, <3>3, <3>4
    <3> QED BY <2>1, <3>2, <3>3, <3>5, <3>6 DEF JoinOK, waitVars
  <2>3. ASSUME NEW j \in Thread, NEW u \in Thread, currentWaitQueue'[j] = JoinQueue(u)
        PROVE resumeAt'[j] = Joining(u)
    <3>1. currentWaitQueue[j] = JoinQueue(u) BY <2>3 DEF waitVars
    <3>2. j # me BY <1>2, <3>1, ThreadAssumption DEF JoinQueue
    <3> QED BY <1>1, <1>5, <3>1, <3>2 DEF JoinsOK
  <2>4. \A u \in Thread : kernel'.wake # JoinQueue(u)
    BY LockValues, ThreadAssumption DEF JoinQueue
  <2> QED BY <2>2, <2>3, <2>4 DEF JoinsOK
<1> QED BY <1>6, <1>7, <1>8, <1>9, <1>10, <1>11, <1>12 DEF IInv

\* Nobody waits for the exit of a thread that nobody joins.
LEMMA NoJoiners ==
    ASSUME IInv, host.phase # "stopped", NEW t \in Thread,
           \A j \in Thread : resumeAt[j] # Joining(t)
    PROVE  waitQueue[JoinQueue(t)] = <<>>
<1>1. JoinQueue(t) \in WaitQueues BY DEF WaitQueues
<1>2. \A j \in Thread : currentWaitQueue[j] # JoinQueue(t)
  <2>1. SUFFICES ASSUME NEW j \in Thread, currentWaitQueue[j] = JoinQueue(t) PROVE FALSE
    OBVIOUS
  <2>2. resumeAt[j] = Joining(t) BY <2>1 DEF IInv, JoinsOK
  <2> QED BY <2>2
<1>3. Threads(waitQueue[JoinQueue(t)]) = {} BY <1>1, <1>2 DEF IInv, WaitQueuesExact
<1>4. waitQueue[JoinQueue(t)] \in Seq(Thread) BY <1>1 DEF IInv, TypeOK
<1> QED BY <1>3, <1>4, NoThreadsProperty

\* OSDetachThread on a thread that has exited, with the caller's new resume
\* point, also on the way to creating it again.
LEMMA DetachMoribundInvariant ==
    ASSUME IInv, NEW c \in Core, core[c] = "guest", kernel = Unlocked,
           NEW t \in Thread, state[t] = "MORIBUND", resumeAt[current[c]].op # "join",
           \A j \in Thread \ {current[c]} : resumeAt[j].target # t,
           DetachLocked(c, t),
           NEW at \in {Guest, Creating(t)}, resumeAt' = [resumeAt EXCEPT ![current[c]] = at]
    PROVE  IInv'
<1>1. host.phase \notin {"ended", "stopped"} /\ RunTypes /\ RunListsOK /\ state[current[c]] = "RUNNING"
  BY CallFacts DEF IInv, TypeOK, RunTypes, RunListsOK, RunQueuesExact
<1>2. waitQueue[JoinQueue(t)] = <<>>
  <2>1. \A j \in Thread : resumeAt[j] # Joining(t) BY DEF Joining
  <2> QED BY <1>1, <2>1, NoJoiners
<1>3. /\ state' = [state EXCEPT ![t] = "NONE"] /\ active' = active \ {t}
      /\ detached' = detached \union {t} /\ kernel' = Unlocked
      /\ UNCHANGED <<suspendCounter, affinity, priority, runVars, waitVars, coreVars, host>>
  BY <1>2 DEF DetachLocked
<1>4. RunTypes' /\ RunListsOK' /\ currentRunQueue' = currentRunQueue
  BY <1>1, <1>3 DEF RunTypes, RunListsOK, runVars
<1> QED BY <1>1, <1>3, <1>4, ReapInvariant

\* OSDetachThread: a thread that has exited is reaped, another one gives up its joiner.
LEMMA DetachInvariant ==
    ASSUME IInv, WellBehaved, NEW c \in Core, NEW t \in Thread, OSDetachThread(c, t) PROVE IInv'
<1>1. /\ core[c] = "guest" /\ kernel = Unlocked /\ resumeAt[current[c]] = Guest
      /\ t \in active /\ \A j \in Thread : resumeAt[j].target # t
      /\ DetachLocked(c, t) /\ resumeAt' = resumeAt
  BY DEF OSDetachThread, Calls, MayEnd, WellBehaved
<1>2. /\ TypeOK /\ host.phase \notin {"ended", "stopped"} /\ PendingOK /\ JoinsOK
      /\ current[c] \in Thread
  BY <1>1, CallFacts DEF IInv
<1>3. CASE state[t] = "MORIBUND"
  <2>1. resumeAt' = [resumeAt EXCEPT ![current[c]] = Guest] BY <1>1, <1>2 DEF TypeOK
  <2>2. resumeAt[current[c]].op # "join" BY <1>1 DEF Guest
  <2> QED BY <1>1, <1>3, <2>1, <2>2, DetachMoribundInvariant
<1>4. CASE state[t] # "MORIBUND"
  <2>1. /\ detached' = detached \union {t}
        /\ UNCHANGED <<state, active, kernel, suspendCounter, affinity, priority, runVars, waitVars, coreVars, host>>
    BY <1>1, <1>4 DEF DetachLocked
  <2>2. TypeOK' BY <1>1, <1>2, <2>1 DEF TypeOK, runVars, waitVars, coreVars
  <2>3. /\ RunQueuesExact' /\ OneCorePerThread' /\ KernelOK' /\ WaitQueuesExact'
        /\ ActiveExact' /\ CoresJoined' /\ PendingOK'
    BY <1>1, <1>2, <2>1 DEF IInv, RunQueuesExact, OneCorePerThread, KernelOK, WaitQueuesExact,
       ActiveExact, CoresJoined, PendingOK, runVars, waitVars, coreVars
  <2>4. ASSUME NEW j \in Thread, NEW u \in Thread, resumeAt[j] = Joining(u) PROVE JoinOK(j, u)'
    <3>1. JoinOK(j, u) /\ u # t BY <1>1, <1>2, <2>4 DEF JoinsOK, Joining
    <3> QED BY <2>1, <3>1 DEF JoinOK, Exiting, waitVars, coreVars
  <2>5. JoinsOK' BY <1>1, <1>2, <2>1, <2>4 DEF JoinsOK, Exiting, waitVars, coreVars
  <2> QED BY <2>2, <2>3, <2>5 DEF IInv
<1> QED BY <1>3, <1>4

\* One round of the poll for a target that can run, has exited or is gone: it
\* sleeps on, or leaves a target that is gone.
LEMMA CreatePollInvariant ==
    ASSUME IInv, NEW c \in Core, NEW t \in Thread, core[c] = "guest", kernel = Unlocked,
           resumeAt[current[c]].op # "join",
           \A j \in Thread \ {current[c]} : resumeAt[j].target # t,
           t \in active => (suspendCounter[t] = 0 /\ state[t] # "WAITING") \/ state[t] = "MORIBUND",
           CreatePoll(c, t)
    PROVE  IInv'
<1> DEFINE me == current[c]
<1>1. /\ TypeOK /\ host.phase \notin {"ended", "stopped"} /\ PendingOK /\ JoinsOK
      /\ me \in Thread /\ state[me] = "RUNNING"
      /\ (t \in active => state[t] \in {"READY", "RUNNING", "WAITING", "MORIBUND"})
  BY CallFacts DEF IInv, TypeOK, ActiveExact, States
<1>2. CASE t \in active /\ state[t] # "MORIBUND"
  <2>1. t \in active /\ state[t] \in {"READY", "RUNNING"} /\ suspendCounter[t] = 0
    BY <1>1, <1>2
  <2>2. /\ QueueAndWait(c, TimerQueue(me)) /\ resumeAt' = [resumeAt EXCEPT ![me] = Polling(t)]
        /\ UNCHANGED <<suspendCounter, affinity, priority, detached, runVars, active, coreVars, host>>
    BY <2>1 DEF CreatePoll
  <2>3. \A j \in Thread \ {me} : resumeAt[j].target # Polling(t).target BY DEF Polling
  <2> HIDE DEF me
  <2> QED BY <2>2, <2>3, SleepInvariant DEF me
<1>3. ASSUME t \notin active \/ state[t] = "MORIBUND"
      PROVE  /\ resumeAt' = [resumeAt EXCEPT ![me] = Creating(t)]
             /\ IF t \in active THEN DetachLocked(c, t)
                ELSE UNCHANGED <<state, suspendCounter, affinity, priority, detached,
                                 runVars, waitVars, active, coreVars, kernel, host>>
  BY <1>3 DEF CreatePoll
<1>4. CASE t \in active /\ state[t] = "MORIBUND"
  BY <1>3, <1>4, DetachMoribundInvariant
<1>5. CASE t \notin active
  <2>1. UNCHANGED <<state, suspendCounter, affinity, priority, detached,
                    runVars, waitVars, active, coreVars, kernel, host>>
    BY <1>3, <1>5
  <2>2. \A j \in Thread : resumeAt'[j] = IF j = me THEN Creating(t) ELSE resumeAt[j]
    BY <1>1, <1>3, <1>5 DEF TypeOK
  <2>3. TypeOK'
    <3>1. resumeAt' = [resumeAt EXCEPT ![me] = Creating(t)] BY <1>3, <1>5
    <3>2. resumeAt' \in [Thread -> ResumePoints] BY <1>1, <3>1 DEF TypeOK, ResumePoints, Creating
    <3> QED BY <1>1, <2>1, <3>2 DEF TypeOK, runVars, waitVars, coreVars
  <2>4. RunQueuesExact' /\ OneCorePerThread' /\ WaitQueuesExact' /\ ActiveExact' /\ CoresJoined'
    BY <2>1 DEF IInv, RunQueuesExact, OneCorePerThread, WaitQueuesExact,
       ActiveExact, CoresJoined, runVars, waitVars, coreVars
  <2>5. KernelOK' BY <2>1 DEF KernelOK, Unlocked
  <2>6. PendingOK'
    <3>1. \A j \in Thread : resumeAt[j].target = None => resumeAt[j] = Guest
      BY <1>1 DEF TypeOK, PendingOK, ResumePoints, Guest
    <3>2. Creating(t).op = "create" /\ Creating(t).target = t /\ t # None
      BY ThreadAssumption DEF Creating
    <3>3. ASSUME NEW j \in Thread, NEW k \in Thread,
                 resumeAt'[j].target = resumeAt'[k].target, resumeAt'[j] # Guest
          PROVE  j = k
      <4>1. CASE j = me BY <2>2, <3>2, <3>3, <4>1
      <4>2. CASE j # me BY <1>1, <2>2, <3>2, <3>3, <4>2 DEF PendingOK
      <4> QED BY <4>1, <4>2
    <3>4. ASSUME NEW j \in Thread
          PROVE  /\ (resumeAt'[j].op = "guest" <=> resumeAt'[j].target = None)
                 /\ (state'[j] \in {"NONE", "MORIBUND"} => resumeAt'[j] = Guest)
                 /\ (resumeAt'[j].op = "create" => resumeAt'[j].target \notin active')
      <4>1. CASE j = me
        <5>1. resumeAt'[j] = Creating(t) /\ state'[j] = "RUNNING" BY <1>1, <2>1, <2>2, <4>1
        <5> QED BY <1>5, <2>1, <3>2, <5>1
      <4>2. CASE j # me
        <5>1. resumeAt'[j] = resumeAt[j] BY <2>2, <4>2
        <5> QED BY <1>1, <2>1, <5>1 DEF PendingOK
      <4> QED BY <4>1, <4>2
    <3> QED BY <3>3, <3>4 DEF PendingOK
  <2>7. JoinsOK'
    <3>1. ASSUME NEW j \in Thread, NEW u \in Thread, resumeAt'[j] = Joining(u) PROVE JoinOK(j, u)'
      <4>1. resumeAt[j] = Joining(u) BY <2>2, <3>1 DEF Joining, Creating
      <4> QED BY <1>1, <2>1, <4>1 DEF JoinsOK, JoinOK, Exiting, waitVars, coreVars
    <3>2. ASSUME NEW j \in Thread, NEW u \in Thread, currentWaitQueue'[j] = JoinQueue(u)
          PROVE resumeAt'[j] = Joining(u)
      <4>1. resumeAt[j] = Joining(u) BY <1>1, <2>1, <3>2 DEF JoinsOK, waitVars
      <4>2. j # me BY <4>1 DEF Joining
      <4> QED BY <2>2, <4>1, <4>2
    <3>3. \A u \in Thread : kernel'.wake = JoinQueue(u) => Exiting(u)'
      BY <1>1, <2>1 DEF JoinsOK, Exiting, coreVars
    <3> QED BY <3>1, <3>2, <3>3 DEF JoinsOK
  <2> QED BY <2>3, <2>4, <2>5, <2>6, <2>7 DEF IInv
<1> QED BY <1>2, <1>4, <1>5

\* OSCreateThread polls for the first time.
LEMMA CreateInvariant ==
    ASSUME IInv, WellBehaved, NEW c \in Core, NEW t \in Thread, OSCreateThread(c, t) PROVE IInv'
<1>1. /\ core[c] = "guest" /\ kernel = Unlocked /\ resumeAt[current[c]] = Guest
      /\ \A j \in Thread : resumeAt[j].target # t
      /\ (t \in active => (suspendCounter[t] = 0 /\ state[t] # "WAITING") \/ state[t] = "MORIBUND")
      /\ CreatePoll(c, t)
  BY DEF OSCreateThread, Calls, MayEnd, WellBehaved
<1>2. resumeAt[current[c]].op # "join" BY <1>1 DEF Guest
<1> QED BY <1>1, <1>2, CreatePollInvariant

\* It polls again for a thread that could not be stopped in the meantime.
LEMMA PollAgainInvariant ==
    ASSUME IInv, PollsOK, NEW c \in Core, PollAgain(c) PROVE IInv'
<1> DEFINE me == current[c]
           t  == resumeAt[me].target
<1>1. core[c] = "guest" /\ kernel = Unlocked /\ resumeAt[me].op = "poll" /\ CreatePoll(c, t)
  BY DEF PollAgain
<1>2. me \in Thread /\ PendingOK /\ resumeAt[me] \in ResumePoints
  BY <1>1, CallFacts DEF IInv, TypeOK
<1>3. t \in Thread
  BY <1>1, <1>2 DEF PendingOK, ResumePoints
<1>4. t \in active => suspendCounter[t] = 0 /\ state[t] # "WAITING"
  BY <1>1, <1>2 DEF PollsOK
<1>5. \A j \in Thread \ {me} : resumeAt[j].target # t
  <2>1. resumeAt[me] # Guest BY <1>1 DEF Guest
  <2> QED BY <1>2, <2>1 DEF PendingOK
<1> HIDE DEF me, t
<1> QED BY <1>1, <1>3, <1>4, <1>5, CreatePollInvariant DEF me

\* OSJoinThread: the joiner waits for an exit to come, or reaps the target at once.
LEMMA JoinInvariant ==
    ASSUME IInv, WellBehaved, NEW c \in Core, NEW t \in Thread, OSJoinThread(c, t) PROVE IInv'
<1> DEFINE me == current[c]
<1>1. /\ core[c] = "guest" /\ kernel = Unlocked /\ resumeAt[me] = Guest
      /\ t \in active /\ t # me
      /\ \A j \in Thread : resumeAt[j] # Joining(t) /\ resumeAt[j] # Polling(t)
  BY DEF OSJoinThread, Calls, BeingJoined, RunsOn, WellBehaved
<1>2. /\ TypeOK /\ host.phase \notin {"ended", "stopped"} /\ PendingOK /\ JoinsOK
      /\ RunTypes /\ RunListsOK
      /\ me \in Thread /\ state[me] = "RUNNING" /\ c # None /\ me \in active
  BY <1>1, CallFacts, CoreAssumption DEF IInv, TypeOK, RunTypes, RunListsOK, RunQueuesExact
<1>3. \A j \in Thread : resumeAt[j].target # t
  <2>1. SUFFICES ASSUME NEW j \in Thread, resumeAt[j].target = t PROVE FALSE
    OBVIOUS
  <2>2. resumeAt[j] \in ResumePoints /\ t # None BY <1>2, ThreadAssumption DEF TypeOK
  <2>3. resumeAt[j].op \in {"join", "poll"} BY <1>1, <1>2, <2>1, <2>2 DEF PendingOK, ResumePoints
  <2>4. resumeAt[j] \in {Joining(t), Polling(t)} BY <2>1, <2>2, <2>3 DEF ResumePoints, Joining, Polling
  <2> QED BY <1>1, <2>4
<1>4. CASE state[t] = "MORIBUND"
  <2>1. /\ EndTarget(t)
        /\ UNCHANGED <<suspendCounter, affinity, priority, detached, resumeAt,
                       waitVars, coreVars, kernel, host>>
    BY <1>4 DEF OSJoinThread
  <2>2. currentRunQueue[t] = {} BY <1>2, <1>4 DEF IInv, RunQueuesExact, ReadyCores
  <2>3. /\ MoveOnRunQueues(t, {}, {}) /\ {} \in SUBSET Core /\ {} \in SUBSET currentRunQueue[t]
        /\ {} \intersect (currentRunQueue[t] \ {}) = {}
    BY <2>1, <2>2 DEF EndTarget, __OSRemoveThreadFromRunQueues
  <2>4. /\ RunTypes' /\ RunListsOK'
        /\ currentRunQueue' = [currentRunQueue EXCEPT ![t] = (@ \ {}) \union {}]
    <3>1. RunTypes /\ RunListsOK BY <1>2
    <3> QED BY <2>3, <3>1, MoveOnRunQueuesProperties
  <2>5. currentRunQueue' = currentRunQueue BY <1>2, <2>4 DEF RunTypes
  <2>6. resumeAt' = [resumeAt EXCEPT ![me] = Guest] BY <1>1, <1>2, <2>1 DEF TypeOK
  <2>7. state' = [state EXCEPT ![t] = "NONE"] /\ active' = active \ {t} BY <2>1 DEF EndTarget
  <2>8. /\ kernel' = Unlocked /\ detached' \in {detached, detached \union {t}}
        /\ Guest \in {Guest, Creating(t)}
        /\ UNCHANGED <<suspendCounter, affinity, priority, waitVars, coreVars, host>>
    BY <1>1, <2>1
  <2> QED BY <1>1, <1>2, <1>3, <1>4, <2>4, <2>5, <2>6, <2>7, <2>8, ReapInvariant
<1>5. CASE state[t] # "MORIBUND" /\ t \in detached
  <2>1. UNCHANGED vars BY <1>5 DEF OSJoinThread
  <2> QED BY <2>1, StutterInvariant
<1>6. CASE state[t] # "MORIBUND" /\ t \notin detached
  <2>1. /\ QueueAndWait(c, JoinQueue(t))
        /\ resumeAt' = [resumeAt EXCEPT ![me] = Joining(t)]
        /\ UNCHANGED <<suspendCounter, affinity, priority, detached,
                       runVars, active, coreVars, host>>
    BY <1>6 DEF OSJoinThread
  <2>2. JoinQueue(t) \in WaitQueues /\ JoinQueue(t) # None
    BY ThreadAssumption DEF WaitQueues, JoinQueue
  <2>3. /\ state' = [state EXCEPT ![me] = "WAITING"]
        /\ currentWaitQueue' = [currentWaitQueue EXCEPT ![me] = JoinQueue(t)]
        /\ waitQueue' \in [WaitQueues -> Seq(Thread)]
        /\ WaitQueuesExact' /\ kernel' = Hold(c, "store")
    BY <1>1, <2>1, <2>2, QueueAndWaitProperties DEF QueueAndWait
  <2>4. /\ \A j \in Thread : state'[j] = IF j = me THEN "WAITING" ELSE state[j]
        /\ \A j \in Thread : currentWaitQueue'[j] = IF j = me THEN JoinQueue(t) ELSE currentWaitQueue[j]
        /\ \A j \in Thread : resumeAt'[j] = IF j = me THEN Joining(t) ELSE resumeAt[j]
    BY <1>2, <2>1, <2>3 DEF TypeOK
  <2>5. TypeOK'
    <3>1. state' \in [Thread -> States] BY <1>2, <2>3 DEF TypeOK, States
    <3>2. resumeAt' \in [Thread -> ResumePoints] BY <1>2, <2>1 DEF TypeOK, ResumePoints, Joining
    <3>3. currentWaitQueue' \in [Thread -> WaitQueues \union {None}] BY <1>2, <2>2, <2>3 DEF TypeOK
    <3>4. kernel' \in Kernels BY <2>3, LockValues
    <3> QED BY <1>2, <2>1, <2>3, <3>1, <3>2, <3>3, <3>4 DEF TypeOK, runVars, coreVars
  <2>6. RunQueuesExact'
    BY <1>2, <2>1, <2>4 DEF IInv, RunQueuesExact, ReadyCores, runVars
  <2>7. OneCorePerThread'
    <3>1. \A d \in Core : core[d] = "guest" /\ d # c => state[current[d]] = "RUNNING" /\ current[d] # me
                                                        /\ current[d] \in Thread
      BY <1>1, <1>2, CoreAssumption DEF IInv, TypeOK, OneCorePerThread, Unlocked
    <3>2. UNCHANGED <<current, core>> /\ kernel'.holder = c
      BY <2>1, <2>3, LockValues DEF coreVars
    <3> QED BY <1>1, <1>2, <2>4, <3>1, <3>2 DEF IInv, OneCorePerThread
  <2>8. KernelOK'
    BY <1>1, <1>2, <2>1, <2>3, <2>4 DEF KernelOK, Hold, Unlocked, coreVars
  <2>9. ActiveExact' /\ CoresJoined'
    BY <1>2, <2>1, <2>4 DEF IInv, ActiveExact, CoresJoined, coreVars
  <2>10. PendingOK'
    <3>1. \A j \in Thread : resumeAt[j].target = None => resumeAt[j] = Guest
      BY <1>2 DEF TypeOK, PendingOK, ResumePoints, Guest
    <3>2. Joining(t).op = "join" /\ Joining(t).target = t /\ t # None
      BY ThreadAssumption DEF Joining
    <3>3. ASSUME NEW j \in Thread, NEW k \in Thread,
                 resumeAt'[j].target = resumeAt'[k].target, resumeAt'[j] # Guest
          PROVE  j = k
      <4>1. CASE j = me BY <1>3, <2>4, <3>2, <3>3, <4>1
      <4>2. CASE j # me BY <1>2, <1>3, <2>4, <3>2, <3>3, <4>2 DEF PendingOK
      <4> QED BY <4>1, <4>2
    <3>4. ASSUME NEW j \in Thread
          PROVE  /\ (resumeAt'[j].op = "guest" <=> resumeAt'[j].target = None)
                 /\ (state'[j] \in {"NONE", "MORIBUND"} => resumeAt'[j] = Guest)
                 /\ (resumeAt'[j].op = "create" => resumeAt'[j].target \notin active')
      <4>1. CASE j = me
        <5>1. resumeAt'[j] = Joining(t) /\ state'[j] = "WAITING" BY <2>4, <4>1
        <5> QED BY <3>2, <5>1
      <4>2. CASE j # me
        <5>1. resumeAt'[j] = resumeAt[j] /\ state'[j] = state[j] BY <2>4, <4>2
        <5> QED BY <1>2, <2>1, <5>1 DEF PendingOK
      <4> QED BY <4>1, <4>2
    <3> QED BY <3>3, <3>4 DEF PendingOK
  <2>11. JoinsOK'
    <3>1. \A u \in Thread : ~Exiting(u) BY <1>1 DEF Exiting, Unlocked
    <3>2. ASSUME NEW j \in Thread, NEW u \in Thread, resumeAt'[j] = Joining(u) PROVE JoinOK(j, u)'
      <4>1. CASE j = me
        <5>1. u = t BY <2>4, <3>2, <4>1 DEF Joining
        <5> QED BY <1>1, <1>6, <2>1, <2>4, <4>1, <5>1 DEF JoinOK
      <4>2. CASE j # me
        <5>1. JoinOK(j, u) BY <1>2, <2>4, <3>2, <4>2 DEF JoinsOK
        <5>2. state[j] # "RUNNING" BY <1>1, <5>1 DEF JoinOK, Unlocked
        <5> QED BY <1>2, <2>1, <2>4, <3>1, <4>2, <5>1, <5>2 DEF JoinOK
      <4> QED BY <4>1, <4>2
    <3>3. ASSUME NEW j \in Thread, NEW u \in Thread, currentWaitQueue'[j] = JoinQueue(u)
          PROVE resumeAt'[j] = Joining(u)
      <4>1. CASE j = me BY <2>4, <3>3, <4>1 DEF JoinQueue
      <4>2. CASE j # me BY <1>2, <2>4, <3>3, <4>2 DEF JoinsOK
      <4> QED BY <4>1, <4>2
    <3>4. kernel'.wake = None BY <2>3, LockValues
    <3>5. \A u \in Thread : kernel'.wake # JoinQueue(u)
      BY <3>4, ThreadAssumption DEF JoinQueue
    <3> QED BY <3>2, <3>3, <3>5 DEF JoinsOK
  <2> QED BY <2>3, <2>5, <2>6, <2>7, <2>8, <2>9, <2>10, <2>11 DEF IInv
<1> QED BY <1>4, <1>5, <1>6
-----------------------------------------------------------------------------
\* The holder of the lock takes the head of the queue that it empties.
LEMMA WakeOneInvariant ==
    ASSUME IInv, WakeNext, waitQueue[kernel.wake] # <<>> PROVE IInv'
<1> DEFINE w == kernel.wake
           h == kernel.holder
           t == Head(waitQueue[w])
<1>1. /\ TypeOK /\ KernelOK /\ w # None /\ h # None /\ h \in Core /\ w \in WaitQueues
      /\ kernel.after # "store" /\ kernel.after # "join" /\ kernel.after # "pick"
      /\ core[h] \notin {"leaving", "exited"}
  BY DEF IInv, TypeOK, KernelOK, WakeNext, Kernels, Unlocked
<1>2. /\ host.phase \notin {"ended", "stopped"} /\ PendingOK /\ JoinsOK /\ RunTypes /\ RunListsOK
  BY <1>1 DEF IInv, CoresJoined, TypeOK, RunTypes, RunListsOK, RunQueuesExact
<1>3. /\ t \in Threads(waitQueue[w]) /\ Tail(waitQueue[w]) \in Seq(Thread)
      /\ Threads(Tail(waitQueue[w])) = Threads(waitQueue[w]) \ {t}
      /\ NoDuplicates(Tail(waitQueue[w]))
  <2>1. waitQueue[w] \in Seq(Thread) /\ NoDuplicates(waitQueue[w])
    BY <1>1, <1>2 DEF IInv, TypeOK, WaitQueuesExact
  <2> QED BY <2>1, TakeFirstProperties
<1>4. t \in Thread /\ currentWaitQueue[t] = w /\ state[t] = "WAITING" /\ currentRunQueue[t] = {}
  BY <1>1, <1>2, <1>3 DEF IInv, WaitQueuesExact, RunQueuesExact, ReadyCores
<1> DEFINE on == ReadyCores(state'[t], suspendCounter'[t], affinity'[t], currentRunQueue[t])
<1>5. /\ waitQueue' = [waitQueue EXCEPT ![w] = Tail(waitQueue[w])]
      /\ state' = [state EXCEPT ![t] = "READY"]
      /\ currentWaitQueue' = [currentWaitQueue EXCEPT ![t] = None]
      /\ MoveOnRunQueues(t, {}, on)
      /\ UNCHANGED <<suspendCounter, affinity, priority, detached, resumeAt, active, coreVars, host>>
  BY DEF WakeNext, __OSAddReadyThreadToRunQueue
<1>6. PICK should \in BOOLEAN : /\ kernel' = [kernel EXCEPT !.should = should]
                                /\ ~kernel.resched => should = kernel.should
  <2> DEFINE switch == /\ kernel.resched /\ suspendCounter[t] = 0
                       /\ __OSCoreShouldSwitchToThread(kernel.holder, t, priority)
  <2>1. kernel' = [kernel EXCEPT !.should = kernel.should \/ switch]
    BY DEF WakeNext
  <2>2. kernel.should \in BOOLEAN /\ kernel.resched \in BOOLEAN BY <1>1 DEF TypeOK, Kernels
  <2>3. ~kernel.resched => ~switch OBVIOUS
  <2>4. (kernel.should \/ switch) \in BOOLEAN OBVIOUS
  <2>5. ~kernel.resched => (kernel.should \/ switch) = kernel.should BY <2>2, <2>3
  <2> HIDE DEF switch
  <2> WITNESS (kernel.should \/ switch) \in BOOLEAN
  <2> QED BY <2>1, <2>5
<1>7. kernel' \in Kernels /\ kernel'.holder = h /\ kernel'.wake = w /\ kernel'.resched = kernel.resched
      /\ kernel'.should = should /\ kernel'.after = kernel.after
  BY <1>1, <1>6 DEF TypeOK, Kernels
<1> HIDE DEF t, w
<1>8. \A j \in Thread : /\ state'[j] = IF j = t THEN "READY" ELSE state[j]
                        /\ currentWaitQueue'[j] = IF j = t THEN None ELSE currentWaitQueue[j]
  BY <1>1, <1>4, <1>5 DEF TypeOK
<1>9. on \in SUBSET Core /\ on = ReadyCores("READY", suspendCounter[t], affinity[t], {})
  BY <1>1, <1>4, <1>5, <1>8 DEF TypeOK, ReadyCores
<1> HIDE DEF on
<1>10. /\ RunTypes' /\ RunListsOK'
       /\ currentRunQueue' = [currentRunQueue EXCEPT ![t] = (@ \ {}) \union on]
  <2>1. {} \in SUBSET currentRunQueue[t] /\ on \intersect (currentRunQueue[t] \ {}) = {}
    BY <1>4
  <2>2. RunTypes /\ RunListsOK BY <1>2
  <2> QED BY <1>4, <1>5, <1>9, <2>1, <2>2, MoveOnRunQueuesProperties
<1>11. \A d \in Core : core[d] = "guest" => state[current[d]] = "RUNNING" /\ current[d] # t
                                            /\ current[d] \in Thread
  BY <1>1, <1>4, CoreAssumption DEF IInv, TypeOK, OneCorePerThread, KernelOK
<1>12. TypeOK'
  <2>1. state' \in [Thread -> States] BY <1>1, <1>5 DEF TypeOK, States
  <2>2. waitQueue' \in [WaitQueues -> Seq(Thread)] BY <1>1, <1>3, <1>5 DEF TypeOK
  <2>3. currentWaitQueue' \in [Thread -> WaitQueues \union {None}] BY <1>1, <1>5 DEF TypeOK
  <2> QED BY <1>1, <1>5, <1>7, <1>10, <2>1, <2>2, <2>3 DEF TypeOK, RunTypes, coreVars
<1>13. RunQueuesExact'
  <2>1. ASSUME NEW u \in Thread
        PROVE currentRunQueue'[u] = ReadyCores(state'[u], suspendCounter'[u], affinity'[u], {})
    <3>1. CASE u = t BY <1>2, <1>4, <1>5, <1>8, <1>9, <1>10, <3>1 DEF RunTypes
    <3>2. CASE u # t BY <1>2, <1>5, <1>8, <1>10, <3>2 DEF RunTypes, IInv, RunQueuesExact
    <3> QED BY <3>1, <3>2
  <2> QED BY <1>10, <2>1 DEF RunQueuesExact, RunListsOK
<1>14. OneCorePerThread'
  BY <1>5, <1>8, <1>11 DEF IInv, OneCorePerThread, coreVars
<1>15. KernelOK'
  BY <1>1, <1>5, <1>6, <1>7, <1>8, <1>11 DEF KernelOK, coreVars
<1>16. WaitQueuesExact'
  <2>1. \A j \in Thread : state'[j] = "WAITING" <=> currentWaitQueue'[j] # None
    BY <1>2, <1>8 DEF IInv, WaitQueuesExact
  <2>2. ASSUME NEW q \in WaitQueues
        PROVE  /\ NoDuplicates(waitQueue'[q])
               /\ Threads(waitQueue'[q]) = {j \in Thread : currentWaitQueue'[j] = q}
    <3>1. q # None BY ThreadAssumption DEF WaitQueues, JoinQueue, TimerQueue
    <3>2. NoDuplicates(waitQueue[q]) /\ Threads(waitQueue[q]) = {j \in Thread : currentWaitQueue[j] = q}
      BY <1>2 DEF IInv, WaitQueuesExact
    <3>3. CASE q = w
      <4>1. waitQueue'[q] = Tail(waitQueue[w]) BY <1>1, <1>5, <3>3 DEF TypeOK
      <4> QED BY <1>3, <1>8, <3>1, <3>2, <3>3, <4>1
    <3>4. CASE q # w
      <4>1. waitQueue'[q] = waitQueue[q] BY <1>1, <1>5, <3>4 DEF TypeOK
      <4> QED BY <1>4, <1>8, <3>1, <3>2, <3>4, <4>1
    <3> QED BY <3>3, <3>4
  <2> QED BY <2>1, <2>2 DEF WaitQueuesExact
<1>17. ActiveExact' /\ CoresJoined'
  BY <1>2, <1>4, <1>5, <1>8 DEF IInv, ActiveExact, CoresJoined, coreVars
<1>18. PendingOK'
  BY <1>2, <1>4, <1>5, <1>8 DEF PendingOK
<1>19. JoinsOK'
  <2>1. \A u \in Thread : Exiting(u)' <=> Exiting(u) BY <1>1, <1>5, <1>7 DEF Exiting, coreVars
  <2>2. ASSUME NEW j \in Thread, NEW u \in Thread, resumeAt[j] = Joining(u) PROVE JoinOK(j, u)'
    <3>1. JoinOK(j, u) /\ state[j] # "RUNNING" BY <1>1, <1>2, <2>2 DEF JoinsOK, JoinOK
    <3>2. CASE j = t
      <4>1. w = JoinQueue(u) BY <1>4, <3>1, <3>2 DEF JoinOK
      <4>2. Exiting(u) BY <1>2, <4>1 DEF JoinsOK, w
      <4> QED BY <1>5, <1>8, <2>1, <3>1, <3>2, <4>2 DEF JoinOK
    <3>3. CASE j # t
      <4>1. state'[u] = "MORIBUND" <=> state[u] = "MORIBUND" BY <1>4, <1>8
      <4> QED BY <1>5, <1>8, <2>1, <3>1, <3>3, <4>1 DEF JoinOK
    <3> QED BY <3>2, <3>3
  <2>3. ASSUME NEW j \in Thread, NEW u \in Thread, currentWaitQueue'[j] = JoinQueue(u)
        PROVE resumeAt[j] = Joining(u)
    <3>1. JoinQueue(u) # None BY ThreadAssumption DEF JoinQueue
    <3> QED BY <1>2, <1>8, <2>3, <3>1 DEF JoinsOK
  <2>4. \A u \in Thread : kernel'.wake = JoinQueue(u) => Exiting(u)'
    BY <1>2, <1>7, <2>1 DEF JoinsOK, w
  <2> QED BY <1>5, <2>2, <2>3, <2>4 DEF JoinsOK
<1> QED BY <1>12, <1>13, <1>14, <1>15, <1>16, <1>17, <1>18, <1>19 DEF IInv

\* The queue is empty: the holder goes on with the rest of its call.
LEMMA WakeDoneInvariant ==
    ASSUME IInv, WakeNext, waitQueue[kernel.wake] = <<>> PROVE IInv'
<1> DEFINE h == kernel.holder
<1>1. /\ TypeOK /\ KernelOK /\ kernel.wake # None /\ h # None /\ h \in Core
      /\ kernel.after \in {"return", "exit"} /\ core[h] \notin {"leaving", "exited"}
      /\ kernel.after = "exit" => ~kernel.should
  BY DEF IInv, TypeOK, KernelOK, WakeNext, Kernels, Unlocked
<1>2. host.phase \notin {"ended", "stopped"} /\ PendingOK /\ JoinsOK
  BY <1>1 DEF IInv, CoresJoined
<1>3. /\ kernel' = IF kernel.should THEN Hold(h, "store")
                   ELSE IF kernel.after = "return" THEN Unlocked ELSE Hold(h, "exit")
      /\ UNCHANGED <<threadVars, runVars, waitVars, active, coreVars, host>>
  BY <1>1 DEF WakeNext
<1>4. core[h] = "guest" => state[current[h]] = "RUNNING"
  BY <1>1 DEF KernelOK
<1>5. TypeOK'
  BY <1>1, <1>3, LockValues DEF TypeOK, threadVars, runVars, waitVars, coreVars
<1>6. RunQueuesExact' /\ WaitQueuesExact' /\ ActiveExact' /\ CoresJoined' /\ PendingOK'
  BY <1>2, <1>3 DEF IInv, RunQueuesExact, WaitQueuesExact, ActiveExact, CoresJoined, PendingOK,
     threadVars, runVars, waitVars, coreVars
<1>7. OneCorePerThread'
  BY <1>1, <1>3, <1>4 DEF IInv, OneCorePerThread, threadVars, coreVars
<1>8. KernelOK'
  <2>1. CASE kernel.should
    <3>1. kernel' = Hold(h, "store") BY <1>3, <2>1
    <3>2. core[h] = "guest" BY <1>1, <2>1 DEF KernelOK
    <3> QED BY <1>1, <1>3, <1>4, <3>1, <3>2, LockValues DEF KernelOK, threadVars, coreVars
  <2>2. CASE ~kernel.should /\ kernel.after = "return"
    BY <1>3, <2>2 DEF KernelOK, Unlocked
  <2>3. CASE ~kernel.should /\ kernel.after = "exit"
    <3>1. kernel' = Hold(h, "exit") BY <1>3, <2>3
    <3>2. kernel.wake = JoinQueue(current[h]) /\ core[h] = "guest" /\ resumeAt[current[h]] = Guest
      BY <1>1, <2>3 DEF KernelOK
    <3>3. waitQueue'[JoinQueue(current[h])] = <<>> BY <1>3, <3>2 DEF waitVars
    <3> QED BY <1>1, <1>3, <1>4, <3>1, <3>2, <3>3 DEF KernelOK, Hold, Unlocked, threadVars, coreVars
  <2> QED BY <1>1, <2>1, <2>2, <2>3
<1>9. JoinsOK'
  <2>1. \A u \in Thread : Exiting(u) => Exiting(u)'
    BY <1>1, <1>3, LockValues DEF Exiting, coreVars
  <2>2. ASSUME NEW j \in Thread, NEW u \in Thread, resumeAt[j] = Joining(u) PROVE JoinOK(j, u)'
    <3>1. JoinOK(j, u) /\ state[j] # "RUNNING" BY <1>1, <1>2, <2>2 DEF JoinsOK, JoinOK
    <3> QED BY <1>3, <2>1, <3>1 DEF JoinOK, threadVars, waitVars
  <2>3. kernel'.wake = None
    <3>1. CASE kernel.should BY <1>1, <1>3, <3>1, LockValues
    <3>2. CASE ~kernel.should BY <1>1, <1>3, <3>2, LockValues
    <3> QED BY <3>1, <3>2
  <2>4. \A u \in Thread : kernel'.wake # JoinQueue(u)
    BY <2>3, ThreadAssumption DEF JoinQueue
  <2> QED BY <1>2, <1>3, <2>2, <2>4 DEF JoinsOK, threadVars, waitVars
<1> QED BY <1>5, <1>6, <1>7, <1>8, <1>9 DEF IInv

\* __OSStoreThread takes the thread from the core and links it if it is still READY.
LEMMA StoreThreadInvariant ==
    ASSUME IInv, StoreThread PROVE IInv'
<1> DEFINE c == kernel.holder
           t == current[c]
<1>1. /\ TypeOK /\ KernelOK /\ kernel.wake = None /\ kernel.after = "store"
      /\ c \in Core /\ c # None /\ core[c] = "guest" /\ state[t] # "READY"
  BY DEF IInv, TypeOK, KernelOK, StoreThread, Kernels, Unlocked
<1>2. /\ host.phase \notin {"ended", "stopped"} /\ PendingOK /\ JoinsOK /\ RunTypes /\ RunListsOK
      /\ t \in Thread
  BY <1>1 DEF IInv, CoresJoined, TypeOK, RunTypes, RunListsOK, RunQueuesExact, OneCorePerThread
<1>3. currentRunQueue[t] = {}
  BY <1>1, <1>2 DEF IInv, RunQueuesExact, ReadyCores
<1> DEFINE on == ReadyCores(state'[t], suspendCounter'[t], affinity'[t], currentRunQueue[t])
<1> HIDE DEF c, t
<1>4. /\ state' = [state EXCEPT ![t] = IF @ = "RUNNING" THEN "READY" ELSE @]
      /\ current' = [current EXCEPT ![c] = None]
      /\ core' = [core EXCEPT ![c] = IF ~host.active THEN "leaving"
                                     ELSE IF c = MainCore THEN "events" ELSE "idlePick"]
      /\ kernel' = IF host.active /\ c # MainCore THEN Hold(c, "pick") ELSE Unlocked
      /\ MoveOnRunQueues(t, {}, on)
      /\ UNCHANGED <<suspendCounter, affinity, priority, detached, resumeAt, waitVars, active, host>>
  BY DEF StoreThread, __OSAddReadyThreadToRunQueue, c, t
<1>5. \A j \in Thread : state'[j] = IF j = t /\ state[t] = "RUNNING" THEN "READY" ELSE state[j]
  BY <1>1, <1>2, <1>4 DEF TypeOK
<1>6. on \in SUBSET Core /\ on = ReadyCores(state'[t], suspendCounter[t], affinity[t], {})
  BY <1>1, <1>2, <1>3, <1>4 DEF TypeOK, ReadyCores
<1> HIDE DEF on
<1>7. /\ RunTypes' /\ RunListsOK'
      /\ currentRunQueue' = [currentRunQueue EXCEPT ![t] = (@ \ {}) \union on]
  <2>1. {} \in SUBSET currentRunQueue[t] /\ on \intersect (currentRunQueue[t] \ {}) = {}
    BY <1>3
  <2>2. RunTypes /\ RunListsOK /\ t \in Thread BY <1>2
  <2>3. MoveOnRunQueues(t, {}, on) /\ {} \in SUBSET currentRunQueue[t] BY <1>4
  <2>4. on \in SUBSET Core BY <1>6
  <2> QED BY <2>1, <2>2, <2>3, <2>4, MoveOnRunQueuesProperties
<1>8. \A d \in Core : /\ current'[d] = IF d = c THEN None ELSE current[d]
                      /\ d # c => core'[d] = core[d]
                      /\ core'[c] \in {"leaving", "events", "idlePick"}
  BY <1>1, <1>4 DEF TypeOK
<1>9. \A d \in Core \ {c} : core[d] = "guest" => state[current[d]] = "RUNNING" /\ current[d] # t
                                                 /\ current[d] \in Thread
  BY <1>1, <1>2 DEF IInv, TypeOK, OneCorePerThread, t, c
<1>10. TypeOK'
  <2>1. state' \in [Thread -> States] BY <1>1, <1>4 DEF TypeOK, States
  <2>2. core' \in [Core -> CoreModes] BY <1>1, <1>4 DEF TypeOK, CoreModes
  <2>3. current' \in [Core -> Thread \union {None}] BY <1>1, <1>4 DEF TypeOK
  <2>4. kernel' \in Kernels BY <1>1, <1>4, LockValues
  <2> QED BY <1>1, <1>4, <1>7, <2>1, <2>2, <2>3, <2>4 DEF TypeOK, RunTypes, waitVars
<1>11. RunQueuesExact'
  <2>1. ASSUME NEW u \in Thread
        PROVE currentRunQueue'[u] = ReadyCores(state'[u], suspendCounter'[u], affinity'[u], {})
    <3>1. CASE u = t BY <1>2, <1>3, <1>4, <1>6, <1>7, <3>1 DEF RunTypes
    <3>2. CASE u # t BY <1>2, <1>4, <1>5, <1>7, <3>2 DEF RunTypes, IInv, RunQueuesExact
    <3> QED BY <3>1, <3>2
  <2> QED BY <1>7, <2>1 DEF RunQueuesExact, RunListsOK
<1>12. OneCorePerThread'
  <2>1. \A d, e \in Core : current'[d] = current'[e] /\ current'[d] # None => d = e
    BY <1>8 DEF IInv, OneCorePerThread
  <2>2. \A u \in Thread : state'[u] = "RUNNING" => \E d \in Core : current'[d] = u
    BY <1>5, <1>8 DEF IInv, OneCorePerThread, t
  <2>3. ASSUME NEW d \in Core
        PROVE  /\ current'[d] # None <=> core'[d] = "guest"
               /\ core'[d] = "guest" => state'[current'[d]] = "RUNNING"
    <3>1. CASE d = c BY <1>8, <3>1
    <3>2. CASE d # c
      <4>1. current'[d] = current[d] /\ core'[d] = core[d] BY <1>8, <3>2
      <4>2. core[d] = "guest" => state'[current[d]] = "RUNNING" BY <1>5, <1>9, <3>2
      <4> QED BY <4>1, <4>2 DEF IInv, OneCorePerThread
    <3> QED BY <3>1, <3>2
  <2> QED BY <2>1, <2>2, <2>3 DEF OneCorePerThread
<1>13. KernelOK'
  <2>1. CASE host.active /\ c # MainCore
    <3>1. kernel' = Hold(c, "pick") /\ core'[c] = "idlePick" BY <1>1, <1>4, <2>1 DEF TypeOK
    <3> QED BY <1>1, <3>1, LockValues DEF KernelOK
  <2>2. CASE ~(host.active /\ c # MainCore)
    BY <1>4, <2>2 DEF KernelOK, Unlocked
  <2> QED BY <2>1, <2>2
<1>14. WaitQueuesExact' /\ ActiveExact' /\ CoresJoined'
  BY <1>2, <1>4, <1>5 DEF IInv, WaitQueuesExact, ActiveExact, CoresJoined, waitVars
<1>15. PendingOK'
  BY <1>2, <1>4, <1>5 DEF PendingOK
<1>16. JoinsOK'
  <2>1. \A u \in Thread : ~Exiting(u) BY <1>1 DEF Exiting
  <2>2. ASSUME NEW j \in Thread, NEW u \in Thread, resumeAt[j] = Joining(u) PROVE JoinOK(j, u)'
    <3>1. JoinOK(j, u) /\ state[j] # "RUNNING" BY <1>1, <1>2, <2>2 DEF JoinsOK, JoinOK
    <3>2. state'[j] = state[j] /\ (state'[u] = "MORIBUND" <=> state[u] = "MORIBUND") BY <1>5, <3>1
    <3> QED BY <1>4, <2>1, <3>1, <3>2 DEF JoinOK, waitVars
  <2>3. kernel'.wake = None BY <1>1, <1>4, LockValues
  <2>4. \A u \in Thread : kernel'.wake # JoinQueue(u) BY <2>3, ThreadAssumption DEF JoinQueue
  <2> QED BY <1>2, <1>4, <2>2, <2>4 DEF JoinsOK, waitVars
<1> QED BY <1>10, <1>11, <1>12, <1>13, <1>14, <1>15, <1>16 DEF IInv

\* A core that finds no thread gives the lock back and keeps idling.
LEMMA FindsNothingInvariant ==
    ASSUME IInv, NEW c \in Core, core[c] = "idlePick", kernel.holder \in {None, c}, FindsNothing(c)
    PROVE  IInv'
<1>1. /\ TypeOK /\ host.phase \notin {"ended", "stopped"} /\ PendingOK /\ JoinsOK
      /\ c # None /\ kernel.wake = None /\ kernel.after \notin {"exit", "join"}
  BY CoreAssumption DEF IInv, CoresJoined, KernelOK, Unlocked
<1>2. /\ core' = [core EXCEPT ![c] = AfterPick(c)] /\ kernel' = Unlocked
      /\ UNCHANGED <<threadVars, runVars, waitVars, active, current, host>>
  BY DEF FindsNothing
<1>3. AfterPick(c) \in {"events", "waitNonZero"}
  BY DEF AfterPick
<1>4. TypeOK'
  BY <1>1, <1>2, <1>3, LockValues DEF TypeOK, CoreModes, threadVars, runVars, waitVars
<1>5. RunQueuesExact' /\ WaitQueuesExact' /\ ActiveExact'
  BY <1>2 DEF IInv, RunQueuesExact, WaitQueuesExact, ActiveExact, threadVars, runVars, waitVars
<1>6. OneCorePerThread'
  <2>1. \A d \in Core : core'[d] = IF d = c THEN AfterPick(c) ELSE core[d] BY <1>1, <1>2 DEF TypeOK
  <2>2. UNCHANGED <<state, current>> BY <1>2 DEF threadVars
  <2> QED BY <1>1, <1>3, <2>1, <2>2, CoreAssumption DEF IInv, OneCorePerThread
<1>7. KernelOK'
  BY <1>2 DEF KernelOK, Unlocked
<1>8. CoresJoined' /\ PendingOK'
  BY <1>1, <1>2 DEF CoresJoined, PendingOK, threadVars
<1>9. JoinsOK'
  <2>1. \A u \in Thread : ~Exiting(u) BY <1>1 DEF Exiting
  <2>2. kernel'.wake = None BY <1>2, LockValues
  <2>3. \A u \in Thread : kernel'.wake # JoinQueue(u) BY <2>2, ThreadAssumption DEF JoinQueue
  <2> QED BY <1>1, <1>2, <2>1, <2>3 DEF JoinsOK, JoinOK, threadVars, waitVars
<1> QED BY <1>4, <1>5, <1>6, <1>7, <1>8, <1>9 DEF IInv

\* __OSGetNextRunableThread, from the idle loop or with the lock handed over.
LEMMA PickInvariant ==
    ASSUME IInv, NEW c \in Core, core[c] = "idlePick", kernel.holder \in {None, c},
           __OSGetNextRunableThread(c)
    PROVE  IInv'
  BY FindsNothingInvariant, DispatchInvariant DEF __OSGetNextRunableThread

\* The tail of OSExitThread: once the joiners are awake, the thread becomes MORIBUND
\* or is reaped.
LEMMA ExitTailInvariant ==
    ASSUME IInv, ExitTail PROVE IInv'
<1> DEFINE h == kernel.holder
           t == current[h]
<1>1. /\ TypeOK /\ KernelOK /\ kernel.wake = None /\ kernel.after = "exit"
      /\ h \in Core /\ h # None /\ core[h] = "guest" /\ state[t] = "RUNNING" /\ resumeAt[t] = Guest
      /\ waitQueue[JoinQueue(t)] = <<>>
  BY DEF IInv, TypeOK, KernelOK, ExitTail, Kernels, Unlocked
<1>2. /\ host.phase \notin {"ended", "stopped"} /\ PendingOK /\ JoinsOK /\ t \in Thread
      /\ currentWaitQueue[t] = None
  BY <1>1 DEF IInv, CoresJoined, TypeOK, OneCorePerThread, WaitQueuesExact
<1> HIDE DEF h, t
<1>3. /\ state' = [state EXCEPT ![t] = IF t \in detached THEN "NONE" ELSE "MORIBUND"]
      /\ active' = active \ (detached \intersect {t}) /\ kernel' = Hold(h, "store")
      /\ UNCHANGED <<suspendCounter, affinity, priority, detached, resumeAt,
                     runVars, waitVars, coreVars, host>>
  BY DEF ExitTail, h, t
<1>4. \A j \in Thread : state'[j] = IF j = t THEN IF t \in detached THEN "NONE" ELSE "MORIBUND"
                                    ELSE state[j]
  BY <1>1, <1>2, <1>3 DEF TypeOK
<1>5. \A d \in Core \ {h} : core[d] = "guest" => state[current[d]] = "RUNNING" /\ current[d] # t
                                                 /\ current[d] \in Thread
  BY <1>1, <1>2 DEF IInv, TypeOK, OneCorePerThread, t, h
<1>6. TypeOK'
  <2>1. state' \in [Thread -> States] BY <1>1, <1>3 DEF TypeOK, States
  <2>2. kernel' \in Kernels BY <1>1, <1>3, LockValues
  <2> QED BY <1>1, <1>3, <2>1, <2>2 DEF TypeOK, runVars, waitVars, coreVars
<1>7. RunQueuesExact' /\ WaitQueuesExact' /\ ActiveExact' /\ CoresJoined'
  BY <1>1, <1>2, <1>3, <1>4 DEF IInv, RunQueuesExact, ReadyCores, WaitQueuesExact, ActiveExact,
     CoresJoined, runVars, waitVars, coreVars
<1>8. OneCorePerThread'
  <2>1. UNCHANGED <<current, core>> /\ kernel'.holder = h BY <1>1, <1>3, LockValues DEF coreVars
  <2> QED BY <1>1, <1>4, <1>5, <2>1 DEF IInv, OneCorePerThread
<1>9. KernelOK'
  <2>1. state'[t] # "READY" BY <1>2, <1>4
  <2>2. current'[h] = t /\ core'[h] = "guest" BY <1>1, <1>3 DEF coreVars, t
  <2> QED BY <1>1, <1>3, <2>1, <2>2, LockValues DEF KernelOK
<1>10. PendingOK'
  BY <1>1, <1>2, <1>3, <1>4 DEF PendingOK
<1>11. JoinsOK'
  <2>1. \A u \in Thread : u # t => ~Exiting(u) BY DEF Exiting, t, h
  <2>2. ASSUME NEW j \in Thread, NEW u \in Thread, resumeAt[j] = Joining(u) PROVE JoinOK(j, u)'
    <3>1. JoinOK(j, u) /\ state[j] # "RUNNING" BY <1>1, <1>2, <2>2 DEF JoinsOK, JoinOK
    <3>2. j # t BY <1>1, <3>1
    <3>3. CASE u = t
      <4>1. JoinQueue(t) \in WaitQueues BY <1>2 DEF WaitQueues
      <4>2. Threads(<<>>) = {} BY DEF Threads
      <4>3. currentWaitQueue[j] # JoinQueue(t)
        BY <1>1, <1>2, <4>1, <4>2 DEF IInv, WaitQueuesExact
      <4>4. state[j] # "WAITING" BY <3>1, <3>3, <4>3 DEF JoinOK
      <4>5. t \notin detached /\ t \in active BY <3>1, <3>3 DEF JoinOK
      <4> QED BY <1>2, <1>3, <1>4, <3>1, <3>2, <3>3, <4>4, <4>5 DEF JoinOK
    <3>4. CASE u # t
      BY <1>3, <1>4, <2>1, <3>1, <3>2, <3>4 DEF JoinOK, waitVars
    <3> QED BY <3>3, <3>4
  <2>3. kernel'.wake = None BY <1>1, <1>3, LockValues
  <2>4. \A u \in Thread : kernel'.wake # JoinQueue(u) BY <2>3, ThreadAssumption DEF JoinQueue
  <2> QED BY <1>2, <1>3, <2>2, <2>4 DEF JoinsOK, waitVars
<1> QED BY <1>6, <1>7, <1>8, <1>9, <1>10, <1>11 DEF IInv

\* The joiner that goes on finds its target MORIBUND.
LEMMA JoinerFacts ==
    ASSUME IInv, kernel.wake = None, kernel.after = "join"
    PROVE  LET me == current[kernel.holder]
               t  == resumeAt[me].target
           IN  /\ kernel.holder \in Core /\ core[kernel.holder] = "guest"
               /\ me \in Thread /\ state[me] = "RUNNING" /\ resumeAt[me] = Joining(t)
               /\ t \in Thread /\ t \in active /\ t \notin detached /\ state[t] = "MORIBUND"
               /\ host.phase \notin {"ended", "stopped"}
<1> DEFINE me == current[kernel.holder]
           t  == resumeAt[me].target
<1>1. /\ TypeOK /\ kernel.holder \in Core /\ kernel.holder # None /\ core[kernel.holder] = "guest"
      /\ state[me] = "RUNNING" /\ resumeAt[me].op = "join"
  BY DEF IInv, TypeOK, KernelOK, Kernels, Unlocked
<1>2. host.phase \notin {"ended", "stopped"} /\ PendingOK /\ JoinsOK /\ me \in Thread
  BY <1>1 DEF IInv, CoresJoined, TypeOK, OneCorePerThread
<1>3. resumeAt[me] \in ResumePoints BY <1>1, <1>2 DEF TypeOK
<1>4. t \in Thread /\ resumeAt[me] = Joining(t)
  BY <1>1, <1>2, <1>3 DEF PendingOK, ResumePoints, Joining
<1>5. JoinOK(me, t) /\ ~Exiting(t)
  BY <1>2, <1>4 DEF JoinsOK, Exiting
<1> HIDE DEF me, t
<1>6. t \in active /\ t \notin detached /\ state[t] = "MORIBUND"
  BY <1>1, <1>5 DEF JoinOK
<1> QED BY <1>1, <1>2, <1>4, <1>6 DEF me, t

\* The tail of OSJoinThread ends the target, which nobody else can have ended.
LEMMA JoinTailInvariant ==
    ASSUME IInv, JoinTail PROVE IInv'
<1> DEFINE c  == kernel.holder
           me == current[c]
           t  == resumeAt[me].target
<1>1. /\ kernel.wake = None /\ kernel.after = "join"
      /\ EndTarget(t) /\ resumeAt' = [resumeAt EXCEPT ![me] = Guest] /\ kernel' = Unlocked
      /\ UNCHANGED <<suspendCounter, affinity, priority, detached, waitVars, coreVars, host>>
  BY DEF JoinTail
<1>2. /\ c \in Core /\ core[c] = "guest"
      /\ me \in Thread /\ state[me] = "RUNNING" /\ resumeAt[me] = Joining(t)
      /\ t \in Thread /\ state[t] = "MORIBUND" /\ host.phase \notin {"ended", "stopped"}
  BY <1>1, JoinerFacts
<1>3. RunTypes /\ RunListsOK /\ PendingOK /\ currentRunQueue[t] = {}
  BY <1>2 DEF IInv, TypeOK, RunTypes, RunListsOK, RunQueuesExact, ReadyCores
<1>4. ASSUME NEW j \in Thread \ {me} PROVE resumeAt[j].target # t
  <2>1. resumeAt[me].target = t /\ resumeAt[me] # Guest BY <1>2 DEF Joining, Guest
  <2> QED BY <1>2, <1>3, <2>1 DEF PendingOK
<1> HIDE DEF c, me, t
<1>5. state' = [state EXCEPT ![t] = "NONE"] /\ active' = active \ {t} /\ MoveOnRunQueues(t, {}, {})
  BY <1>1, <1>3 DEF EndTarget, __OSRemoveThreadFromRunQueues
<1>6. /\ RunTypes' /\ RunListsOK'
      /\ currentRunQueue' = [currentRunQueue EXCEPT ![t] = (@ \ {}) \union {}]
  <2>1. /\ {} \in SUBSET Core /\ {} \in SUBSET currentRunQueue[t]
        /\ {} \intersect (currentRunQueue[t] \ {}) = {}
    OBVIOUS
  <2>2. RunTypes /\ RunListsOK BY <1>3
  <2> QED BY <1>2, <1>5, <2>1, <2>2, MoveOnRunQueuesProperties
<1>7. currentRunQueue' = currentRunQueue BY <1>3, <1>6 DEF RunTypes
<1>8. detached' \in {detached, detached \union {t}} /\ Guest \in {Guest, Creating(t)}
      /\ kernel.holder = c
  BY <1>1 DEF c
<1> QED BY <1>1, <1>2, <1>4, <1>5, <1>6, <1>7, <1>8, ReapInvariant DEF me
-----------------------------------------------------------------------------
\* The steps of the host.
LEMMA HostInvariant ==
    ASSUME IInv, HostStep PROVE IInv'
<1>1. /\ TypeOK /\ KernelOK
  BY DEF IInv
<1>2. CASE OSSchedulerEnd \/ EndJoinsCores \/ \E c \in Core : EndWakesCore(c)
  <2>1. /\ host'.phase \in {"ending", "joining", "ended"} /\ host.phase # "stopped"
        /\ host' \in [phase : HostPhases, active : BOOLEAN, todo : SUBSET Core, titles : Nat]
        /\ runQueueCount' \in [Core -> Int]
        /\ UNCHANGED <<threadVars, currentRunQueue, runQueue, waitVars, active, coreVars, kernel>>
    <3>1. CASE OSSchedulerEnd
      BY <1>1, <3>1 DEF TypeOK, OSSchedulerEnd, HostPhases, runVars
    <3>2. CASE EndJoinsCores
      BY <1>1, <3>2 DEF TypeOK, EndJoinsCores, HostPhases, runVars
    <3>3. CASE \E c \in Core : EndWakesCore(c)
      <4>1. PICK c \in Core : EndWakesCore(c) BY <3>3
      <4>2. runQueueCount' \in [Core -> Int] BY <1>1, <4>1 DEF TypeOK, EndWakesCore
      <4>3. /\ host'.phase \in {"ending", "joining"} /\ host.phase = "ending"
            /\ host' \in [phase : HostPhases, active : BOOLEAN, todo : SUBSET Core, titles : Nat]
        BY <1>1, <4>1 DEF TypeOK, EndWakesCore, HostPhases
      <4> QED BY <4>1, <4>2, <4>3 DEF EndWakesCore
    <3> QED BY <1>2, <3>1, <3>2, <3>3
  <2>2. TypeOK'
    BY <1>1, <2>1 DEF TypeOK, threadVars, waitVars, coreVars
  <2>3. RunQueuesExact' /\ WaitQueuesExact' /\ ActiveExact' /\ OneCorePerThread'
    BY <2>1 DEF IInv, RunQueuesExact, WaitQueuesExact, ActiveExact, OneCorePerThread,
       threadVars, waitVars, coreVars
  <2>4. KernelOK' /\ PendingOK' /\ JoinsOK'
    BY <2>1 DEF IInv, KernelOK, PendingOK, JoinsOK, JoinOK, Exiting, threadVars, waitVars, coreVars
  <2>5. CoresJoined'
    <3>1. CASE OSSchedulerEnd
      <4>1. host'.phase = "ending" BY <1>1, <3>1 DEF TypeOK, OSSchedulerEnd
      <4> QED BY <4>1 DEF CoresJoined
    <3>2. CASE EndJoinsCores
      BY <2>1, <3>2 DEF EndJoinsCores, CoresJoined, coreVars
    <3>3. CASE \E c \in Core : EndWakesCore(c)
      <4>1. host'.phase \in {"ending", "joining"} BY <1>1, <3>3 DEF TypeOK, EndWakesCore
      <4> QED BY <4>1 DEF CoresJoined
    <3> QED BY <1>2, <3>1, <3>2, <3>3
  <2> QED BY <2>2, <2>3, <2>4, <2>5 DEF IInv
<1>3. CASE __OSDeleteAllActivePPCThreads
  <2>1. /\ host.phase = "ended" /\ host'.phase = "stopped" /\ active' = {}
        /\ host' \in [phase : HostPhases, active : BOOLEAN, todo : SUBSET Core, titles : Nat]
        /\ state' = [t \in Thread |-> IF t \in active THEN "NONE" ELSE state[t]]
        /\ UNCHANGED <<suspendCounter, affinity, priority, detached, resumeAt,
                       runVars, waitVars, coreVars, kernel>>
    BY <1>1, <1>3 DEF __OSDeleteAllActivePPCThreads, TypeOK, HostPhases
  <2>2. \A t \in Thread : state'[t] = "NONE"
    BY <2>1 DEF IInv, ActiveExact
  <2>3. \A c \in Core : core[c] = "exited" /\ current[c] = None
    BY <2>1 DEF IInv, CoresJoined, OneCorePerThread
  <2>4. kernel = Unlocked
    BY <1>1, <2>3 DEF KernelOK, TypeOK, Kernels
  <2>5. TypeOK'
    BY <1>1, <2>1, <2>2 DEF TypeOK, States, runVars, waitVars, coreVars
  <2>6. RunQueuesExact' /\ WaitQueuesExact' /\ ActiveExact' /\ CoresJoined'
    BY <2>1, <2>2, <2>3 DEF RunQueuesExact, WaitQueuesExact, ActiveExact, CoresJoined, coreVars
  <2>7. OneCorePerThread' /\ KernelOK'
    BY <2>1, <2>2, <2>3, <2>4 DEF OneCorePerThread, KernelOK, Unlocked, coreVars
  <2> QED BY <2>1, <2>5, <2>6, <2>7 DEF IInv
<1>4. CASE StartNextTitle
  <2>1. kernel = Unlocked
    BY <1>1, <1>4 DEF IInv, StartNextTitle, CoresJoined, KernelOK, TypeOK, Kernels
  <2>2. runQueueCount' \in [Core -> Int]
    <3>1. runQueueCount' = [runQueueCount EXCEPT ![MainCore] = @ + 1] BY <1>4 DEF StartNextTitle
    <3> QED BY <1>1, <3>1, CoreAssumption DEF TypeOK
  <2>3. Fresh'
    BY <1>1, <1>4, <2>1, <2>2 DEF StartNextTitle, Fresh, TypeOK, Unlocked
  <2>4. Fresh' => IInv'
    BY FreshInvariant, PTL
  <2> QED BY <2>3, <2>4
<1> QED BY <1>2, <1>3, <1>4 DEF HostStep
-----------------------------------------------------------------------------
\* Every step of the scheduler keeps the invariant.
LEMMA NextInvariant ==
    ASSUME WellBehaved, IInv, PollsOK, [Next]_vars PROVE IInv'
<1>1. CASE KernelStep
  <2>1. CASE WakeNext BY <2>1, WakeOneInvariant, WakeDoneInvariant
  <2>2. CASE StoreThread BY <2>2, StoreThreadInvariant
  <2>3. CASE PickNext
    <3>1. kernel.holder \in Core /\ core[kernel.holder] = "idlePick"
      BY <2>3 DEF IInv, TypeOK, KernelOK, PickNext, Kernels, Unlocked
    <3> QED BY <2>3, <3>1, PickInvariant DEF PickNext
  <2>4. CASE ExitTail BY <2>4, ExitTailInvariant
  <2>5. CASE JoinTail BY <2>5, JoinTailInvariant
  <2> QED BY <1>1, <2>1, <2>2, <2>3, <2>4, <2>5 DEF KernelStep
<1>2. CASE HostStep BY <1>2, HostInvariant
<1>3. ASSUME NEW c \in Core, IdleStep(c) PROVE IInv'
  <2>1. CASE IdleCheck(c)
    <3>1. PICK m \in CoreModes \ {"guest"} : core' = [core EXCEPT ![c] = m]
      BY <2>1 DEF IdleCheck, AfterPick, CoreModes
    <3> QED BY <2>1, <3>1, IdleInvariant DEF IdleCheck
  <2>2. CASE IdlePick(c)
    BY <2>2, PickInvariant DEF IdlePick, Unlocked
  <2>3. CASE WaitUntilNonZero(c)
    <3>1. PICK m \in CoreModes \ {"guest"} : core' = [core EXCEPT ![c] = m]
      BY <2>3 DEF WaitUntilNonZero, CoreModes
    <3> QED BY <2>3, <3>1, IdleInvariant DEF WaitUntilNonZero
  <2>4. CASE EventsDone(c)
    <3>1. "idleTop" \in CoreModes \ {"guest"} BY DEF CoreModes
    <3> QED BY <2>4, <3>1, IdleInvariant DEF EventsDone
  <2>5. CASE LeaveFiber(c)
    <3>1. "exited" \in CoreModes \ {"guest"} BY DEF CoreModes
    <3> QED BY <2>5, <3>1, IdleInvariant DEF LeaveFiber
  <2> QED BY <1>3, <2>1, <2>2, <2>3, <2>4, <2>5 DEF IdleStep
<1>4. ASSUME NEW c \in Core, GuestCall(c) PROVE IInv'
  <2>1. CASE OSYieldThread(c)
    BY <2>1, LockInvariant DEF OSYieldThread, Calls, IInv, TypeOK, threadVars
  <2>2. CASE OSSleepTicks(c)
    <3>1. core[c] = "guest" /\ kernel = Unlocked /\ resumeAt[current[c]] = Guest BY <2>2 DEF OSSleepTicks, Calls
    <3> QED BY <2>2, <3>1, GuestSleeps DEF OSSleepTicks
  <2>3. CASE OSExitThread(c)
    BY <2>3, LockInvariant DEF OSExitThread, Calls, IInv, TypeOK, threadVars
  <2>4. CASE PollAgain(c)
    BY <2>4, PollAgainInvariant
  <2>5. ASSUME NEW q \in UserQueue, OSSleepThread(c, q) PROVE IInv'
    <3>1. core[c] = "guest" /\ kernel = Unlocked /\ resumeAt[current[c]] = Guest BY <2>5 DEF OSSleepThread, Calls
    <3> QED BY <2>5, <3>1, GuestSleeps DEF OSSleepThread
  <2>6. ASSUME NEW q \in UserQueue, OSWakeupThread(c, q) PROVE IInv'
    BY <2>6, LockInvariant DEF OSWakeupThread, Calls, IInv, TypeOK, threadVars
  <2>7. ASSUME NEW t \in Thread,
               \/ OSResumeThread(c, t) \/ OSSuspendThread(c, t) \/ OSDetachThread(c, t)
               \/ OSJoinThread(c, t) \/ OSCreateThread(c, t) \/ OSRunThread(c, t)
        PROVE IInv'
    BY <2>7, ResumeInvariant, SuspendInvariant, DetachInvariant, JoinInvariant, CreateInvariant,
       RunThreadInvariant
  <2>8. ASSUME NEW t \in Thread, NEW mask \in Affinities, OSSetThreadAffinity(c, t, mask) PROVE IInv'
    BY <2>8, AffinityInvariant
  <2>9. ASSUME NEW t \in Thread, NEW p \in Priorities, OSSetThreadPriority(c, t, p) PROVE IInv'
    BY <2>9, PriorityInvariant
  <2>10. ASSUME NEW mask \in Affinities, NEW p \in Priorities, NEW det \in BOOLEAN,
                CreateThread(c, mask, p, det)
         PROVE IInv'
    BY <2>10, CreateThreadInvariant
  <2> QED BY <1>4, <2>1, <2>2, <2>3, <2>4, <2>5, <2>6, <2>7, <2>8, <2>9, <2>10 DEF GuestCall
<1>5. ASSUME NEW t \in Thread, TimerFires(t) PROVE IInv'
  BY <1>5, TimerInvariant
<1>6. CASE UNCHANGED vars BY <1>6, StutterInvariant
<1> QED BY <1>1, <1>2, <1>3, <1>4, <1>5, <1>6 DEF Next

-----------------------------------------------------------------------------
(* What a creation polls for cannot be stopped before it exits.             *)

\* A step keeps PollsOK when nobody starts to poll and no polled thread comes
\* to wait, is suspended or starts anew.
LEMMA PollsKept ==
    ASSUME TypeOK', PollsOK,
           \A j \in Thread : resumeAt'[j].op = "poll" => resumeAt'[j] = resumeAt[j],
           \A t \in active' : (\E j \in Thread : resumeAt[j] = Polling(t)) =>
              /\ t \in active
              /\ suspendCounter[t] = 0 => suspendCounter'[t] = 0
              /\ state'[t] = "WAITING" => state[t] = "WAITING",
           host'.phase = "stopped" => active' = {}
    PROVE  PollsOK'
<1>1. ASSUME NEW j \in Thread, resumeAt'[j].op = "poll"
      PROVE  LET t == resumeAt'[j].target IN
             /\ j = Boot /\ t # Boot
             /\ t \in active' => suspendCounter'[t] = 0 /\ state'[t] # "WAITING"
  <2> DEFINE t == resumeAt'[j].target
  <2>1. resumeAt[j] = resumeAt'[j] /\ resumeAt'[j] \in ResumePoints BY <1>1 DEF TypeOK
  <2>2. resumeAt[j] = Polling(t) BY <1>1, <2>1 DEF ResumePoints, Polling
  <2>3. j = Boot /\ t # Boot /\ (t \in active => suspendCounter[t] = 0 /\ state[t] # "WAITING")
    BY <1>1, <2>1 DEF PollsOK
  <2> HIDE DEF t
  <2>4. t \in active' => suspendCounter'[t] = 0 /\ state'[t] # "WAITING" BY <2>2, <2>3
  <2> QED BY <2>3, <2>4 DEF t
<1> QED BY <1>1 DEF PollsOK

\* In particular one that does not touch suspend counters and resume points.
LEMMA QuietKeepsPolls ==
    ASSUME TypeOK, TypeOK', PollsOK,
           \A j \in Thread : resumeAt'[j].op = "poll" => resumeAt'[j] = resumeAt[j],
           active' \subseteq active, suspendCounter' = suspendCounter, host' = host,
           \A t \in Thread : state'[t] = "WAITING" => state[t] = "WAITING"
    PROVE  PollsOK'
<1>1. active' \subseteq Thread BY DEF TypeOK
<1>2. host'.phase = "stopped" => active' = {} BY DEF PollsOK
<1> QED BY <1>1, <1>2, PollsKept

\* The round of a poll: the poller sleeps for a thread that can run, or the poll ends.
LEMMA CreatePollKeepsPolls ==
    ASSUME IInv, TypeOK', PollsOK, NEW c \in Core, NEW t \in Thread, CreatePoll(c, t),
           core[c] = "guest", kernel = Unlocked, current[c] = Boot, t # Boot
    PROVE  PollsOK'
<1>1. /\ Boot \in Thread /\ host.phase \notin {"ended", "stopped"}
      /\ resumeAt \in [Thread -> ResumePoints] /\ state \in [Thread -> States] /\ active \subseteq Thread
  BY CallFacts, ThreadAssumption DEF IInv, TypeOK
<1>2. \A j \in Thread : resumeAt[j].op = "poll" => j = Boot
  BY DEF PollsOK
<1>3. CASE t \in active /\ state[t] \in {"READY", "RUNNING"} /\ suspendCounter[t] = 0
  <2>1. /\ state' = [state EXCEPT ![Boot] = "WAITING"]
        /\ resumeAt' = [resumeAt EXCEPT ![Boot] = Polling(t)]
        /\ UNCHANGED <<suspendCounter, active, host>>
    BY <1>3 DEF CreatePoll, QueueAndWait
  <2>2. \A j \in Thread : resumeAt'[j].op = "poll" => j = Boot BY <1>1, <1>2, <2>1
  <2>3. resumeAt'[Boot].target = t /\ suspendCounter'[t] = 0 /\ state'[t] # "WAITING"
    BY <1>1, <1>3, <2>1 DEF Polling
  <2> QED BY <1>1, <2>1, <2>2, <2>3 DEF PollsOK
<1>4. CASE ~(t \in active /\ state[t] \in {"READY", "RUNNING"} /\ suspendCounter[t] = 0)
  <2>1. resumeAt' = [resumeAt EXCEPT ![Boot] = Creating(t)] /\ host' = host
    BY <1>4 DEF CreatePoll, DetachLocked
  <2>2. \A j \in Thread : resumeAt'[j].op # "poll" BY <1>1, <1>2, <2>1 DEF Creating
  <2> QED BY <1>1, <2>1, <2>2 DEF PollsOK
<1> QED BY <1>3, <1>4

\* The steps of the holder of the lock, and those of the idle loops.
LEMMA KernelKeepsPolls ==
    ASSUME IInv, TypeOK', PollsOK, KernelStep PROVE PollsOK'
<1>1. TypeOK BY DEF IInv
<1>2. CASE WakeNext
  BY <1>1, <1>2, QuietKeepsPolls DEF WakeNext, TypeOK, threadVars, Hold
<1>3. CASE StoreThread
  BY <1>1, <1>3, QuietKeepsPolls DEF StoreThread, TypeOK
<1>4. CASE PickNext
  BY <1>1, <1>4, QuietKeepsPolls DEF PickNext, __OSGetNextRunableThread, FindsNothing, Dispatch,
     TypeOK, threadVars
<1>5. CASE ExitTail
  BY <1>1, <1>5, QuietKeepsPolls DEF ExitTail, TypeOK
<1>6. CASE JoinTail
  <2>1. /\ resumeAt' = [resumeAt EXCEPT ![current[kernel.holder]] = Guest]
        /\ active' \subseteq active /\ UNCHANGED <<suspendCounter, host>>
        /\ state' = [state EXCEPT ![resumeAt[current[kernel.holder]].target] = "NONE"]
    BY <1>6 DEF JoinTail, EndTarget
  <2>2. \A j \in Thread : resumeAt'[j].op = "poll" => resumeAt'[j] = resumeAt[j]
    BY <1>1, <2>1 DEF TypeOK, Guest
  <2>3. \A t \in Thread : state'[t] = "WAITING" => state[t] = "WAITING" BY <1>1, <2>1 DEF TypeOK
  <2> QED BY <1>1, <2>1, <2>2, <2>3, QuietKeepsPolls
<1> QED BY <1>2, <1>3, <1>4, <1>5, <1>6 DEF KernelStep

LEMMA IdleKeepsPolls ==
    ASSUME IInv, TypeOK', PollsOK, NEW c \in Core, IdleStep(c) PROVE PollsOK'
<1>1. TypeOK BY DEF IInv
<1>2. CASE IdleCheck(c) \/ WaitUntilNonZero(c) \/ EventsDone(c) \/ LeaveFiber(c)
  BY <1>1, <1>2, QuietKeepsPolls DEF IdleCheck, WaitUntilNonZero, EventsDone, LeaveFiber, threadVars
<1>3. CASE IdlePick(c)
  BY <1>1, <1>3, QuietKeepsPolls DEF IdlePick, __OSGetNextRunableThread, FindsNothing, Dispatch,
     TypeOK, threadVars
<1> QED BY <1>2, <1>3 DEF IdleStep

\* The steps of the host.
LEMMA HostKeepsPolls ==
    ASSUME IInv, TypeOK', PollsOK, HostStep PROVE PollsOK'
<1>1. TypeOK BY DEF IInv
<1>2. CASE OSSchedulerEnd \/ EndJoinsCores \/ \E c \in Core : EndWakesCore(c)
  <2>1. UNCHANGED <<threadVars, active>> /\ host.phase # "stopped" /\ host'.phase # "stopped"
    BY <1>1, <1>2 DEF OSSchedulerEnd, EndJoinsCores, EndWakesCore, TypeOK
  <2> QED BY <2>1, PollsKept DEF threadVars
<1>3. CASE __OSDeleteAllActivePPCThreads
  BY <1>3, PollsKept DEF __OSDeleteAllActivePPCThreads
<1>4. CASE StartNextTitle
  <2>1. \A j \in Thread : resumeAt'[j] = Guest BY <1>4 DEF StartNextTitle, FreshTitle
  <2>2. host'.phase # "stopped" BY <1>4 DEF StartNextTitle
  <2> QED BY <2>1, <2>2 DEF PollsOK, Guest
<1> QED BY <1>2, <1>3, <1>4 DEF HostStep

\* The calls of the guest: a thread that somebody polls for neither waits nor
\* joins, and nobody suspends, ends or restarts it.
LEMMA GuestKeepsPolls ==
    ASSUME WellBehaved, IInv, TypeOK', PollsOK, NEW c \in Core, GuestCall(c) PROVE PollsOK'
<1> DEFINE me == current[c]
<1>1. TypeOK BY DEF IInv
<1>2. core[c] = "guest" /\ kernel = Unlocked
  BY DEF GuestCall, Calls, OSYieldThread, OSSleepTicks, OSExitThread, PollAgain, OSSleepThread,
     OSWakeupThread, OSResumeThread, OSSuspendThread, OSDetachThread, OSJoinThread, OSCreateThread,
     OSRunThread, OSSetThreadAffinity, OSSetThreadPriority, CreateThread
<1>3. /\ me \in active /\ me \in Thread /\ active \subseteq Thread
      /\ host.phase \notin {"ended", "stopped"} /\ PendingOK
      /\ resumeAt \in [Thread -> ResumePoints]
  BY <1>2, CallFacts DEF IInv, TypeOK
<1>4. \A j, t \in Thread : resumeAt[j] = Polling(t) /\ t \in active => suspendCounter[t] = 0
  BY DEF PollsOK, Polling
\* A thread that nobody polls for waits, for any reason.
<1>5. ASSUME NEW q, QueueAndWait(c, q), \A j \in Thread : resumeAt[j] # Polling(me),
             UNCHANGED <<suspendCounter, active, host>>,
             \A j \in Thread : resumeAt'[j].op = "poll" => resumeAt'[j] = resumeAt[j]
      PROVE  PollsOK'
  <2>1. state' = [state EXCEPT ![me] = "WAITING"] BY <1>5 DEF QueueAndWait
  <2>2. \A t \in Thread \ {me} : state'[t] = state[t] BY <1>1, <2>1 DEF TypeOK
  <2> QED BY <1>3, <1>5, <2>2, PollsKept
<1> HIDE DEF me
<1>6. CASE OSYieldThread(c) \/ OSExitThread(c) \/ \E q \in UserQueue : OSWakeupThread(c, q)
  BY <1>1, <1>6, QuietKeepsPolls DEF OSYieldThread, OSExitThread, OSWakeupThread, threadVars
<1>7. CASE OSSleepTicks(c) \/ \E q \in UserQueue : OSSleepThread(c, q)
  BY <1>5, <1>7 DEF OSSleepTicks, OSSleepThread, RunsOn, WellBehaved, me
<1>8. CASE PollAgain(c)
  <2> DEFINE t == resumeAt[me].target
  <2>1. resumeAt[me].op = "poll" /\ CreatePoll(c, t) BY <1>8 DEF PollAgain, me
  <2>2. me = Boot /\ t # Boot BY <1>3, <2>1 DEF PollsOK
  <2>3. t \in Thread BY <1>3, <2>1 DEF PendingOK, ResumePoints
  <2> HIDE DEF t
  <2> QED BY <1>2, <2>1, <2>2, <2>3, CreatePollKeepsPolls DEF me
<1>9. ASSUME NEW t \in Thread, OSCreateThread(c, t) PROVE PollsOK'
  BY <1>2, <1>9, CreatePollKeepsPolls DEF OSCreateThread
<1>10. ASSUME NEW t \in Thread, OSResumeThread(c, t) PROVE PollsOK'
  <2>1. PICK n : __OSResumeThreadInternal(c, t, n) BY <1>10 DEF OSResumeThread
  <2>2. /\ suspendCounter[t] # 0 /\ \A u \in Thread \ {t} : suspendCounter'[u] = suspendCounter[u]
        /\ UNCHANGED <<state, resumeAt, active, host>>
    BY <1>1, <1>10, <2>1 DEF __OSResumeThreadInternal, OSResumeThread, TypeOK
  <2> QED BY <1>3, <1>4, <2>2, PollsKept
<1>11. ASSUME NEW t \in Thread, OSSuspendThread(c, t) PROVE PollsOK'
  <2>1. /\ \A j \in Thread : resumeAt[j] # Polling(t)
        /\ suspendCounter' = [suspendCounter EXCEPT ![t] = @ + 1]
        /\ UNCHANGED <<state, resumeAt, active, host>>
    BY <1>11 DEF OSSuspendThread, __OSSuspendThreadInternal, RunsOn, WellBehaved
  <2>2. \A u \in Thread \ {t} : suspendCounter'[u] = suspendCounter[u] BY <1>1, <2>1 DEF TypeOK
  <2> QED BY <1>3, <2>1, <2>2, PollsKept
<1>12. ASSUME NEW t \in Thread, OSDetachThread(c, t) PROVE PollsOK'
  BY <1>1, <1>12, QuietKeepsPolls DEF OSDetachThread, DetachLocked, TypeOK
<1>13. ASSUME NEW t \in Thread, OSJoinThread(c, t) PROVE PollsOK'
  <2>1. \A j \in Thread : resumeAt[j] # Polling(me)
    BY <1>13 DEF OSJoinThread, RunsOn, WellBehaved, me
  <2>2. CASE state[t] = "MORIBUND"
    BY <1>1, <1>13, <2>2, QuietKeepsPolls DEF OSJoinThread, EndTarget, TypeOK
  <2>3. CASE state[t] # "MORIBUND" /\ t \in detached
    BY <1>1, <1>13, <2>3, QuietKeepsPolls DEF OSJoinThread, vars, threadVars
  <2>4. CASE state[t] # "MORIBUND" /\ t \notin detached
    <3>1. /\ QueueAndWait(c, JoinQueue(t)) /\ UNCHANGED <<suspendCounter, active, host>>
          /\ resumeAt' = [resumeAt EXCEPT ![me] = Joining(t)]
      BY <1>13, <2>4 DEF OSJoinThread, me
    <3>2. \A j \in Thread : resumeAt'[j].op = "poll" => resumeAt'[j] = resumeAt[j]
      BY <1>3, <3>1 DEF Joining
    <3> QED BY <1>5, <2>1, <3>1, <3>2
  <2> QED BY <2>2, <2>3, <2>4
<1>14. ASSUME NEW t \in Thread, OSRunThread(c, t) PROVE PollsOK'
  <2>1. /\ \A j \in Thread : resumeAt[j].target # t
        /\ state' = [state EXCEPT ![t] = "READY"] /\ suspendCounter' = [suspendCounter EXCEPT ![t] = 0]
        /\ resumeAt' = [resumeAt EXCEPT ![t] = Guest]
        /\ active' = active \union {t} /\ host' = host
    BY <1>14 DEF OSRunThread, MayEnd, WellBehaved
  <2>2. \A j \in Thread : resumeAt[j] # Polling(t) BY <2>1 DEF Polling
  <2>3. \A j \in Thread : resumeAt'[j].op = "poll" => resumeAt'[j] = resumeAt[j]
    BY <1>3, <2>1 DEF Guest
  <2>4. \A u \in Thread \ {t} : suspendCounter'[u] = suspendCounter[u] /\ state'[u] = state[u]
    BY <1>1, <2>1 DEF TypeOK
  <2> QED BY <1>3, <2>1, <2>2, <2>3, <2>4, PollsKept
<1>15. CASE \/ \E t \in Thread, mask \in Affinities : OSSetThreadAffinity(c, t, mask)
            \/ \E t \in Thread, p \in Priorities : OSSetThreadPriority(c, t, p)
  BY <1>1, <1>15, QuietKeepsPolls DEF OSSetThreadAffinity, OSSetThreadPriority
<1>16. ASSUME NEW mask \in Affinities, NEW p \in Priorities, NEW det \in BOOLEAN,
              CreateThread(c, mask, p, det)
       PROVE  PollsOK'
  <2> DEFINE t == resumeAt[me].target
  <2>1. /\ resumeAt[me].op = "create"
        /\ state' = [state EXCEPT ![t] = "READY"] /\ suspendCounter' = [suspendCounter EXCEPT ![t] = 1]
        /\ resumeAt' = [resumeAt EXCEPT ![me] = Guest, ![t] = Guest]
        /\ active' = active \union {t} /\ host' = host
    BY <1>16 DEF CreateThread, me
  <2>2. t \in Thread BY <1>3, <2>1 DEF PendingOK, ResumePoints
  <2>3. \A j \in Thread : resumeAt[j] # Polling(t)
    <3>1. SUFFICES ASSUME NEW j \in Thread, resumeAt[j] = Polling(t) PROVE FALSE OBVIOUS
    <3>2. resumeAt[j].target = resumeAt[me].target /\ resumeAt[j].op = "poll" /\ resumeAt[j] # Guest
      BY <3>1 DEF Polling, Guest
    <3>3. j = me BY <1>3, <3>2 DEF PendingOK
    <3> QED BY <2>1, <3>2, <3>3
  <2> HIDE DEF t
  <2>4. \A j \in Thread : resumeAt'[j].op = "poll" => resumeAt'[j] = resumeAt[j]
    BY <1>3, <2>1, <2>2 DEF Guest
  <2>5. \A u \in Thread \ {t} : suspendCounter'[u] = suspendCounter[u] /\ state'[u] = state[u]
    BY <1>1, <2>1 DEF TypeOK
  <2> QED BY <1>3, <2>1, <2>2, <2>3, <2>4, <2>5, PollsKept
<1> QED BY <1>6, <1>7, <1>8, <1>9, <1>10, <1>11, <1>12, <1>13, <1>14, <1>15, <1>16 DEF GuestCall

LEMMA PollsInvariant ==
    ASSUME WellBehaved, IInv, TypeOK', PollsOK, [Next]_vars PROVE PollsOK'
<1>1. TypeOK BY DEF IInv
<1>2. CASE KernelStep BY <1>2, KernelKeepsPolls
<1>3. CASE HostStep BY <1>3, HostKeepsPolls
<1>4. ASSUME NEW c \in Core, IdleStep(c) \/ GuestCall(c) PROVE PollsOK'
  BY <1>4, IdleKeepsPolls, GuestKeepsPolls
<1>5. ASSUME NEW t \in Thread, TimerFires(t) PROVE PollsOK'
  BY <1>1, <1>5, QuietKeepsPolls DEF TimerFires, threadVars
<1>6. CASE UNCHANGED vars
  BY <1>1, <1>6, QuietKeepsPolls DEF vars, threadVars
<1> QED BY <1>2, <1>3, <1>4, <1>5, <1>6 DEF Next
-----------------------------------------------------------------------------
\* The invariant holds for every number of threads and cores.
THEOREM SchedulerInvariant ==
    ASSUME WellBehaved PROVE Spec => [](IInv /\ PollsOK)
<1>1. Init => PollsOK
  BY DEF Init, FreshTitle, PollsOK, Guest
<1>2. IInv /\ PollsOK /\ [Next]_vars => IInv'
  BY NextInvariant
<1>3. IInv /\ PollsOK /\ [Next]_vars => PollsOK'
  <2>1. IInv' => TypeOK' BY DEF IInv
  <2> QED BY <1>2, <2>1, PollsInvariant
<1> QED BY <1>1, <1>2, <1>3, InitInvariant, PTL DEF Spec

\* Every variable keeps its type, and the lock one of its legal values.
THEOREM TypeCorrect ==
    ASSUME WellBehaved PROVE Spec => []TypeOK
<1>1. IInv => TypeOK BY DEF IInv
<1> QED BY <1>1, SchedulerInvariant, PTL

\* A thread is linked in exactly the run queues of the cores it may be
\* dispatched on, once in each.
THEOREM RunQueuesStayExact ==
    ASSUME WellBehaved PROVE Spec => []RunQueuesExact
<1>1. IInv => RunQueuesExact BY DEF IInv
<1> QED BY <1>1, SchedulerInvariant, PTL

\* No thread runs on two cores, and no core runs guest code without one.
THEOREM NoThreadOnTwoCores ==
    ASSUME WellBehaved PROVE Spec => []OneCorePerThread
<1>1. IInv => OneCorePerThread BY DEF IInv
<1> QED BY <1>1, SchedulerInvariant, PTL

\* A WAITING thread is linked in exactly the wait queue it names.
THEOREM WaitQueuesStayExact ==
    ASSUME WellBehaved PROVE Spec => []WaitQueuesExact
<1>1. IInv => WaitQueuesExact BY DEF IInv
<1> QED BY <1>1, SchedulerInvariant, PTL

\* The active list holds exactly the threads that are not reaped.
THEOREM ActiveListStaysExact ==
    ASSUME WellBehaved PROVE Spec => []ActiveExact
<1>1. IInv => ActiveExact BY DEF IInv
<1> QED BY <1>1, SchedulerInvariant, PTL

\* The assertions of OSJoinThread hold whenever a joiner goes on.
THEOREM JoinersSeeMoribund ==
    ASSUME WellBehaved PROVE Spec => []JoinSeesMoribund
<1>1. IInv => JoinSeesMoribund
  BY JoinerFacts DEF JoinSeesMoribund
<1> QED BY <1>1, SchedulerInvariant, PTL

\* The assertion of the re-creation workaround holds, also for a thread that
\* runs when it is created again.
THEOREM RecreationSeesInactive ==
    ASSUME WellBehaved PROVE Spec => []RecreateSeesInactive
<1>1. IInv /\ PollsOK => RecreateSeesInactive
  BY DEF IInv, PendingOK, PollsOK, RecreateSeesInactive
<1> QED BY <1>1, SchedulerInvariant, PTL

\* A core is handed only a thread that may run there, the first of the most
\* urgent ones: current changes from None to a thread only in Dispatch.
LEMMA DispatchStep ==
    ASSUME IInv, NEW c \in Core, __OSGetNextRunableThread(c), core[c] = "idlePick",
           NEW d \in Core, current[d] = None, current'[d] # None
    PROVE  LET t == current'[d] IN
           /\ d \in affinity[t] /\ suspendCounter[t] = 0 /\ state[t] = "READY"
           /\ \A i, j \in DOMAIN runQueue[d] :
                 runQueue[d][i] = t =>
                   /\ priority[t] <= priority[runQueue[d][j]]
                   /\ j < i => priority[t] < priority[runQueue[d][j]]
<1>1. PICK k \in DOMAIN runQueue[c] : IsNextRunable(c, k) /\ Dispatch(c, runQueue[c][k])
  BY DEF __OSGetNextRunableThread, FindsNothing
<1> DEFINE t == runQueue[c][k]
<1>2. TypeOK /\ RunListsOK /\ host.phase # "stopped"
  BY DEF IInv, CoresJoined, RunListsOK, RunQueuesExact
<1>3. d = c /\ current'[d] = t
  BY <1>1, <1>2 DEF Dispatch, TypeOK
<1>4. t \in Thread /\ c \in currentRunQueue[t]
  BY <1>1, <1>2 DEF RunListsOK, Threads
<1>5. c \in affinity[t] /\ suspendCounter[t] = 0 /\ state[t] = "READY"
  BY <1>2, <1>4 DEF IInv, RunQueuesExact, ReadyCores
<1>6. ASSUME NEW i \in DOMAIN runQueue[c], NEW j \in DOMAIN runQueue[c], runQueue[c][i] = t
      PROVE  /\ priority[t] <= priority[runQueue[c][j]]
             /\ j < i => priority[t] < priority[runQueue[c][j]]
  <2>1. i = k BY <1>1, <1>2, <1>6 DEF RunListsOK, NoDuplicates
  <2>2. runQueue[c][j] \in Thread /\ i \in Nat /\ j \in Nat BY <1>2, <1>6 DEF TypeOK
  <2>3. priority[t] \in Nat /\ priority[runQueue[c][j]] \in Nat
    BY <1>2, <1>4, <2>2, GuestAssumption DEF TypeOK
  <2>4. \/ priority[t] < priority[runQueue[c][j]]
        \/ priority[t] = priority[runQueue[c][j]] /\ k <= j
    BY <1>1 DEF IsNextRunable
  <2> HIDE DEF t
  <2> QED BY <2>1, <2>2, <2>3, <2>4
<1> QED BY <1>3, <1>5, <1>6

\* A core is only handed the first of the most urgent threads that may run on it
\* (__OSGetNextRunableThread, coreinit_Thread.cpp).
THEOREM DispatchesInOrder ==
    ASSUME WellBehaved PROVE Spec => DispatchInOrder
<1> DEFINE InOrder == \A c \in Core :
         LET t == current'[c] IN
         current[c] = None /\ t # None =>
           /\ c \in affinity[t] /\ suspendCounter[t] = 0 /\ state[t] = "READY"
           /\ \A i, j \in DOMAIN runQueue[c] :
                 runQueue[c][i] = t =>
                   /\ priority[t] <= priority[runQueue[c][j]]
                   /\ j < i => priority[t] < priority[runQueue[c][j]]
<1>1. ASSUME IInv, Next PROVE InOrder
  <2>1. CASE \E c \in Core : __OSGetNextRunableThread(c) /\ core[c] = "idlePick"
    BY <1>1, <2>1, DispatchStep
  <2>2. CASE \A d \in Core : current'[d] \in {current[d], None}
    BY <2>2
  <2>3. \/ \E c \in Core : __OSGetNextRunableThread(c) /\ core[c] = "idlePick"
        \/ \A d \in Core : current'[d] \in {current[d], None}
    <3>1. CASE KernelStep
      <4>1. CASE PickNext
        <5>1. kernel.holder \in Core /\ core[kernel.holder] = "idlePick"
          BY <1>1, <4>1 DEF IInv, TypeOK, KernelOK, PickNext, Kernels, Unlocked
        <5> QED BY <4>1, <5>1 DEF PickNext
      <4>2. CASE StoreThread
        BY <1>1, <4>2 DEF StoreThread, IInv, TypeOK
      <4>3. CASE WakeNext \/ ExitTail \/ JoinTail
        BY <4>3 DEF WakeNext, ExitTail, JoinTail, coreVars
      <4> QED BY <3>1, <4>1, <4>2, <4>3 DEF KernelStep
    <3>2. CASE HostStep
      BY <3>2 DEF HostStep, OSSchedulerEnd, EndWakesCore, EndJoinsCores,
         __OSDeleteAllActivePPCThreads, StartNextTitle, FreshTitle, coreVars
    <3>3. ASSUME NEW c \in Core, IdleStep(c)
          PROVE  \/ __OSGetNextRunableThread(c) /\ core[c] = "idlePick"
                 \/ current' = current
      BY <3>3 DEF IdleStep, IdleCheck, IdlePick, WaitUntilNonZero, EventsDone, LeaveFiber
    <3>4. ASSUME NEW c \in Core, GuestCall(c) PROVE current' = current
      BY <3>4 DEF GuestCall, OSYieldThread, OSSleepTicks, OSExitThread, PollAgain, OSSleepThread,
         OSWakeupThread, OSResumeThread, OSSuspendThread, OSDetachThread, OSJoinThread,
         OSCreateThread, OSRunThread, OSSetThreadAffinity, OSSetThreadPriority, CreateThread,
         CreatePoll, DetachLocked, coreVars, vars
    <3>5. ASSUME NEW t \in Thread, TimerFires(t) PROVE current' = current
      BY <3>5 DEF TimerFires, coreVars
    <3> QED BY <1>1, <3>1, <3>2, <3>3, <3>4, <3>5 DEF Next
  <2> QED BY <2>1, <2>2, <2>3
<1>2. IInv /\ [Next]_vars => [InOrder]_vars BY <1>1
<1> QED BY <1>2, SchedulerInvariant, PTL DEF Spec, DispatchInOrder
-----------------------------------------------------------------------------
(* The counters: a move changes a list and its counter by the same amount.  *)

Lockstep ==
    \A c \in Core : runQueueCount'[c] - Len(runQueue'[c]) = runQueueCount[c] - Len(runQueue[c])

\* Whatever leaves the run queues alone leaves the counters in step.
LEMMA StillLockstep ==
    ASSUME UNCHANGED runVars PROVE Lockstep
BY DEF runVars, Lockstep

\* A thread that joins the run queues it is missing from.
LEMMA AddLockstep ==
    ASSUME IInv, host.phase # "stopped", NEW t \in Thread, TypeOK', __OSAddReadyThreadToRunQueue(t)
    PROVE  Lockstep
<1> DEFINE on == ReadyCores(state'[t], suspendCounter'[t], affinity'[t], currentRunQueue[t])
<1>1. RunTypes /\ RunListsOK
  BY DEF IInv, TypeOK, RunTypes, RunListsOK, RunQueuesExact
<1>2. on \in SUBSET Core /\ on \intersect (currentRunQueue[t] \ {}) = {}
  BY DEF TypeOK, ReadyCores
<1>3. MoveOnRunQueues(t, {}, on)
  BY DEF __OSAddReadyThreadToRunQueue
<1> HIDE DEF on
<1> QED BY <1>1, <1>2, <1>3, MoveOnRunQueuesProperties DEF Lockstep

\* A thread that leaves the run queues it is linked in.
LEMMA RemoveLockstep ==
    ASSUME IInv, host.phase # "stopped", NEW t \in Thread, __OSRemoveThreadFromRunQueues(t)
    PROVE  Lockstep
<1>1. RunTypes /\ RunListsOK
  BY DEF IInv, TypeOK, RunTypes, RunListsOK, RunQueuesExact
<1>2. /\ {} \in SUBSET Core /\ currentRunQueue[t] \in SUBSET currentRunQueue[t]
      /\ {} \intersect (currentRunQueue[t] \ currentRunQueue[t]) = {}
  OBVIOUS
<1>3. MoveOnRunQueues(t, currentRunQueue[t], {})
  BY DEF __OSRemoveThreadFromRunQueues
<1> QED BY <1>1, <1>2, <1>3, MoveOnRunQueuesProperties DEF Lockstep

\* The choice of the next thread, from the idle loop or with the lock.
LEMMA PickLockstep ==
    ASSUME IInv, NEW c \in Core, core[c] = "idlePick", __OSGetNextRunableThread(c)
    PROVE  Lockstep
<1>1. host.phase # "stopped"
  BY DEF IInv, CoresJoined
<1>2. CASE FindsNothing(c)
  BY <1>2, StillLockstep DEF FindsNothing
<1>3. ASSUME NEW i \in DOMAIN runQueue[c], Dispatch(c, runQueue[c][i]) PROVE Lockstep
  <2>1. runQueue[c][i] \in Thread
    BY DEF IInv, TypeOK
  <2> QED BY <1>1, <1>3, <2>1, RemoveLockstep DEF Dispatch
<1> QED BY <1>2, <1>3 DEF __OSGetNextRunableThread

\* The steps of the lock holder.
LEMMA KernelLockstep ==
    ASSUME IInv, IInv', KernelStep PROVE Lockstep
<1>1. kernel.holder # None
  BY DEF KernelStep, WakeNext, StoreThread, PickNext, ExitTail, JoinTail, IInv, KernelOK, Unlocked
<1>2. kernel.holder \in Core
  BY <1>1 DEF IInv, TypeOK, Kernels
<1>3. core[kernel.holder] \in {"idlePick", "guest", "events"} /\ host.phase # "stopped"
  BY <1>1, <1>2 DEF IInv, KernelOK, CoresJoined
<1>4. TypeOK /\ TypeOK'
  BY DEF IInv
<1>5. CASE WakeNext
  <2>1. CASE waitQueue[kernel.wake] = <<>>
    BY <1>5, <2>1, StillLockstep DEF WakeNext
  <2>2. CASE waitQueue[kernel.wake] # <<>>
    <3>1. kernel.wake \in WaitQueues /\ waitQueue[kernel.wake] \in Seq(Thread)
      BY <1>4, <1>5 DEF WakeNext, TypeOK, Kernels
    <3>2. Head(waitQueue[kernel.wake]) \in Thread
      BY <2>2, <3>1
    <3>3. __OSAddReadyThreadToRunQueue(Head(waitQueue[kernel.wake]))
      BY <1>5, <2>2 DEF WakeNext
    <3> QED BY <1>3, <1>4, <3>2, <3>3, AddLockstep
  <2> QED BY <2>1, <2>2
<1>6. CASE StoreThread
  <2>1. core[kernel.holder] = "guest"
    BY <1>1, <1>6 DEF StoreThread, IInv, KernelOK
  <2>2. current[kernel.holder] \in Thread
    BY <1>2, <1>4, <2>1, ThreadAssumption DEF IInv, OneCorePerThread, TypeOK
  <2> QED BY <1>3, <1>4, <1>6, <2>2, AddLockstep DEF StoreThread
<1>7. CASE PickNext
  <2>1. core[kernel.holder] = "idlePick"
    BY <1>1, <1>7 DEF PickNext, IInv, KernelOK
  <2> QED BY <1>2, <1>7, <2>1, PickLockstep DEF PickNext
<1>8. CASE ExitTail
  BY <1>8, StillLockstep DEF ExitTail
<1>9. CASE JoinTail
  <2>1. resumeAt[current[kernel.holder]].target \in Thread
    BY <1>9, JoinerFacts DEF JoinTail
  <2> QED BY <1>3, <1>9, <2>1, RemoveLockstep DEF JoinTail, EndTarget
<1> QED BY <1>5, <1>6, <1>7, <1>8, <1>9 DEF KernelStep

\* The calls of the guest.
LEMMA GuestLockstep ==
    ASSUME IInv, IInv', WellBehaved, NEW c \in Core, GuestCall(c) PROVE Lockstep
<1>1. core[c] = "guest" /\ kernel = Unlocked
  BY DEF GuestCall, OSYieldThread, OSSleepTicks, OSExitThread, PollAgain, OSSleepThread,
     OSWakeupThread, OSResumeThread, OSSuspendThread, OSDetachThread, OSJoinThread,
     OSCreateThread, OSRunThread, OSSetThreadAffinity, OSSetThreadPriority, CreateThread, Calls
<1>2. host.phase # "stopped" /\ TypeOK /\ TypeOK' /\ RunTypes /\ RunListsOK
  BY <1>1, CallFacts DEF IInv, TypeOK, RunTypes, RunListsOK, RunQueuesExact
<1>3. ASSUME NEW t \in Thread, OSResumeThread(c, t) PROVE Lockstep
  <2>1. PICK count \in {1, suspendCounter[t]} : __OSResumeThreadInternal(c, t, count)
    BY <1>3 DEF OSResumeThread
  <2> QED BY <1>2, <2>1, AddLockstep, StillLockstep DEF __OSResumeThreadInternal
<1>4. ASSUME NEW t \in Thread, OSSuspendThread(c, t) PROVE Lockstep
  BY <1>2, <1>4, RemoveLockstep, StillLockstep DEF OSSuspendThread, __OSSuspendThreadInternal
<1>5. ASSUME NEW t \in Thread, OSJoinThread(c, t) PROVE Lockstep
  BY <1>2, <1>5, RemoveLockstep, StillLockstep DEF OSJoinThread, EndTarget, vars
<1>6. ASSUME NEW t \in Thread, OSRunThread(c, t) PROVE Lockstep
  <2> DEFINE off == IF state[t] = "MORIBUND" THEN currentRunQueue[t] ELSE {}
             on  == affinity[t] \ (currentRunQueue[t] \ off)
  <2>1. MoveOnRunQueues(t, off, on)
    BY <1>6 DEF OSRunThread
  <2>2. /\ off \in SUBSET currentRunQueue[t] /\ on \in SUBSET Core
        /\ on \intersect (currentRunQueue[t] \ off) = {}
    BY <1>2 DEF TypeOK
  <2> HIDE DEF off, on
  <2> QED BY <1>2, <2>1, <2>2, MoveOnRunQueuesProperties DEF Lockstep
<1>7. ASSUME NEW t \in Thread, NEW mask \in Affinities, OSSetThreadAffinity(c, t, mask)
      PROVE Lockstep
  <2> DEFINE on == ReadyCores(state[t], suspendCounter[t], mask, {})
  <2>1. \/ UNCHANGED runVars
        \/ MoveOnRunQueues(t, currentRunQueue[t], on)
    BY <1>7 DEF OSSetThreadAffinity
  <2>2. /\ currentRunQueue[t] \in SUBSET currentRunQueue[t] /\ on \in SUBSET Core
        /\ on \intersect (currentRunQueue[t] \ currentRunQueue[t]) = {}
    BY GuestAssumption DEF ReadyCores
  <2> HIDE DEF on
  <2> QED BY <1>2, <2>1, <2>2, MoveOnRunQueuesProperties, StillLockstep DEF Lockstep
<1>8. ASSUME UNCHANGED <<runQueue, runQueueCount>> PROVE Lockstep
  BY <1>8 DEF Lockstep
<1>9. ASSUME NEW t \in Thread, OSDetachThread(c, t) \/ OSCreateThread(c, t) PROVE Lockstep
  BY <1>8, <1>9 DEF OSDetachThread, OSCreateThread, CreatePoll, DetachLocked, runVars
<1>10. ASSUME NEW t \in Thread, NEW p \in Priorities, OSSetThreadPriority(c, t, p) PROVE Lockstep
  BY <1>8, <1>10 DEF OSSetThreadPriority, runVars
<1>11. ASSUME NEW mask \in Affinities, NEW p \in Priorities, NEW det \in BOOLEAN,
              CreateThread(c, mask, p, det)
       PROVE Lockstep
  BY <1>8, <1>11 DEF CreateThread
<1>12. ASSUME NEW q \in UserQueue, OSSleepThread(c, q) \/ OSWakeupThread(c, q) PROVE Lockstep
  BY <1>8, <1>12 DEF OSSleepThread, OSWakeupThread, runVars
<1>13. CASE OSYieldThread(c) \/ OSSleepTicks(c) \/ OSExitThread(c) \/ PollAgain(c)
  BY <1>8, <1>13 DEF OSYieldThread, OSSleepTicks, OSExitThread, PollAgain, CreatePoll,
     DetachLocked, runVars
<1> QED BY <1>3, <1>4, <1>5, <1>6, <1>7, <1>9, <1>10, <1>11, <1>12, <1>13 DEF GuestCall

\* The counters count on from title to title, and titles are numbered from 1.
Counted == CountersExact /\ host.titles >= 1

\* Steps that change list and counter together keep the surplus.
LEMMA LockstepCounted ==
    ASSUME IInv, IInv', Counted, Lockstep, UNCHANGED host PROVE Counted'
<1>1. ASSUME NEW c \in Core
      PROVE runQueueCount'[c] - Len(runQueue'[c]) = runQueueCount[c] - Len(runQueue[c])
  BY DEF Lockstep
<1> QED BY <1>1 DEF Counted, CountersExact

\* The steps of the host change the counters without the lists.
LEMMA HostCounted ==
    ASSUME IInv, IInv', Counted, HostStep PROVE Counted'
<1>1. /\ TypeOK /\ host.titles \in Nat
      /\ \A c \in Core : runQueueCount[c] \in Int /\ Len(runQueue[c]) \in Nat
  BY DEF IInv, TypeOK
<1> DEFINE surplus(c) == runQueueCount[c] - Len(runQueue[c])
<1>2. \A c \in Core : /\ surplus(c) >= IF host.phase = "running" \/ c \in host.todo THEN 0 ELSE 1
                      /\ host.titles = 1 =>
                           surplus(c) = IF host.phase = "running" \/ c \in host.todo THEN 0 ELSE 1
  BY DEF Counted, CountersExact
<1>3. CASE OSSchedulerEnd
  BY <1>1, <1>2, <1>3 DEF OSSchedulerEnd, Counted, CountersExact, runVars, TypeOK
<1>4. ASSUME NEW d \in Core, EndWakesCore(d) PROVE Counted'
  <2>1. /\ runQueueCount' = [runQueueCount EXCEPT ![d] = @ + 1] /\ runQueue' = runQueue
        /\ host.phase = "ending" /\ d \in host.todo
        /\ host'.phase # "running" /\ host'.todo = host.todo \ {d} /\ host'.titles = host.titles
    BY <1>1, <1>4 DEF EndWakesCore, TypeOK
  <2>2. ASSUME NEW c \in Core
        PROVE LET s == runQueueCount'[c] - Len(runQueue'[c]) IN
              /\ s >= IF host'.phase = "running" \/ c \in host'.todo THEN 0 ELSE 1
              /\ host'.titles = 1 => s = IF host'.phase = "running" \/ c \in host'.todo THEN 0 ELSE 1
    <3>1. CASE c = d BY <1>1, <1>2, <2>1, <3>1 DEF TypeOK
    <3>2. CASE c # d BY <1>1, <1>2, <2>1, <3>2 DEF TypeOK
    <3> QED BY <3>1, <3>2
  <2> QED BY <2>1, <2>2 DEF Counted, CountersExact
<1>5. CASE EndJoinsCores \/ __OSDeleteAllActivePPCThreads
  BY <1>1, <1>2, <1>5 DEF EndJoinsCores, __OSDeleteAllActivePPCThreads, Counted, CountersExact,
     runVars, TypeOK
<1>6. CASE StartNextTitle
  <2>1. /\ runQueueCount' = [runQueueCount EXCEPT ![MainCore] = @ + 1]
        /\ runQueue' = [c \in Core |-> IF c = MainCore THEN <<Boot>> ELSE <<>>]
        /\ host'.titles = host.titles + 1 /\ host.titles >= 1 /\ host'.phase = "running"
    BY <1>6 DEF StartNextTitle, FreshTitle, Counted
  <2>2. \A c \in Core : runQueueCount'[c] - Len(runQueue'[c]) >= 0
    <3>1. \A c \in Core : runQueueCount[c] >= 0 BY <1>1, <1>2
    <3> QED BY <1>1, <2>1, <3>1, CoreAssumption DEF TypeOK
  <2> QED BY <1>1, <2>1, <2>2 DEF Counted, CountersExact
<1> QED BY <1>3, <1>4, <1>5, <1>6 DEF HostStep

\* Every step keeps the counters exact.
LEMMA NextCounted ==
    ASSUME WellBehaved, IInv, IInv', Counted, [Next]_vars PROVE Counted'
<1>1. CASE KernelStep
  <2>1. UNCHANGED host
    BY <1>1 DEF KernelStep, WakeNext, StoreThread, PickNext, ExitTail, JoinTail,
       __OSGetNextRunableThread, FindsNothing, Dispatch
  <2> QED BY <1>1, <2>1, KernelLockstep, LockstepCounted
<1>2. CASE HostStep BY <1>2, HostCounted
<1>3. ASSUME NEW c \in Core, IdleStep(c) PROVE Counted'
  <2>1. CASE IdlePick(c)
    BY <2>1, PickLockstep, LockstepCounted DEF IdlePick, __OSGetNextRunableThread, FindsNothing,
       Dispatch
  <2>2. CASE IdleCheck(c) \/ WaitUntilNonZero(c) \/ EventsDone(c) \/ LeaveFiber(c)
    BY <2>2, StillLockstep, LockstepCounted DEF IdleCheck, WaitUntilNonZero, EventsDone, LeaveFiber
  <2> QED BY <1>3, <2>1, <2>2 DEF IdleStep
<1>4. ASSUME NEW c \in Core, GuestCall(c) PROVE Counted'
  <2>1. UNCHANGED host
    BY <1>4 DEF GuestCall, OSYieldThread, OSSleepTicks, OSExitThread, PollAgain, OSSleepThread,
       OSWakeupThread, OSResumeThread, OSSuspendThread, OSDetachThread, OSJoinThread,
       OSCreateThread, OSRunThread, OSSetThreadAffinity, OSSetThreadPriority, CreateThread,
       CreatePoll, DetachLocked, vars
  <2> QED BY <1>4, <2>1, GuestLockstep, LockstepCounted
<1>5. ASSUME NEW t \in Thread, TimerFires(t) PROVE Counted'
  BY <1>5, StillLockstep, LockstepCounted DEF TimerFires
<1>6. CASE UNCHANGED vars
  BY <1>6, StillLockstep, LockstepCounted DEF vars
<1> QED BY <1>1, <1>2, <1>3, <1>4, <1>5, <1>6 DEF Next

\* No core ever misses a thread of its run queue for want of a count, and in
\* the first title the counters are exact (g_coreRunQueueThreadCount).
THEOREM CountersStayExact ==
    ASSUME WellBehaved PROVE Spec => []CountersExact
<1>1. Init => Counted
  BY CoreAssumption DEF Init, FreshTitle, Counted, CountersExact
<1>2. IInv /\ IInv' /\ Counted /\ [Next]_vars => Counted'
  BY NextCounted
<1>3. Counted => CountersExact
  BY DEF Counted
<1> QED BY <1>1, <1>2, <1>3, SchedulerInvariant, PTL DEF Spec

\* A host thread that blocks in waitUntilNonZero is not left there while it has
\* something to do: a thread to run, or, once OSSchedulerEnd joins the host
\* threads, its own end.  The main core is never found there.
IdleCoresSeeWork ==
    \A c \in Core :
      core[c] = "waitNonZero" =>
        /\ c # MainCore
        /\ runQueue[c] # <<>> \/ host.phase = "joining" => runQueueCount[c] # 0

\* The main core polls, the others block; and OSSchedulerEnd joins the host
\* threads when it has been at every core.
RolesOK ==
    /\ \A c \in Core : core[c] = "waitNonZero" => c # MainCore
    /\ host.phase # "ending" => host.todo = {}

LEMMA RolesInvariant ==
    ASSUME IInv, RolesOK, [Next]_vars PROVE RolesOK'
<1>1. ASSUME NEW c \in Core PROVE AfterPick(c) = "waitNonZero" => c # MainCore
  BY <1>1 DEF AfterPick
<1>2. core \in [Core -> CoreModes] /\ host.todo \subseteq Core
  BY DEF IInv, TypeOK
<1>3. ASSUME NEW c \in Core, NEW mode, mode = "waitNonZero" => c # MainCore,
             core' = [core EXCEPT ![c] = mode], UNCHANGED host
      PROVE  RolesOK'
  BY <1>2, <1>3 DEF RolesOK
<1>4. ASSUME UNCHANGED <<core, host>> PROVE RolesOK'
  BY <1>4 DEF RolesOK
<1>5. ASSUME NEW c \in Core, __OSGetNextRunableThread(c) PROVE RolesOK'
  <2>1. CASE FindsNothing(c) BY <1>1, <1>3, <2>1 DEF FindsNothing
  <2>2. ASSUME NEW t, Dispatch(c, t) PROVE RolesOK' BY <1>3, <2>2 DEF Dispatch
  <2> QED BY <1>5, <2>1, <2>2 DEF __OSGetNextRunableThread
<1>6. CASE KernelStep
  <2>1. CASE WakeNext \/ ExitTail \/ JoinTail
    BY <1>4, <2>1 DEF WakeNext, ExitTail, JoinTail, coreVars
  <2>2. kernel.holder \in Core \/ kernel = Unlocked
    BY DEF IInv, TypeOK, KernelOK, Kernels
  <2>3. CASE StoreThread
    <3>1. kernel.holder \in Core BY <2>2, <2>3 DEF StoreThread, Unlocked
    <3> DEFINE mode == IF ~host.active THEN "leaving"
                       ELSE IF kernel.holder = MainCore THEN "events" ELSE "idlePick"
    <3>2. core' = [core EXCEPT ![kernel.holder] = mode] /\ UNCHANGED host
      BY <2>3 DEF StoreThread
    <3>3. mode # "waitNonZero" OBVIOUS
    <3> HIDE DEF mode
    <3> QED BY <1>3, <3>1, <3>2, <3>3
  <2>4. CASE PickNext
    BY <1>5, <2>2, <2>4 DEF PickNext, Unlocked
  <2> QED BY <1>6, <2>1, <2>3, <2>4 DEF KernelStep
<1>7. CASE HostStep
  <2>1. CASE OSSchedulerEnd \/ EndJoinsCores \/ __OSDeleteAllActivePPCThreads
    BY <1>2, <2>1 DEF OSSchedulerEnd, EndJoinsCores, __OSDeleteAllActivePPCThreads, RolesOK,
       coreVars, IInv, TypeOK
  <2>2. CASE StartNextTitle
    BY <2>2 DEF StartNextTitle, FreshTitle, RolesOK
  <2>3. ASSUME NEW c \in Core, EndWakesCore(c) PROVE RolesOK'
    <3>1. /\ core' = core /\ host.phase = "ending"
          /\ host'.todo = host.todo \ {c}
          /\ host'.phase = IF host.todo = {c} THEN "joining" ELSE "ending"
      BY <1>2, <2>3 DEF EndWakesCore, coreVars, IInv, TypeOK
    <3> QED BY <3>1 DEF RolesOK
  <2> QED BY <1>7, <2>1, <2>2, <2>3 DEF HostStep
<1>8. ASSUME NEW c \in Core, IdleStep(c) PROVE RolesOK'
  BY <1>1, <1>3, <1>5, <1>8 DEF IdleStep, IdleCheck, IdlePick, WaitUntilNonZero, EventsDone, LeaveFiber
<1>9. ASSUME NEW c \in Core, GuestCall(c) PROVE RolesOK'
  BY <1>4, <1>9 DEF GuestCall, OSYieldThread, OSSleepTicks, OSExitThread, PollAgain, OSSleepThread,
     OSWakeupThread, OSResumeThread, OSSuspendThread, OSDetachThread, OSJoinThread,
     OSCreateThread, OSRunThread, OSSetThreadAffinity, OSSetThreadPriority, CreateThread,
     CreatePoll, DetachLocked, coreVars, vars
<1>10. ASSUME NEW t \in Thread, TimerFires(t) PROVE RolesOK'
  BY <1>4, <1>10 DEF TimerFires, coreVars
<1>11. CASE UNCHANGED vars BY <1>4, <1>11 DEF vars, coreVars
<1> QED BY <1>6, <1>7, <1>8, <1>9, <1>10, <1>11 DEF Next

\* No wake-up of an idle core is lost (CounterSemaphore, OSSchedulerEnd), in
\* whatever order the cores pass the lock and the host raises the counters.
THEOREM NoWakeupOfACoreIsLost ==
    ASSUME WellBehaved PROVE Spec => []IdleCoresSeeWork
<1>1. IInv /\ CountersExact /\ RolesOK => IdleCoresSeeWork
  <2>1. SUFFICES ASSUME IInv, CountersExact, RolesOK, NEW c \in Core, core[c] = "waitNonZero"
                 PROVE  /\ c # MainCore
                        /\ runQueue[c] # <<>> \/ host.phase = "joining" => runQueueCount[c] # 0
    BY DEF IdleCoresSeeWork
  <2>2. c # MainCore BY <2>1 DEF RolesOK
  <2>3. /\ runQueue[c] \in Seq(Thread) /\ Len(runQueue[c]) \in Nat /\ runQueueCount[c] \in Int
        /\ runQueueCount[c] - Len(runQueue[c]) >= IF host.phase = "running" \/ c \in host.todo THEN 0 ELSE 1
    BY <2>1 DEF IInv, TypeOK, CountersExact
  <2>4. CASE runQueue[c] # <<>>
    <3>1. Len(runQueue[c]) > 0 BY <2>3, <2>4
    <3> QED BY <2>2, <2>3, <3>1
  <2>5. CASE runQueue[c] = <<>> /\ host.phase = "joining"
    <3>1. host.todo = {} BY <2>1, <2>5 DEF RolesOK
    <3> QED BY <2>2, <2>3, <2>5, <3>1
  <2> QED BY <2>2, <2>4, <2>5
<1>2. Init => RolesOK
  BY DEF Init, FreshTitle, RolesOK
<1>3. IInv /\ RolesOK /\ [Next]_vars => RolesOK'
  BY RolesInvariant
<1> QED BY <1>1, <1>2, <1>3, CountersStayExact, SchedulerInvariant, PTL DEF Spec
=============================================================================
