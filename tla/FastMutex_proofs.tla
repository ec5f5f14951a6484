-------------------------- MODULE FastMutex_proofs --------------------------
(***************************************************************************)
(* The invariants of FastMutex for any number of threads and cores.        *)
(* Mutual exclusion and the discipline of the spinlock hold whatever the   *)
(* threads do.  That no waiter is left behind holds as long as no thread   *)
(* is at the spinlock while OSFastCond_Wait releases the mutex (~Race).    *)
(***************************************************************************)
EXTENDS FastMutex, ThreadQueue_proofs, TLAPS

\* Where a thread is in a call decides which locks it holds, whether it has a
\* core, and whether it has a count to restore.
PlacesOK ==
    \A t \in Thread :
       /\ pc[t] \in {"lock", "enqueue", "unlock", "released", "restore"} => t \in running
       /\ pc[t] \in {"blocked", "waiting"} => t \notin running
       /\ spinlock = t <=> pc[t] \in {"enqueue", "unlock"}
       /\ scheduler = t <=> pc[t] = "released"
       /\ pc[t] \in {"guest", "unlock"} => prevLockCount[t] = 0
       /\ pc[t] \in {"released", "waiting", "restore"} => prevLockCount[t] # 0
       /\ pc[t] \in {"lock", "enqueue", "blocked"} /\ prevLockCount[t] = 0
             => nesting[t] < MaxNest

IInv == TypeOK /\ LocksExact /\ PlacesOK

\* Without the race the mutex is not released under a thread that has seen it
\* locked, and not taken and unlocked before its waiters are awake.
Orderly ==
    /\ UnlockFindsWaiter /\ NoWaiterLeft
    /\ \A t \in Thread : pc[t] = "enqueue" => owner # None
    /\ spinlock # None => \A t \in Thread : pc[t] # "released"
-----------------------------------------------------------------------------
(* Queues.                                                                  *)

\* addThreadByPriority links the thread once.
LEMMA InsertedProperties ==
    ASSUME NEW q \in Seq(Thread), NoDuplicates(q), NEW t \in Thread, t \notin Threads(q),
           NEW after, InsertedByPriority(q, t, after)
    PROVE  /\ after \in Seq(Thread) /\ NoDuplicates(after)
           /\ Threads(after) = Threads(q) \union {t}
<1>1. PICK i \in 0 .. Len(q) : after = insertBehind(q, i, t)
  BY DEF InsertedByPriority
<1> QED BY <1>1, InsertBehindProperties

\* A queue that has been emptied.
LEMMA EmptyProperties ==
    <<>> \in Seq(Thread) /\ NoDuplicates(<<>>) /\ Threads(<<>>) = {}
BY DEF NoDuplicates, Threads

\* The parts of TypeOK that say what kind of value each variable has.
Types ==
    /\ owner \in Thread \union {None} /\ lockCount \in 0 .. MaxNest
    /\ mutexQueue \in Seq(Thread) /\ condQueue \in Seq(Thread)
    /\ NoDuplicates(mutexQueue) /\ NoDuplicates(condQueue)
    /\ spinlock \in Thread \union {None} /\ scheduler \in Thread \union {None}
    /\ pc \in [Thread -> Places]
    /\ prevLockCount \in [Thread -> 0 .. MaxNest]
    /\ running \subseteq Thread
    /\ nesting \in [Thread -> 0 .. MaxNest]

\* The parts that say where queued threads are.
Queued ==
    /\ \A t \in Threads(mutexQueue) : pc[t] = "blocked" /\ t \notin running
    /\ \A t \in Threads(condQueue) : pc[t] = "waiting" /\ t \notin running

\* TypeOK is made of the two.
LEMMA TypeParts == (TypeOK <=> Types /\ Queued) /\ (TypeOK' <=> Types' /\ Queued')
BY DEF TypeOK, Types, Queued
-----------------------------------------------------------------------------
(* The steps of the threads.                                                *)

\* Steps that leave the owner and the counts alone.
LEMMA SwitchInvariant ==
    ASSUME IInv, NEW t \in Thread,
           \/ Preempt(t) \/ Dispatch(t) \/ OSFastMutex_Lock(t) \/ WakeOne(t)
           \/ OSFastCond_Signal(t)
    PROVE  IInv'
<1>1. Types /\ Queued /\ LocksExact /\ PlacesOK
  BY TypeParts DEF IInv
<1>2. UNCHANGED <<owner, lockCount, nesting, prevLockCount>>
  BY DEF Preempt, Dispatch, OSFastMutex_Lock, WakeOne, OSFastCond_Signal, mutexVars
<1>3. LocksExact'
  <2>1. pc[t] # "restore"
    BY <1>1 DEF Preempt, Dispatch, OSFastMutex_Lock, WakeOne, OSFastCond_Signal, At, PlacesOK,
       Types
  <2>2. \A u \in Thread : pc'[u] = "restore" <=> pc[u] = "restore"
    BY <1>1, <2>1 DEF Preempt, Dispatch, OSFastMutex_Lock, WakeOne, OSFastCond_Signal, Goes, Types
  <2> QED BY <1>1, <1>2, <2>2 DEF LocksExact
<1>4. Types' /\ Queued' /\ PlacesOK'
  <2>1. CASE Preempt(t)
    BY <1>1, <2>1 DEF Preempt, At, Types, Queued, PlacesOK, mutexVars, queues
  <2>2. CASE Dispatch(t)
    BY <1>1, <2>2 DEF Dispatch, Goes, Types, Queued, PlacesOK, Places, mutexVars, queues
  <2>3. CASE OSFastMutex_Lock(t)
    BY <1>1, <2>3 DEF OSFastMutex_Lock, At, Goes, Types, Queued, PlacesOK, Places, mutexVars, queues
  <2>4. CASE WakeOne(t)
    <3>1. /\ mutexQueue' \in Seq(Thread) /\ NoDuplicates(mutexQueue')
          /\ Threads(mutexQueue') \subseteq Threads(mutexQueue)
      <4>1. CASE mutexQueue = <<>>
        BY <1>1, <2>4, <4>1 DEF WakeOne, Types
      <4>2. CASE mutexQueue # <<>>
        BY <1>1, <2>4, <4>2, TakeFirstProperties DEF WakeOne, Types
      <4> QED BY <4>1, <4>2
    <3>2. /\ pc[t] = "unlock" /\ t \in running /\ spinlock' = None
          /\ pc' = [pc EXCEPT ![t] = "guest"]
          /\ UNCHANGED <<mutexVars, condQueue, scheduler, prevLockCount, running>>
      BY <2>4 DEF WakeOne, At, Goes
    <3>3. Types'
      BY <1>1, <3>1, <3>2 DEF Types, Places, mutexVars
    <3>4. Queued'
      BY <1>1, <3>1, <3>2 DEF Types, Queued
    <3>5. PlacesOK'
      <4>1. \A u \in Thread : u # t => pc[u] \notin {"enqueue", "unlock"}
        BY <1>1, <3>2 DEF PlacesOK
      <4> QED BY <1>1, <3>2, <4>1, FastMutexAssumption DEF PlacesOK, Types, mutexVars
    <3> QED BY <3>3, <3>4, <3>5
  <2>5. CASE OSFastCond_Signal(t)
    BY <1>1, <2>5, EmptyProperties DEF OSFastCond_Signal, Types, Queued, PlacesOK, mutexVars
  <2> QED BY <2>1, <2>2, <2>3, <2>4, <2>5
<1> QED BY <1>3, <1>4, TypeParts DEF IInv

\* OSFastMutex_LockInternal gets the mutex, or keeps the spinlock to wait.
LEMMA TryInvariant ==
    ASSUME IInv, NEW t \in Thread, TryOwner(t) \/ OSFastMutex_TryLock(t)
    PROVE  IInv'
<1>1. Types /\ Queued /\ LocksExact /\ PlacesOK /\ None \notin Thread
  BY TypeParts, FastMutexAssumption DEF IInv
<1>2. /\ spinlock = None /\ t \in running /\ pc[t] \in {"guest", "lock"}
      /\ UNCHANGED <<mutexQueue, condQueue, scheduler, running>>
  BY DEF TryOwner, OSFastMutex_TryLock, At, SpinlockFree, queues
<1>3. CASE TryOwner(t) /\ owner \notin {None, t}
  <2>1. /\ spinlock' = t /\ pc' = [pc EXCEPT ![t] = "enqueue"] /\ pc[t] = "lock"
        /\ UNCHANGED <<owner, lockCount, nesting, prevLockCount>>
    BY <1>3 DEF TryOwner, Goes, At, mutexVars
  <2>2. Types' BY <1>1, <1>2, <2>1 DEF Types, Places
  <2>3. Queued' BY <1>1, <1>2, <2>1 DEF Types, Queued
  <2>4. LocksExact' BY <1>1, <2>1 DEF LocksExact, Types
  <2>5. PlacesOK' BY <1>1, <1>2, <2>1 DEF Types, PlacesOK
  <2> QED BY <2>2, <2>3, <2>4, <2>5, TypeParts DEF IInv
<1>4. CASE (TryOwner(t) /\ owner \in {None, t}) \/ OSFastMutex_TryLock(t)
  <2>1. /\ owner \in {None, t} /\ owner' = t /\ UNCHANGED <<spinlock, prevLockCount>>
        /\ pc' = [pc EXCEPT ![t] = IF prevLockCount[t] # 0 THEN "restore" ELSE "guest"]
        /\ nesting' = [nesting EXCEPT ![t] = IF prevLockCount[t] # 0 THEN @ ELSE @ + 1]
        /\ lockCount' = IF owner # None THEN lockCount + 1 ELSE 1
        /\ prevLockCount[t] = 0 => nesting[t] < MaxNest
        /\ pc[t] # "restore"
    <3>1. CASE TryOwner(t) /\ owner \in {None, t}
      BY <1>1, <3>1 DEF TryOwner, Goes, At, PlacesOK, Types
    <3>2. CASE OSFastMutex_TryLock(t)
      <4>1. pc[t] = "guest" /\ prevLockCount[t] = 0
        BY <1>1, <3>2 DEF OSFastMutex_TryLock, At, PlacesOK
      <4> QED BY <1>1, <3>2, <4>1 DEF OSFastMutex_TryLock, Types
    <3> QED BY <1>4, <3>1, <3>2
  <2>2. /\ nesting[t] \in 0 .. MaxNest /\ prevLockCount[t] \in 0 .. MaxNest
        /\ MaxNest \in Nat /\ MaxNest >= 1
    BY <1>1, FastMutexAssumption DEF Types
  <2>3. /\ nesting'[t] \in 1 .. MaxNest /\ lockCount' \in 1 .. MaxNest
        /\ nesting' = [nesting EXCEPT ![t] = nesting'[t]]
        /\ prevLockCount[t] = 0 => lockCount' = nesting'[t]
        /\ prevLockCount[t] # 0 => nesting'[t] = prevLockCount[t]
    <3>1. nesting'[t] = IF prevLockCount[t] # 0 THEN nesting[t] ELSE nesting[t] + 1
      BY <1>1, <2>1 DEF Types
    <3>2. CASE owner = t
      <4>1. prevLockCount[t] = 0 /\ lockCount = nesting[t]
        BY <1>1, <2>1, <3>2 DEF LocksExact
      <4> QED BY <1>1, <2>1, <2>2, <3>1, <3>2, <4>1 DEF Types
    <3>3. CASE owner = None
      <4>1. CASE prevLockCount[t] = 0
        <5>1. nesting[t] = 0 BY <1>1, <2>2, <3>3, <4>1 DEF LocksExact
        <5> QED BY <1>1, <2>1, <2>2, <3>1, <3>3, <4>1, <5>1 DEF Types
      <4>2. CASE prevLockCount[t] # 0
        <5>1. nesting[t] = prevLockCount[t] BY <1>1, <4>2 DEF LocksExact
        <5> QED BY <1>1, <2>1, <2>2, <3>1, <3>3, <4>2, <5>1 DEF Types
      <4> QED BY <4>1, <4>2
    <3> QED BY <2>1, <3>2, <3>3
  <2>4. Types'
    <3>1. lockCount' \in 0 .. MaxNest /\ nesting' \in [Thread -> 0 .. MaxNest]
      <4>1. /\ nesting'[t] \in 0 .. MaxNest /\ lockCount' \in 0 .. MaxNest
            /\ nesting \in [Thread -> 0 .. MaxNest]
        BY <1>1, <2>2, <2>3 DEF Types
      <4> QED BY <2>3, <4>1
    <3>2. pc' \in [Thread -> Places]
      BY <1>1, <2>1 DEF Types, Places
    <3> QED BY <1>1, <1>2, <2>1, <3>1, <3>2 DEF Types
  <2>5. Queued'
    BY <1>1, <1>2, <2>1 DEF Types, Queued
  <2>6. LocksExact'
    <3>1. \A u \in Thread \ {t} :
             /\ owner # u /\ nesting'[u] = nesting[u] /\ prevLockCount'[u] = prevLockCount[u]
             /\ pc'[u] = pc[u]
      BY <1>1, <2>1 DEF Types
    <3>2. /\ nesting'[t] > 0 /\ lockCount' > 0 /\ lockCount' # 0
          /\ pc'[t] = IF prevLockCount[t] # 0 THEN "restore" ELSE "guest"
      BY <1>1, <2>1, <2>2, <2>3 DEF Types
    <3> QED BY <1>1, <2>1, <2>3, <3>1, <3>2 DEF LocksExact
  <2>7. PlacesOK'
    BY <1>1, <1>2, <2>1 DEF Types, PlacesOK
  <2> QED BY <2>4, <2>5, <2>6, <2>7, TypeParts DEF IInv
<1> QED BY <1>3, <1>4

\* Behind OSFastMutex_LockInternal the owner, and nobody else, sets the count.
LEMMA RestoreInvariant ==
    ASSUME IInv, NEW t \in Thread, RestoreCount(t)
    PROVE  IInv'
<1>1. Types /\ Queued /\ LocksExact /\ PlacesOK /\ None \notin Thread
  BY TypeParts, FastMutexAssumption DEF IInv
<1>2. /\ pc[t] = "restore" /\ t \in running /\ lockCount' = prevLockCount[t]
      /\ prevLockCount' = [prevLockCount EXCEPT ![t] = 0]
      /\ pc' = [pc EXCEPT ![t] = "guest"]
      /\ UNCHANGED <<owner, nesting, mutexQueue, condQueue, spinlock, scheduler, running>>
  BY DEF RestoreCount, At, Goes, CountRestored, queues
<1>3. prevLockCount[t] # 0 /\ owner = t /\ nesting[t] = prevLockCount[t]
  BY <1>1, <1>2 DEF PlacesOK, LocksExact
<1>4. prevLockCount[t] \in 1 .. MaxNest /\ MaxNest \in Nat
  BY <1>1, <1>3, FastMutexAssumption DEF Types
<1>5. Types'
  <2>1. lockCount' \in 0 .. MaxNest /\ 0 \in 0 .. MaxNest BY <1>2, <1>4
  <2> QED BY <1>1, <1>2, <2>1 DEF Types, Places
<1>6. Queued' BY <1>1, <1>2 DEF Types, Queued
<1>7. LocksExact'
  <2>1. /\ prevLockCount'[t] = 0 /\ nesting[t] > 0 /\ lockCount' # 0 /\ lockCount' = nesting[t]
        /\ pc'[t] = "guest"
    BY <1>1, <1>2, <1>3, <1>4 DEF Types
  <2>2. \A u \in Thread \ {t} : /\ owner # u /\ prevLockCount'[u] = prevLockCount[u]
                                /\ pc'[u] = pc[u]
    BY <1>1, <1>2, <1>3 DEF Types
  <2> QED BY <1>1, <1>2, <1>3, <2>1, <2>2 DEF LocksExact
<1>8. PlacesOK' BY <1>1, <1>2 DEF Types, PlacesOK
<1> QED BY <1>5, <1>6, <1>7, <1>8, TypeParts DEF IInv

\* A thread enters a wait queue and gives up its core, with the lock it had.
LEMMA WaitInvariant ==
    ASSUME IInv, NEW t \in Thread, Block(t) \/ WaitForSignal(t)
    PROVE  IInv'
<1>1. Types /\ Queued /\ LocksExact /\ PlacesOK /\ None \notin Thread
  BY TypeParts, FastMutexAssumption DEF IInv
<1>2. /\ t \in running /\ running' = running \ {t}
      /\ UNCHANGED <<owner, lockCount, nesting, prevLockCount>>
      /\ t \notin Threads(mutexQueue) /\ t \notin Threads(condQueue)
  BY <1>1 DEF Block, WaitForSignal, At, mutexVars, Queued
<1>3. LocksExact'
  <2>1. \A u \in Thread : pc'[u] = "restore" <=> pc[u] = "restore"
    BY <1>1 DEF Block, WaitForSignal, At, Goes, Types
  <2> QED BY <1>1, <1>2, <2>1 DEF LocksExact
<1>4. Types' /\ Queued' /\ PlacesOK'
  <2>1. CASE Block(t)
    <3>1. /\ pc[t] = "enqueue" /\ pc' = [pc EXCEPT ![t] = "blocked"] /\ spinlock' = None
          /\ UNCHANGED <<condQueue, scheduler>>
          /\ InsertedByPriority(mutexQueue, t, mutexQueue')
      BY <2>1 DEF Block, At, Goes
    <3>2. /\ mutexQueue' \in Seq(Thread) /\ NoDuplicates(mutexQueue')
          /\ Threads(mutexQueue') = Threads(mutexQueue) \union {t}
      BY <1>1, <1>2, <3>1, InsertedProperties DEF Types
    <3>3. Types' BY <1>1, <1>2, <3>1, <3>2 DEF Types, Places
    <3>4. Queued' BY <1>1, <1>2, <3>1, <3>2 DEF Types, Queued
    <3>5. PlacesOK'
      <4>1. \A u \in Thread : u # t => pc[u] \notin {"enqueue", "unlock"}
        BY <1>1, <3>1 DEF PlacesOK
      <4> QED BY <1>1, <1>2, <3>1, <4>1 DEF PlacesOK, Types
    <3> QED BY <3>3, <3>4, <3>5
  <2>2. CASE WaitForSignal(t)
    <3>1. /\ pc[t] = "released" /\ pc' = [pc EXCEPT ![t] = "waiting"] /\ scheduler' = None
          /\ UNCHANGED spinlock /\ mutexQueue' = <<>>
          /\ InsertedByPriority(condQueue, t, condQueue')
      BY <2>2 DEF WaitForSignal, At, Goes
    <3>2. /\ condQueue' \in Seq(Thread) /\ NoDuplicates(condQueue')
          /\ Threads(condQueue') = Threads(condQueue) \union {t}
      BY <1>1, <1>2, <3>1, InsertedProperties DEF Types
    <3>3. Types' BY <1>1, <1>2, <3>1, <3>2, EmptyProperties DEF Types, Places
    <3>4. Queued' BY <1>1, <1>2, <3>1, <3>2, EmptyProperties DEF Types, Queued
    <3>5. PlacesOK'
      <4>1. \A u \in Thread : u # t => pc[u] # "released"
        BY <1>1, <3>1 DEF PlacesOK
      <4> QED BY <1>1, <1>2, <3>1, <4>1 DEF PlacesOK, Types
    <3> QED BY <3>3, <3>4, <3>5
  <2> QED BY <2>1, <2>2
<1> QED BY <1>3, <1>4, TypeParts DEF IInv

\* The owner gives the mutex up, once or altogether.
LEMMA ReleaseInvariant ==
    ASSUME IInv, NEW t \in Thread, OSFastMutex_Unlock(t) \/ OSFastCond_Wait(t)
    PROVE  IInv'
<1>1. Types /\ Queued /\ LocksExact /\ PlacesOK /\ None \notin Thread
  BY TypeParts, FastMutexAssumption DEF IInv
<1>2. /\ pc[t] = "guest" /\ t \in running /\ owner = t /\ prevLockCount[t] = 0
      /\ nesting[t] \in 1 .. MaxNest /\ lockCount = nesting[t] /\ MaxNest \in Nat
      /\ UNCHANGED <<mutexQueue, condQueue, running>>
  <2>1. /\ pc[t] = "guest" /\ t \in running /\ owner = t
        /\ UNCHANGED <<mutexQueue, condQueue, running>>
    BY DEF OSFastMutex_Unlock, OSFastCond_Wait, At, queues
  <2>2. prevLockCount[t] = 0 /\ nesting[t] > 0 /\ lockCount = nesting[t]
    BY <1>1, <2>1 DEF PlacesOK, LocksExact
  <2> QED BY <1>1, <2>1, <2>2, FastMutexAssumption DEF Types
<1>3. CASE OSFastMutex_Unlock(t)
  <2>1. /\ lockCount' = lockCount - 1
        /\ nesting' = [nesting EXCEPT ![t] = @ - 1]
        /\ owner' = IF lockCount = 1 THEN None ELSE t
        /\ UNCHANGED <<scheduler, prevLockCount>>
        /\ spinlock = None
        /\ \/ spinlock' = t /\ pc' = [pc EXCEPT ![t] = "unlock"]
           \/ UNCHANGED <<spinlock, pc>>
    BY <1>2, <1>3 DEF OSFastMutex_Unlock, Goes, SpinlockFree, LastUnlock
  <2>2. /\ nesting'[t] = lockCount' /\ lockCount' \in 0 .. MaxNest
        /\ nesting' = [nesting EXCEPT ![t] = nesting'[t]]
        /\ lockCount' = 0 <=> owner' = None
    BY <1>1, <1>2, <2>1 DEF Types
  <2>3. Types'
    <3>1. nesting' \in [Thread -> 0 .. MaxNest] BY <1>1, <2>2 DEF Types
    <3> QED BY <1>1, <1>2, <2>1, <2>2, <3>1 DEF Types, Places
  <2>4. Queued'
    <3>1. \A u \in Threads(mutexQueue) \union Threads(condQueue) :
             u \notin running /\ u # t /\ pc'[u] = pc[u]
      <4>1. \A u \in Threads(mutexQueue) \union Threads(condQueue) : u \in Thread
        BY <1>1 DEF Types, Threads
      <4> QED BY <1>1, <1>2, <2>1, <4>1 DEF Types, Queued
    <3> QED BY <1>1, <1>2, <3>1 DEF Queued
  <2>5. LocksExact'
    <3>1. \A u \in Thread \ {t} :
             owner # u /\ owner' # u /\ nesting'[u] = nesting[u]
             /\ prevLockCount'[u] = prevLockCount[u] /\ pc'[u] = pc[u]
      BY <1>1, <1>2, <2>1 DEF Types
    <3>2. /\ prevLockCount'[t] = 0 /\ (nesting'[t] > 0 <=> owner' = t)
      BY <1>1, <1>2, <2>1, <2>2 DEF Types
    <3> QED BY <1>1, <2>2, <3>1, <3>2 DEF LocksExact
  <2>6. PlacesOK'
    BY <1>1, <1>2, <2>1 DEF Types, PlacesOK
  <2> QED BY <2>3, <2>4, <2>5, <2>6, TypeParts DEF IInv
<1>4. CASE OSFastCond_Wait(t)
  <2>1. /\ scheduler = None /\ scheduler' = t
        /\ prevLockCount' = [prevLockCount EXCEPT ![t] = lockCount]
        /\ lockCount' = 0 /\ owner' = None
        /\ pc' = [pc EXCEPT ![t] = "released"] /\ UNCHANGED <<nesting, spinlock>>
    BY <1>4 DEF OSFastCond_Wait, Goes
  <2>2. Types'
    <3>1. 0 \in 0 .. MaxNest BY <1>2
    <3> QED BY <1>1, <1>2, <2>1, <3>1 DEF Types, Places
  <2>3. Queued'
    BY <1>1, <1>2, <2>1 DEF Types, Queued
  <2>4. LocksExact'
    BY <1>1, <1>2, <2>1 DEF Types, LocksExact
  <2>5. PlacesOK'
    BY <1>1, <1>2, <2>1 DEF Types, PlacesOK
  <2> QED BY <2>2, <2>3, <2>4, <2>5, TypeParts DEF IInv
<1> QED BY <1>3, <1>4
-----------------------------------------------------------------------------
(* No waiter is left behind.                                                *)

\* What a thread on the way does next, unless another step replaces it: the
\* steps that do not free the mutex keep some thread on the way.
LEMMA StillOnTheWay ==
    ASSUME NoWaiterLeft, owner' = None => owner = None, mutexQueue' # <<>> => mutexQueue # <<>>,
           \A u \in Thread : OnTheWay(u) => OnTheWay(u)'
    PROVE  NoWaiterLeft'
BY DEF NoWaiterLeft

\* The mutex stays as it is, or is taken.
LEMMA OrderlySwitch ==
    ASSUME IInv, Orderly, ~Race, NEW t \in Thread,
           \/ Preempt(t) \/ Dispatch(t) \/ OSFastMutex_Lock(t) \/ OSFastCond_Signal(t)
           \/ RestoreCount(t)
    PROVE  Orderly'
<1>1. /\ Types /\ Queued /\ PlacesOK /\ UnlockFindsWaiter /\ NoWaiterLeft
      /\ \A u \in Thread : pc[u] = "enqueue" => owner # None
      /\ spinlock # None => \A u \in Thread : pc[u] # "released"
  BY TypeParts DEF IInv, Orderly
<1>2. /\ UNCHANGED <<owner, mutexQueue, spinlock>>
      /\ \/ UNCHANGED pc
         \/ pc' = [pc EXCEPT ![t] = "lock"]
         \/ pc[t] = "restore" /\ pc' = [pc EXCEPT ![t] = "guest"]
      /\ \A u \in Threads(condQueue') : u \in Threads(condQueue)
  BY <1>1, EmptyProperties
     DEF Preempt, Dispatch, OSFastMutex_Lock, OSFastCond_Signal, RestoreCount, At, Goes, mutexVars, queues, Types
<1>3. \A u \in Thread : OnTheWay(u) => OnTheWay(u)'
  BY <1>1, <1>2 DEF OnTheWay, Types
<1>4. NoWaiterLeft'
  BY <1>1, <1>2, <1>3, StillOnTheWay
<1> QED BY <1>1, <1>2, <1>4 DEF Orderly, UnlockFindsWaiter, Types

\* The mutex is taken, or the spinlock is kept by a thread that saw it locked.
LEMMA OrderlyTry ==
    ASSUME IInv, Orderly, ~Race, NEW t \in Thread, TryOwner(t) \/ OSFastMutex_TryLock(t)
    PROVE  Orderly'
<1>1. /\ Types /\ UnlockFindsWaiter /\ None \notin Thread
      /\ \A u \in Thread : pc[u] = "enqueue" => owner # None
      /\ \A u \in Thread : pc[u] # "released"
  BY TypeParts, FastMutexAssumption DEF IInv, Orderly, TryOwner, OSFastMutex_TryLock, SpinlockFree
<1>2. /\ owner' # None /\ UNCHANGED mutexQueue
      /\ \/ UNCHANGED pc
         \/ pc' = [pc EXCEPT ![t] = "guest"]
         \/ pc' = [pc EXCEPT ![t] = "restore"]
         \/ pc' = [pc EXCEPT ![t] = "enqueue"]
  BY <1>1 DEF TryOwner, OSFastMutex_TryLock, Goes, mutexVars, queues
<1> QED BY <1>1, <1>2 DEF Orderly, UnlockFindsWaiter, NoWaiterLeft, Types

\* queueOnly on a mutex that is still locked.
LEMMA OrderlyBlock ==
    ASSUME IInv, Orderly, ~Race, NEW t \in Thread, Block(t)
    PROVE  Orderly'
<1>1. /\ Types /\ Queued /\ PlacesOK /\ UnlockFindsWaiter /\ None \notin Thread
      /\ \A u \in Thread : pc[u] = "enqueue" => owner # None
      /\ spinlock # None => \A u \in Thread : pc[u] # "released"
  BY TypeParts, FastMutexAssumption DEF IInv, Orderly
<1>2. /\ pc[t] = "enqueue" /\ spinlock = t /\ UNCHANGED owner /\ spinlock' = None
      /\ pc' = [pc EXCEPT ![t] = "blocked"]
  BY <1>1 DEF Block, At, Goes, mutexVars, PlacesOK
<1>3. \A u \in Thread : pc'[u] \notin {"enqueue", "unlock", "released"}
  BY <1>1, <1>2 DEF Types, PlacesOK
<1>4. owner' # None
  BY <1>1, <1>2
<1> QED BY <1>3, <1>4, <1>2 DEF Orderly, UnlockFindsWaiter, NoWaiterLeft

\* OSFastMutex_Unlock frees the mutex with the spinlock in hand when threads wait.
LEMMA OrderlyUnlock ==
    ASSUME IInv, Orderly, ~Race, NEW t \in Thread, OSFastMutex_Unlock(t)
    PROVE  Orderly'
<1>1. /\ Types /\ PlacesOK /\ None \notin Thread
      /\ \A u \in Thread : pc[u] # "released"
  BY TypeParts, FastMutexAssumption DEF IInv, Orderly, OSFastMutex_Unlock, SpinlockFree
<1>2. /\ spinlock = None /\ owner = t /\ UNCHANGED mutexQueue /\ pc[t] = "guest"
      /\ owner' \in {t, None}
      /\ IF owner' = None /\ mutexQueue # <<>>
         THEN pc' = [pc EXCEPT ![t] = "unlock"] /\ spinlock' = t
         ELSE UNCHANGED <<pc, spinlock>>
  BY <1>1 DEF OSFastMutex_Unlock, At, Goes, SpinlockFree, LastUnlock, HasWaiters, queues
<1>3. \A u \in Thread : pc[u] \notin {"enqueue", "unlock"}
  BY <1>1, <1>2 DEF PlacesOK
<1>4. UnlockFindsWaiter' /\ (\A u \in Thread : pc'[u] \notin {"enqueue", "released"})
  BY <1>1, <1>2, <1>3 DEF UnlockFindsWaiter, Types
<1>5. NoWaiterLeft'
  <2>1. owner' = None /\ mutexQueue # <<>> => OnTheWay(t)'
    BY <1>1, <1>2 DEF OnTheWay, Types
  <2> QED BY <1>2, <2>1 DEF NoWaiterLeft
<1> QED BY <1>4, <1>5 DEF Orderly

\* wakeupSingleThreadWaitQueue puts the first waiter on the way.
LEMMA OrderlyWake ==
    ASSUME IInv, Orderly, ~Race, NEW t \in Thread, WakeOne(t)
    PROVE  Orderly'
<1>1. /\ Types /\ Queued /\ PlacesOK /\ UnlockFindsWaiter /\ None \notin Thread
      /\ \A u \in Thread : pc[u] = "enqueue" => owner # None
      /\ spinlock # None => \A u \in Thread : pc[u] # "released"
  BY TypeParts, FastMutexAssumption DEF IInv, Orderly
<1>2. /\ pc[t] = "unlock" /\ spinlock = t /\ spinlock' = None /\ mutexQueue # <<>>
      /\ mutexQueue' = Tail(mutexQueue) /\ pc' = [pc EXCEPT ![t] = "guest"]
  BY <1>1 DEF WakeOne, At, Goes, PlacesOK, UnlockFindsWaiter
<1>3. \A u \in Thread : pc'[u] \notin {"enqueue", "unlock", "released"}
  BY <1>1, <1>2 DEF PlacesOK, Types
<1>4. NoWaiterLeft'
  <2> DEFINE first == Head(mutexQueue)
  <2>3. mutexQueue \in Seq(Thread) /\ NoDuplicates(mutexQueue) /\ mutexQueue # <<>>
    BY <1>1, <1>2 DEF Types
  <2>4. first \in Thread
    BY <2>3
  <2>1. first \in Threads(mutexQueue) /\ first \notin Threads(mutexQueue')
    BY <2>3, <1>2, TakeFirstProperties
  <2>2. pc'[first] = "blocked"
    BY <1>1, <1>2, <2>4, <2>1 DEF Queued, Types
  <2> QED BY <2>4, <2>1, <2>2 DEF NoWaiterLeft, OnTheWay
<1> QED BY <1>2, <1>3, <1>4 DEF Orderly, UnlockFindsWaiter

\* OSFastCond_Wait frees the mutex while nobody holds the spinlock, and wakes
\* everybody before the scheduler lock is given up.
LEMMA OrderlyCondWait ==
    ASSUME IInv, Orderly, ~Race, NEW t \in Thread, OSFastCond_Wait(t) \/ WaitForSignal(t)
    PROVE  Orderly'
<1>1. /\ Types /\ PlacesOK /\ None \notin Thread
      /\ spinlock # None => \A u \in Thread : pc[u] # "released"
  BY TypeParts, FastMutexAssumption DEF IInv, Orderly
<1>2. /\ spinlock = None /\ UNCHANGED spinlock
      /\ \/ pc' = [pc EXCEPT ![t] = "released"]
         \/ pc' = [pc EXCEPT ![t] = "waiting"] /\ mutexQueue' = <<>>
  BY <1>1 DEF OSFastCond_Wait, WaitForSignal, At, Goes
<1>3. \A u \in Thread : pc'[u] \notin {"enqueue", "unlock"}
  BY <1>1, <1>2 DEF PlacesOK, Types
<1>4. NoWaiterLeft'
  BY <1>1, <1>2 DEF NoWaiterLeft, OnTheWay, Types
<1> QED BY <1>2, <1>3, <1>4 DEF Orderly, UnlockFindsWaiter
-----------------------------------------------------------------------------
(* The specification.                                                       *)

\* Nobody has locked, and nobody has a core.
LEMMA InitInvariant == Init => IInv /\ Orderly
<1> SUFFICES ASSUME Init PROVE IInv /\ Orderly
  OBVIOUS
<1>1. Types /\ Queued
  BY EmptyProperties, FastMutexAssumption DEF Init, Types, Queued, Places
<1>2. LocksExact /\ PlacesOK
  BY FastMutexAssumption DEF Init, LocksExact, PlacesOK
<1>3. Orderly
  BY DEF Init, Orderly, UnlockFindsWaiter, NoWaiterLeft
<1> QED BY <1>1, <1>2, <1>3, TypeParts DEF IInv

\* Every step keeps the invariant.
LEMMA NextInvariant == IInv /\ [Next]_vars => IInv'
<1> SUFFICES ASSUME IInv, [Next]_vars PROVE IInv'
  OBVIOUS
<1>1. ASSUME NEW t \in Thread, Step(t) PROVE IInv'
  BY <1>1, SwitchInvariant, TryInvariant, RestoreInvariant, WaitInvariant, ReleaseInvariant DEF Step
<1>2. CASE UNCHANGED vars
  <2>1. UNCHANGED <<owner, lockCount, nesting, mutexQueue, condQueue, spinlock, scheduler, pc,
                    prevLockCount, running>>
    BY <1>2 DEF vars, mutexVars, queues
  <2> QED BY <2>1 DEF IInv, TypeOK, LocksExact, PlacesOK
<1> QED BY <1>1, <1>2 DEF Next

\* Without the race every step keeps the waiters on record.
LEMMA NextOrderly == ASSUME ~Race PROVE IInv /\ Orderly /\ [Next]_vars => Orderly'
<1> SUFFICES ASSUME IInv, Orderly, [Next]_vars PROVE Orderly'
  OBVIOUS
<1>1. ASSUME NEW t \in Thread, Step(t) PROVE Orderly'
  BY <1>1, OrderlySwitch, OrderlyTry, OrderlyBlock, OrderlyUnlock, OrderlyWake, OrderlyCondWait
     DEF Step
<1>2. CASE UNCHANGED vars
  <2>1. UNCHANGED <<owner, mutexQueue, condQueue, spinlock, pc>>
    BY <1>2 DEF vars, mutexVars, queues
  <2> QED BY <2>1 DEF Orderly, UnlockFindsWaiter, NoWaiterLeft, OnTheWay
<1> QED BY <1>1, <1>2 DEF Next

\* The places of the threads, the two locks and the counts stay in step,
\* whatever the threads do.
THEOREM FastMutexInvariant == Spec => []IInv
<1>1. Init => IInv BY InitInvariant
<1>2. IInv /\ [Next]_vars => IInv' BY NextInvariant
<1> QED BY <1>1, <1>2, PTL DEF Spec

\* Every variable keeps its type, and no thread is linked in two queues.
THEOREM TypeCorrect == Spec => []TypeOK
<1>1. Spec => []IInv BY FastMutexInvariant
<1>2. IInv => TypeOK BY DEF IInv
<1> QED BY <1>1, <1>2, PTL

\* OSFastMutex excludes, counts recursive locks, and has its count back after
\* OSFastCond_Wait, also in the races of OSFastCond_Wait with other calls.
THEOREM LocksStayExact == Spec => []LocksExact
<1>1. Spec => []IInv BY FastMutexInvariant
<1>2. IInv => LocksExact BY DEF IInv
<1> QED BY <1>1, <1>2, PTL

\* g_fastMutexSpinlock is never held by a thread without a core.
THEOREM SpinnersAlwaysProgress == Spec => []SpinnersProgress
<1>1. Spec => []IInv BY FastMutexInvariant
<1>2. IInv => SpinnersProgress
  BY TypeParts DEF IInv, Types, PlacesOK, SpinnersProgress, At
<1> QED BY <1>1, <1>2, PTL

\* Without the race of OSFastCond_Wait no waiter is left asleep beside a free mutex.
THEOREM NoWaiterStaysBehind == ASSUME ~Race PROVE Spec => []NoWaiterLeft
<1>1. Spec => []IInv BY FastMutexInvariant
<1>2. Init => Orderly BY InitInvariant
<1>3. IInv /\ Orderly /\ [Next]_vars => Orderly' BY NextOrderly
<1>4. Orderly => NoWaiterLeft BY DEF Orderly
<1> QED BY <1>1, <1>2, <1>3, <1>4, PTL DEF Spec
-----------------------------------------------------------------------------
(* Whom a release wakes.                                                    *)

QueuesSorted == Sorted(mutexQueue, priority) /\ Sorted(condQueue, priority)

LEMMA InsertedSorted ==
    ASSUME NEW q \in Seq(Thread), NEW t \in Thread, NEW after, Sorted(q, priority),
           InsertedByPriority(q, t, after)
    PROVE  Sorted(after, priority)
<1>1. PICK i \in 0 .. Len(q) : IsInsertPoint(q, t, priority, i) /\ after = insertBehind(q, i, t)
  BY DEF InsertedByPriority
<1>2. priority \in [Thread -> Nat] BY FastMutexAssumption
<1> QED BY <1>1, <1>2, InsertKeepsSorted

LEMMA EmptySorted == Sorted(<<>>, priority)
  BY DEF Sorted

LEMMA StepSorted ==
    ASSUME IInv, QueuesSorted, NEW t \in Thread, Step(t) PROVE QueuesSorted'
<1>1. mutexQueue \in Seq(Thread) /\ condQueue \in Seq(Thread)
  BY DEF IInv, TypeOK
<1>2. Sorted(mutexQueue, priority) /\ Sorted(condQueue, priority)
  BY DEF QueuesSorted
<1>3. Sorted(mutexQueue', priority)
  <2>1. CASE UNCHANGED mutexQueue BY <1>2, <2>1
  <2>2. CASE mutexQueue' = <<>> BY <2>2, EmptySorted
  <2>3. CASE InsertedByPriority(mutexQueue, t, mutexQueue') BY <1>1, <1>2, <2>3, InsertedSorted
  <2>4. CASE mutexQueue # <<>> /\ mutexQueue' = Tail(mutexQueue)
    <3>1. priority \in [Thread -> Nat] BY FastMutexAssumption
    <3> QED BY <1>1, <1>2, <2>4, <3>1, TakeFirstKeepsSorted
  <2>5. \/ UNCHANGED mutexQueue \/ mutexQueue' = <<>>
        \/ InsertedByPriority(mutexQueue, t, mutexQueue')
        \/ mutexQueue # <<>> /\ mutexQueue' = Tail(mutexQueue)
    BY DEF Step, Preempt, Dispatch, OSFastMutex_Lock, TryOwner, Block, OSFastMutex_TryLock,
       OSFastMutex_Unlock, WakeOne, OSFastCond_Wait, WaitForSignal, RestoreCount,
       OSFastCond_Signal, queues
  <2> QED BY <2>1, <2>2, <2>3, <2>4, <2>5
<1>4. Sorted(condQueue', priority)
  <2>1. \/ UNCHANGED condQueue \/ condQueue' = <<>>
        \/ InsertedByPriority(condQueue, t, condQueue')
    BY DEF Step, Preempt, Dispatch, OSFastMutex_Lock, TryOwner, Block, OSFastMutex_TryLock,
       OSFastMutex_Unlock, WakeOne, OSFastCond_Wait, WaitForSignal, RestoreCount,
       OSFastCond_Signal, queues
  <2> QED BY <1>1, <1>2, <2>1, EmptySorted, InsertedSorted
<1> QED BY <1>3, <1>4 DEF QueuesSorted

\* The thread that WakeOne takes is a most urgent one of those that wait.
UrgentWaiterFirst == \A u \in Threads(mutexQueue) : priority[Head(mutexQueue)] <= priority[u]

\* OSFastMutex_Unlock hands the mutex to a most urgent waiter, whatever the
\* order in which the threads came, were woken and came back.
THEOREM UnlockWakesTheMostUrgent == Spec => []UrgentWaiterFirst
<1>1. Spec => []IInv BY FastMutexInvariant
<1>2. Init => QueuesSorted BY EmptySorted DEF Init, QueuesSorted
<1>3. IInv /\ QueuesSorted /\ [Next]_vars => QueuesSorted'
  <2> SUFFICES ASSUME IInv, QueuesSorted, [Next]_vars PROVE QueuesSorted'
    OBVIOUS
  <2>1. CASE UNCHANGED vars BY <2>1 DEF vars, queues, QueuesSorted
  <2> QED BY <2>1, StepSorted DEF Next
<1>4. IInv /\ QueuesSorted => UrgentWaiterFirst
  <2> SUFFICES ASSUME IInv, QueuesSorted, NEW u \in Threads(mutexQueue)
               PROVE  priority[Head(mutexQueue)] <= priority[u]
    BY DEF UrgentWaiterFirst
  <2>1. /\ mutexQueue \in Seq(Thread) /\ Sorted(mutexQueue, priority) /\ mutexQueue # <<>>
        /\ priority \in [Thread -> Nat]
    BY FastMutexAssumption DEF IInv, TypeOK, QueuesSorted, Threads
  <2> QED BY <2>1, TakeFirstKeepsSorted
<1> QED BY <1>1, <1>2, <1>3, <1>4, PTL DEF Spec
-----------------------------------------------------------------------------
(* The two locks.                                                           *)

LEMMA Enqueues ==
    ASSUME IInv, NEW t \in Thread
    PROVE  CanEnqueue(mutexQueue, t) /\ CanEnqueue(condQueue, t)
<1>1. priority \in [Thread -> Nat] /\ mutexQueue \in Seq(Thread) /\ condQueue \in Seq(Thread)
  BY FastMutexAssumption DEF IInv, TypeOK
<1>2. CanEnqueue(mutexQueue, t) BY <1>1, InsertPointUnique DEF CanEnqueue
<1>3. CanEnqueue(condQueue, t) BY <1>1, InsertPointUnique DEF CanEnqueue
<1> QED BY <1>2, <1>3

\* Who holds a lock can go on, at once or as soon as the holder of the scheduler
\* lock, which needs no other lock, has given that back.
LockHoldersGoOn ==
    /\ scheduler # None => At(scheduler, "released") /\ CanGoOn(scheduler)
    /\ spinlock # None /\ scheduler = None => CanGoOn(spinlock)

\* g_fastMutexSpinlock and the scheduler lock never wait for each other in a
\* circle, although OSFastMutex_Lock takes the second one inside the first.
THEOREM LocksNeverCycle == Spec => []LockHoldersGoOn
<1>1. Spec => []IInv BY FastMutexInvariant
<1>2. ASSUME IInv PROVE LockHoldersGoOn
  <2>1. /\ scheduler \in Thread \union {None} /\ spinlock \in Thread \union {None}
        /\ \A t \in Thread : /\ pc[t] \in {"lock", "enqueue", "unlock", "released", "restore"} => t \in running
                             /\ spinlock = t <=> pc[t] \in {"enqueue", "unlock"}
                             /\ scheduler = t <=> pc[t] = "released"
    BY <1>2 DEF IInv, TypeOK, PlacesOK
  <2> QED BY <1>2, <2>1, Enqueues DEF LockHoldersGoOn, CanGoOn, At
<1>3. IInv => LockHoldersGoOn BY <1>2
<1> QED BY <1>1, <1>3, PTL

\* A thread that was put on the mutex queue does not own the mutex.
OwnerNotQueued == \A t \in Thread : pc[t] \in {"enqueue", "blocked"} => owner # t

LEMMA StepOwnerNotQueued ==
    ASSUME IInv, OwnerNotQueued, NEW t \in Thread, Step(t) PROVE OwnerNotQueued'
<1>1. /\ Types /\ None \notin Thread /\ PlacesOK
      /\ \A u \in Thread : pc[u] \in {"enqueue", "blocked"} => owner # u
  BY TypeParts, FastMutexAssumption DEF IInv, OwnerNotQueued
<1>2. ASSUME UNCHANGED owner, UNCHANGED pc \/ \E p : p \notin {"enqueue", "blocked"} /\ Goes(t, p)
      PROVE  OwnerNotQueued'
  BY <1>1, <1>2 DEF OwnerNotQueued, Goes, Types
<1>3. CASE Preempt(t) \/ Dispatch(t) \/ OSFastMutex_Lock(t) \/ WakeOne(t) \/ OSFastCond_Signal(t)
           \/ WaitForSignal(t) \/ RestoreCount(t)
  <2>1. UNCHANGED owner
    BY <1>3 DEF Preempt, Dispatch, OSFastMutex_Lock, WakeOne, OSFastCond_Signal, WaitForSignal,
       RestoreCount, mutexVars
  <2>2. UNCHANGED pc \/ Goes(t, "guest") \/ Goes(t, "lock") \/ Goes(t, "waiting")
    BY <1>3 DEF Preempt, Dispatch, OSFastMutex_Lock, WakeOne, OSFastCond_Signal, WaitForSignal,
       RestoreCount
  <2> QED BY <1>2, <2>1, <2>2
<1>4. CASE TryOwner(t) /\ owner \notin {None, t}
  BY <1>1, <1>4 DEF TryOwner, Goes, OwnerNotQueued, Types, mutexVars
<1>5. CASE (TryOwner(t) /\ owner \in {None, t}) \/ OSFastMutex_TryLock(t)
  <2>1. owner' = t /\ \E p \in {"guest", "restore"} : pc' = [pc EXCEPT ![t] = p]
    BY <1>1, <1>5 DEF TryOwner, OSFastMutex_TryLock, Goes, At, Types
  <2> QED BY <1>1, <2>1 DEF OwnerNotQueued, Types
<1>6. CASE Block(t)
  <2>1. pc[t] = "enqueue" /\ pc' = [pc EXCEPT ![t] = "blocked"] /\ UNCHANGED owner
    BY <1>6 DEF Block, At, Goes, mutexVars
  <2> QED BY <1>1, <2>1 DEF OwnerNotQueued, Types
<1>7. CASE OSFastMutex_Unlock(t) \/ OSFastCond_Wait(t)
  <2>1. /\ owner' \in {owner, None}
        /\ \/ UNCHANGED pc \/ pc' = [pc EXCEPT ![t] = "unlock"] \/ pc' = [pc EXCEPT ![t] = "released"]
    BY <1>7 DEF OSFastMutex_Unlock, OSFastCond_Wait, Goes
  <2> QED BY <1>1, <2>1 DEF OwnerNotQueued, Types
<1> QED BY <1>3, <1>4, <1>5, <1>6, <1>7 DEF Step

\* Without the race of OSFastCond_Wait, the mutex and the locks around it never
\* bring all threads to a stop: only waiting for a signal does.
THEOREM OnlySignalsAreWaitedFor ==
    ASSUME ~Race PROVE Spec => []StopsOnlyForSignals
<1>1. Spec => []IInv BY FastMutexInvariant
<1>2. Spec => []NoWaiterLeft BY NoWaiterStaysBehind
<1>3. Init => OwnerNotQueued BY DEF Init, OwnerNotQueued
<1>4. IInv /\ OwnerNotQueued /\ [Next]_vars => OwnerNotQueued'
  <2> SUFFICES ASSUME IInv, OwnerNotQueued, [Next]_vars PROVE OwnerNotQueued'
    OBVIOUS
  <2>1. CASE UNCHANGED vars BY <2>1 DEF vars, mutexVars, OwnerNotQueued
  <2> QED BY <2>1, StepOwnerNotQueued DEF Next
<1>5. ASSUME IInv, OwnerNotQueued, NoWaiterLeft, NEW t \in Thread, t \notin Threads(condQueue)
      PROVE  \E u \in Thread : CanGoOn(u)
  <2>1. /\ Types /\ Queued /\ LocksExact /\ PlacesOK BY <1>5, TypeParts DEF IInv
  <2>2. LockHoldersGoOn
    <3>1. \A u \in Thread : CanEnqueue(mutexQueue, u) /\ CanEnqueue(condQueue, u) BY <1>5, Enqueues
    <3> QED BY <2>1, <3>1 DEF Types, PlacesOK, LockHoldersGoOn, CanGoOn, At
  <2>3. CASE scheduler # None \/ spinlock # None
    BY <2>1, <2>2, <2>3 DEF LockHoldersGoOn, Types
  <2>4. CASE scheduler = None /\ spinlock = None
    <3>1. SpinlockFree BY <2>1, <2>4, FastMutexAssumption DEF SpinlockFree, PlacesOK
    <3>2. ASSUME NEW u \in running PROVE \E v \in Thread : CanGoOn(v)
      <4>1. u \in Thread /\ pc[u] \in Places BY <2>1 DEF Types
      <4>2. pc[u] \in {"guest", "lock", "restore"} BY <2>1, <2>4, <4>1, FastMutexAssumption DEF PlacesOK, Places
      <4>3. CanGoOn(u) BY <3>1, <4>2 DEF CanGoOn, At
      <4> QED BY <4>1, <4>3
    <3>3. CASE running = {}
      <4>1. Cardinality(running) < NumCores BY <3>3, FS_EmptySet, FastMutexAssumption
      <4>2. CASE \E u \in Thread : u \notin Threads(mutexQueue) \union Threads(condQueue)
        BY <2>4, <3>3, <4>1, <4>2 DEF CanGoOn
      <4>3. CASE \A u \in Thread : u \in Threads(mutexQueue) \union Threads(condQueue)
        <5>1. t \in Threads(mutexQueue) BY <1>5, <4>3
        <5>2. mutexQueue # <<>> BY <5>1 DEF Threads
        <5>3. owner = None
          <6>1. ASSUME NEW u \in Threads(mutexQueue), u \in Thread PROVE owner # u
            BY <1>5, <2>1, <6>1 DEF Queued, OwnerNotQueued
          <6>2. ASSUME NEW u \in Threads(condQueue), u \in Thread PROVE owner # u
            BY <2>1, <6>2 DEF Queued, PlacesOK, LocksExact
          <6> QED BY <2>1, <4>3, <6>1, <6>2 DEF Types
        <5>4. PICK u \in Thread : OnTheWay(u) BY <1>5, <5>2, <5>3 DEF NoWaiterLeft
        <5>5. \/ pc[u] = "blocked" /\ u \in Threads(mutexQueue)
              \/ pc[u] = "waiting" /\ u \in Threads(condQueue)
          BY <2>1, <4>3 DEF Queued
        <5> QED BY <5>4, <5>5 DEF OnTheWay
      <4> QED BY <4>2, <4>3
    <3> QED BY <3>2, <3>3
  <2> QED BY <2>3, <2>4
<1>6. IInv /\ OwnerNotQueued /\ NoWaiterLeft => StopsOnlyForSignals
  BY <1>5 DEF StopsOnlyForSignals
<1> QED BY <1>1, <1>2, <1>3, <1>4, <1>6, PTL DEF Spec
=============================================================================
