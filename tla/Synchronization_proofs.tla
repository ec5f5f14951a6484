----------------------- MODULE Synchronization_proofs -----------------------
(***************************************************************************)
(* The inductive invariant of Synchronization, for any number of threads,  *)
(* events, rendezvous and mutexes and any program.                         *)
(***************************************************************************)
EXTENDS Synchronization, ThreadQueue_proofs

AllEvents == Event \union {rendezvousEvent}

\* The last conjunct of TypeOK.
QueuesExact ==
    \A o \in Object :
      /\ NoDuplicates(queue[o])
      /\ \A t \in Threads(queue[o]) :
            o \in WaitsIn(t) /\ \A p \in Object \ {o} : t \notin Threads(queue[p])

\* The objects differ.
LEMMA Objects ==
    /\ AllEvents \subseteq Object /\ Mutex \subseteq Object
    /\ rendezvousEvent \in Object /\ cond \in Object /\ semaphore \in Object
    /\ rendezvousEvent \notin Event
    /\ \A e \in AllEvents : e \notin Mutex /\ e # cond /\ e # semaphore
    /\ \A m \in Mutex : m # cond /\ m # semaphore /\ m # rendezvousEvent /\ m \notin Event
    /\ cond # semaphore /\ None \notin Thread
    /\ priority \in [Thread -> Nat] /\ coreOf \in [Thread -> Core]
    /\ mode \in [AllEvents -> {"AUTO", "MANUAL"}] /\ mode[rendezvousEvent] = "AUTO"
  BY ObjectAssumption DEF Object, AllEvents

\* A thread waits exactly if it is in a queue of its call.
LEMMA WaitingExact ==
    ASSUME TypeOK, NEW t \in Thread
    PROVE  IsWaiting(t) <=> \E o \in WaitsIn(t) \intersect Object : t \in Threads(queue[o])
  BY DEF TypeOK, IsWaiting

LEMMA ThreadsTyped ==
    ASSUME TypeOK, NEW o \in Object
    PROVE  /\ queue[o] \in Seq(Thread) /\ Threads(queue[o]) \subseteq Thread
           /\ NoDuplicates(queue[o]) /\ (queue[o] = <<>> <=> Threads(queue[o]) = {})
<1>1. queue[o] \in Seq(Thread) /\ NoDuplicates(queue[o])
  BY DEF TypeOK
<1>2. ASSUME NEW q \in Seq(Thread) PROVE Threads(q) \subseteq Thread
  BY DEF Threads
<1>3. Threads(<<>>) = {}
  BY DEF Threads
<1> QED BY <1>1, <1>2, <1>3, NoThreadsProperty

\* What queueAndWait does to the queues.
LEMMA Enqueued ==
    ASSUME TypeOK, NEW t \in Thread, NEW o \in Object, ~IsWaiting(t), queueAndWait(t, o)
    PROVE  /\ queue' \in [Object -> Seq(Thread)]
           /\ \A p \in Object : NoDuplicates(queue'[p])
           /\ Threads(queue'[o]) = Threads(queue[o]) \union {t} /\ queue'[o] # <<>>
           /\ \A p \in Object \ {o} : queue'[p] = queue[p]
<1>1. PICK i \in 0 .. Len(queue[o]) : queue' = [queue EXCEPT ![o] = insertBehind(queue[o], i, t)]
  BY DEF queueAndWait
<1>2. queue \in [Object -> Seq(Thread)] /\ queue[o] \in Seq(Thread)
  BY DEF TypeOK
<1>3. t \notin Threads(queue[o]) /\ \A p \in Object : NoDuplicates(queue[p])
  BY DEF TypeOK, IsWaiting
<1> DEFINE q == insertBehind(queue[o], i, t)
<1>4. q \in Seq(Thread) /\ Threads(q) = Threads(queue[o]) \union {t} /\ NoDuplicates(q)
  BY <1>2, <1>3, InsertBehindProperties
<1>5. q # <<>>
  <2>1. Threads(<<>>) = {}
    BY DEF Threads
  <2> QED BY <1>4, <2>1
<1> HIDE DEF q
<1>6. queue' = [queue EXCEPT ![o] = q]
  BY <1>1 DEF q
<1> QED BY <1>2, <1>3, <1>4, <1>5, <1>6

\* What the wake-ups do to them.
LEMMA AllWoken ==
    ASSUME TypeOK, NEW o \in Object, wakeupEntireWaitQueue(o)
    PROVE  /\ queue' \in [Object -> Seq(Thread)]
           /\ \A p \in Object : NoDuplicates(queue'[p])
           /\ Threads(queue'[o]) = {} /\ queue'[o] = <<>>
           /\ \A p \in Object \ {o} : queue'[p] = queue[p]
<1>1. queue' = [queue EXCEPT ![o] = <<>>] /\ queue \in [Object -> Seq(Thread)]
  BY DEF TypeOK, wakeupEntireWaitQueue
<1>2. Threads(<<>>) = {} /\ NoDuplicates(<<>>) /\ <<>> \in Seq(Thread)
  BY DEF Threads, NoDuplicates
<1>3. \A p \in Object : NoDuplicates(queue[p])
  BY DEF TypeOK
<1> QED BY <1>1, <1>2, <1>3

LEMMA FirstWoken ==
    ASSUME TypeOK, NEW o \in Object, queue[o] # <<>>, wakeupSingleThreadWaitQueue(o)
    PROVE  /\ queue' \in [Object -> Seq(Thread)]
           /\ \A p \in Object : NoDuplicates(queue'[p])
           /\ Head(queue[o]) \in Threads(queue[o])
           /\ Threads(queue'[o]) = Threads(queue[o]) \ {Head(queue[o])}
           /\ \A p \in Object \ {o} : queue'[p] = queue[p]
<1>1. queue' = [queue EXCEPT ![o] = Tail(queue[o])] /\ queue \in [Object -> Seq(Thread)]
  BY DEF TypeOK, wakeupSingleThreadWaitQueue
<1>2. queue[o] \in Seq(Thread) /\ \A p \in Object : NoDuplicates(queue[p])
  BY DEF TypeOK
<1>3. /\ Head(queue[o]) \in Threads(queue[o]) /\ Tail(queue[o]) \in Seq(Thread)
      /\ Threads(Tail(queue[o])) = Threads(queue[o]) \ {Head(queue[o])}
      /\ NoDuplicates(Tail(queue[o]))
  BY <1>2, TakeFirstProperties
<1> QED BY <1>1, <1>2, <1>3

\* What the timeout handler does to them.
LEMMA WaitCancelled ==
    ASSUME TypeOK, NEW o \in Object, NEW t \in Threads(queue[o]),
           queue' = [queue EXCEPT ![o] = removeThread(@, t)]
    PROVE  /\ queue' \in [Object -> Seq(Thread)]
           /\ \A p \in Object : NoDuplicates(queue'[p])
           /\ Threads(queue'[o]) = Threads(queue[o]) \ {t}
           /\ \A p \in Object \ {o} : queue'[p] = queue[p]
<1>1. queue[o] \in Seq(Thread) /\ \A p \in Object : NoDuplicates(queue[p])
  BY DEF TypeOK
<1>2. queue \in [Object -> Seq(Thread)]
  BY DEF TypeOK
<1>3. /\ removeThread(queue[o], t) \in Seq(Thread)
      /\ Threads(removeThread(queue[o], t)) = Threads(queue[o]) \ {t}
      /\ NoDuplicates(removeThread(queue[o], t))
  BY <1>1, RemoveThreadProperties
<1> QED BY <1>1, <1>2, <1>3

\* A step in which queues lose threads keeps them exact if a thread whose call
\* changes was not waiting.
LEMMA QueuesShrink ==
    ASSUME TypeOK, NEW t \in Thread,
           \A p \in Object : NoDuplicates(queue'[p]) /\ Threads(queue'[p]) \subseteq Threads(queue[p]),
           \A u \in Thread \ {t} : call'[u] = call[u],
           call'[t] = call[t] \/ ~IsWaiting(t)
    PROVE  QueuesExact'
<1>1. ASSUME NEW o \in Object, NEW u \in Threads(queue'[o])
      PROVE  o \in WaitsIn(u)' /\ \A p \in Object \ {o} : u \notin Threads(queue'[p])
  <2>1. u \in Threads(queue[o]) /\ u \in Thread
    BY ThreadsTyped
  <2>2. o \in WaitsIn(u) /\ \A p \in Object \ {o} : u \notin Threads(queue[p])
    BY <2>1 DEF TypeOK
  <2>3. call'[u] = call[u]
    BY <2>1 DEF IsWaiting
  <2> QED BY <2>2, <2>3 DEF WaitsIn
<1> QED BY <1>1 DEF QueuesExact

\* A step in which a running thread t starts to wait in o.
LEMMA QueuesGrow ==
    ASSUME TypeOK, NEW t \in Thread, NEW o \in Object, ~IsWaiting(t),
           \A p \in Object : NoDuplicates(queue'[p]),
           \A p \in Object \ {o} : Threads(queue'[p]) \subseteq Threads(queue[p]),
           Threads(queue'[o]) = Threads(queue[o]) \union {t},
           \A u \in Thread \ {t} : call'[u] = call[u],
           o \in WaitsIn(t)'
    PROVE  QueuesExact'
<1>1. ASSUME NEW q \in Object, NEW u \in Threads(queue'[q]), u # t
      PROVE  q \in WaitsIn(u)' /\ \A p \in Object \ {q} : u \notin Threads(queue'[p])
  <2>1. u \in Threads(queue[q]) /\ u \in Thread
    BY <1>1, ThreadsTyped
  <2>2. q \in WaitsIn(u) /\ \A p \in Object \ {q} : u \notin Threads(queue[p])
    BY <2>1 DEF TypeOK
  <2>3. call'[u] = call[u]
    BY <1>1, <2>1
  <2>4. \A p \in Object \ {q} : u \notin Threads(queue'[p])
    BY <1>1, <2>2
  <2> QED BY <2>2, <2>3, <2>4 DEF WaitsIn
<1>2. ASSUME NEW q \in Object, t \in Threads(queue'[q]) PROVE q = o
  BY <1>2 DEF IsWaiting
<1>3. ASSUME NEW q \in Object, NEW u \in Threads(queue'[q])
      PROVE  q \in WaitsIn(u)' /\ \A p \in Object \ {q} : u \notin Threads(queue'[p])
  <2>1. CASE u # t
    BY <1>1, <2>1
  <2>2. CASE u = t
    BY <1>2, <2>2
  <2> QED BY <2>1, <2>2
<1> QED BY <1>3 DEF QueuesExact

LEMMA Entered ==
    ASSUME TypeOK, NEW t \in Thread, NEW r \in Requests, Enters(t, r)
    PROVE  /\ call' \in [Thread -> Requests] /\ call'[t] = r
           /\ \A u \in Thread \ {t} : call'[u] = call[u]
  BY DEF TypeOK, Enters

LEMMA Returned ==
    ASSUME TypeOK, NEW t \in Thread, Returns(t)
    PROVE  /\ call' \in [Thread -> Requests] /\ call'[t] = NoCall
           /\ \A u \in Thread \ {t} : call'[u] = call[u]
<1>1. NoCall \in Requests
  BY DEF NoCall, Requests
<1> QED BY <1>1, Entered DEF Returns

\* A thread that calls is not waiting.
LEMMA CallersRun ==
    ASSUME TypeOK, NEW t \in Thread, call[t] = NoCall \/ InCall(t, "exit")
    PROVE  ~IsWaiting(t)
<1>1. WaitsIn(t) = {}
  BY DEF WaitsIn, NoCall, InCall
<1> QED BY <1>1, WaitingExact
-----------------------------------------------------------------------------
(* Signals.                                                                 *)

\* What a signal does: it wakes threads of e, notes those of timed waits, and
\* sets the event only if no thread is left waiting.
SignalEffect(e) ==
    /\ queue' \in [Object -> Seq(Thread)]
    /\ \A p \in Object : NoDuplicates(queue'[p]) /\ Threads(queue'[p]) \subseteq Threads(queue[p])
    /\ \A p \in Object \ {e} : queue'[p] = queue[p]
    /\ signaled \subseteq signaled' /\ signaled' \subseteq signaled \union {e}
    /\ e \in signaled' => (e \in signaled /\ queue' = queue) \/ queue'[e] = <<>>
    /\ granted' = granted \union
         {u \in Threads(queue[e]) \ Threads(queue'[e]) : InCall(u, "timed")}

LEMMA WakesFirstEffect ==
    ASSUME TypeOK, NEW e \in AllEvents, queue[e] # <<>>, WakesFirst(e)
    PROVE  /\ queue' \in [Object -> Seq(Thread)]
           /\ \A p \in Object : NoDuplicates(queue'[p]) /\ Threads(queue'[p]) \subseteq Threads(queue[p])
           /\ \A p \in Object \ {e} : queue'[p] = queue[p]
           /\ granted' = granted \union
                {u \in Threads(queue[e]) \ Threads(queue'[e]) : InCall(u, "timed")}
<1>1. e \in Object
  BY Objects
<1>2. /\ queue' \in [Object -> Seq(Thread)]
      /\ \A p \in Object : NoDuplicates(queue'[p])
      /\ Head(queue[e]) \in Threads(queue[e])
      /\ Threads(queue'[e]) = Threads(queue[e]) \ {Head(queue[e])}
      /\ \A p \in Object \ {e} : queue'[p] = queue[p]
  BY <1>1, FirstWoken DEF WakesFirst
<1>3. Threads(queue[e]) \ Threads(queue'[e]) = {Head(queue[e])}
  BY <1>2
<1>4. granted' = granted \union {u \in {Head(queue[e])} : InCall(u, "timed")}
  BY DEF WakesFirst, Grants
<1> QED BY <1>2, <1>3, <1>4

LEMMA WakesAllEffect ==
    ASSUME TypeOK, NEW e \in AllEvents, WakesAll(e)
    PROVE  /\ queue' \in [Object -> Seq(Thread)]
           /\ \A p \in Object : NoDuplicates(queue'[p]) /\ Threads(queue'[p]) \subseteq Threads(queue[p])
           /\ \A p \in Object \ {e} : queue'[p] = queue[p]
           /\ queue'[e] = <<>>
           /\ granted' = granted \union
                {u \in Threads(queue[e]) \ Threads(queue'[e]) : InCall(u, "timed")}
<1>1. e \in Object
  BY Objects
<1>2. /\ queue' \in [Object -> Seq(Thread)]
      /\ \A p \in Object : NoDuplicates(queue'[p])
      /\ Threads(queue'[e]) = {} /\ queue'[e] = <<>>
      /\ \A p \in Object \ {e} : queue'[p] = queue[p]
  BY <1>1, AllWoken DEF WakesAll
<1>3. Threads(queue[e]) \ Threads(queue'[e]) = Threads(queue[e])
  BY <1>2
<1>4. granted' = granted \union {u \in Threads(queue[e]) : InCall(u, "timed")}
  BY DEF WakesAll, Grants
<1> QED BY <1>2, <1>3, <1>4

LEMMA NothingSignaled ==
    ASSUME TypeOK, NEW e \in AllEvents, UNCHANGED <<queue, granted>>
    PROVE  /\ queue' \in [Object -> Seq(Thread)]
           /\ \A p \in Object : NoDuplicates(queue'[p]) /\ Threads(queue'[p]) \subseteq Threads(queue[p])
           /\ \A p \in Object \ {e} : queue'[p] = queue[p]
           /\ granted' = granted \union
                {u \in Threads(queue[e]) \ Threads(queue'[e]) : InCall(u, "timed")}
  BY DEF TypeOK

LEMMA Signals ==
    ASSUME TypeOK, NEW e \in AllEvents, OSSignalEventInternal(e) \/ OSSignalEventAllInternal(e)
    PROVE  SignalEffect(e)
<1>1. CASE e \in signaled /\ UNCHANGED <<signaled, queue, granted>>
  BY <1>1, NothingSignaled DEF SignalEffect
<1>2. CASE /\ e \notin signaled /\ mode[e] = "AUTO" /\ queue[e] = <<>>
           /\ signaled' = signaled \union {e} /\ UNCHANGED <<queue, granted>>
  BY <1>2, NothingSignaled DEF SignalEffect
<1>3. CASE /\ e \notin signaled /\ mode[e] = "AUTO" /\ queue[e] # <<>>
           /\ WakesFirst(e) /\ UNCHANGED signaled
  BY <1>3, WakesFirstEffect DEF SignalEffect
<1>4. CASE e \notin signaled /\ WakesAll(e) /\ UNCHANGED signaled
  BY <1>4, WakesAllEffect DEF SignalEffect
<1>5. CASE e \notin signaled /\ signaled' = signaled \union {e} /\ WakesAll(e)
  BY <1>5, WakesAllEffect DEF SignalEffect
<1> QED BY <1>1, <1>2, <1>3, <1>4, <1>5
        DEF OSSignalEventInternal, OSSignalEventAllInternal, SignalWith

\* A signal to all leaves nobody asleep.
LEMMA SignalsAll ==
    ASSUME TypeOK, NEW e \in AllEvents, OSSignalEventAllInternal(e), e \in signaled => queue[e] = <<>>
    PROVE  queue'[e] = <<>>
<1>1. CASE UNCHANGED queue /\ queue[e] = <<>>
  BY <1>1
<1>2. CASE WakesAll(e)
  BY <1>2, WakesAllEffect
<1> QED BY <1>1, <1>2, Objects DEF OSSignalEventAllInternal, SignalWith
-----------------------------------------------------------------------------
(* Types.                                                                   *)

\* How the inductive invariant is made up.
NoResultWhileWaiting == \A t \in hasTimeout \union granted : GoesOn(t, "timed")

IInv ==
    /\ TypeOK
    /\ SignaledEventHasNoWaiter /\ TimeoutTakesNoSignal /\ NoResultWhileWaiting
    /\ SleepsOnlyUnmet
    /\ MutexesExact /\ FreeMutexIsComeFor
    /\ NobodyWaitsBesideUnit

\* The parts of TypeOK that the groups of actions disturb.
EventTypes ==
    /\ signaled \subseteq AllEvents
    /\ hostAlarm \subseteq Thread /\ hasTimeout \subseteq Thread /\ granted \subseteq Thread

MutexTypes ==
    /\ owner \in [Mutex -> Thread \union {None}] /\ lockCount \in [Mutex -> Nat]
    /\ mutexQueue \in [Thread -> Seq(Mutex)]
    /\ held \in [Thread -> [Mutex -> Nat]]

LEMMA TypeParts ==
    TypeOK <=> /\ queue \in [Object -> Seq(Thread)] /\ QueuesExact
               /\ EventTypes /\ MutexTypes
               /\ cancelled \subseteq Thread /\ count \in Int
               /\ coreHit \in [Rendezvous -> SUBSET Core]
               /\ call \in [Thread -> Requests] /\ program \in Programs
  BY DEF TypeOK, QueuesExact, EventTypes, MutexTypes, AllEvents

\* The queues and calls after a step that leaves both alone.
LEMMA QueuesSame ==
    ASSUME TypeOK, UNCHANGED <<queue, call>>
    PROVE  queue' \in [Object -> Seq(Thread)] /\ QueuesExact' /\ call' \in [Thread -> Requests]
  BY DEF TypeOK, QueuesExact, WaitsIn

LEMMA ReturnKeepsQueues ==
    ASSUME TypeOK, NEW t \in Thread, ~IsWaiting(t), Returns(t) \/ (\E r \in Requests : Enters(t, r)),
           UNCHANGED queue
    PROVE  queue' \in [Object -> Seq(Thread)] /\ QueuesExact' /\ call' \in [Thread -> Requests]
<1>1. call' \in [Thread -> Requests] /\ \A u \in Thread \ {t} : call'[u] = call[u]
  BY Returned, Entered
<1>2. \A p \in Object : NoDuplicates(queue'[p]) /\ Threads(queue'[p]) \subseteq Threads(queue[p])
  BY DEF TypeOK
<1>3. queue' \in [Object -> Seq(Thread)]
  BY DEF TypeOK
<1> QED BY <1>1, <1>2, <1>3, QueuesShrink

LEMMA WaitKeepsQueues ==
    ASSUME TypeOK, NEW t \in Thread, ~IsWaiting(t), NEW o \in Object, queueAndWait(t, o),
           call' \in [Thread -> Requests], \A u \in Thread \ {t} : call'[u] = call[u],
           o \in WaitsIn(t)'
    PROVE  queue' \in [Object -> Seq(Thread)] /\ QueuesExact'
<1>1. /\ queue' \in [Object -> Seq(Thread)]
      /\ \A p \in Object : NoDuplicates(queue'[p])
      /\ Threads(queue'[o]) = Threads(queue[o]) \union {t}
      /\ \A p \in Object \ {o} : queue'[p] = queue[p]
  BY Enqueued
<1> QED BY <1>1, QueuesGrow

\* The requests of calls that wait.
LEMMA WaitRequests ==
    /\ \A e \in Event : /\ [op |-> "event", event |-> e] \in Requests
                        /\ [op |-> "timed", event |-> e] \in Requests
    /\ \A r \in Rendezvous, coreMask \in CoreMasks :
          [op |-> "rendezvous", rendezvous |-> r, coreMask |-> coreMask] \in Requests
    /\ \A m \in Mutex : [op |-> "lock", mutex |-> m] \in Requests
    /\ \A m \in Mutex, n \in Nat \ {0} :
          [op |-> "cond", mutex |-> m, prevLockCount |-> n] \in Requests
    /\ [op |-> "semaphore"] \in Requests
    /\ [op |-> "exit"] \in Requests /\ [op |-> "exited"] \in Requests
    /\ NoCall \in Requests
  BY DEF Requests, NoCall

LEMMA EventStepTypes ==
    ASSUME IInv, NEW t \in Thread, EventStep(t)
    PROVE  queue' \in [Object -> Seq(Thread)] /\ QueuesExact' /\ EventTypes'
           /\ call' \in [Thread -> Requests]
<1> DEFINE P == /\ queue' \in [Object -> Seq(Thread)] /\ QueuesExact' /\ EventTypes'
                /\ call' \in [Thread -> Requests]
<1>0. TypeOK /\ EventTypes
  BY TypeParts DEF IInv
<1>e. ASSUME NEW e \in Event PROVE e \in AllEvents /\ e \in Object
  BY Objects DEF AllEvents
<1>1. ASSUME NEW e \in Event, OSResetEvent(t, e) PROVE P
  BY <1>0, <1>1, QueuesSame DEF OSResetEvent, EventTypes
<1>2. ASSUME NEW e \in Event, OSWaitEvent(t, e) PROVE P
  <2>1. CASE TakeSignal(e) /\ UNCHANGED <<queue, call, hostAlarm, hasTimeout, granted>>
    BY <1>0, <2>1, QueuesSame DEF TakeSignal, EventTypes
  <2>2. CASE /\ queueAndWait(t, e) /\ Enters(t, [op |-> "event", event |-> e])
             /\ UNCHANGED <<signaled, hostAlarm, hasTimeout, granted>>
    <3>1. ~IsWaiting(t)
      BY <1>0, <1>2, CallersRun DEF OSWaitEvent, Calls
    <3>2. call' \in [Thread -> Requests] /\ call'[t] = [op |-> "event", event |-> e]
          /\ \A u \in Thread \ {t} : call'[u] = call[u]
      BY <1>0, <2>2, WaitRequests, Entered
    <3>3. e \in WaitsIn(t)'
      BY <3>2 DEF WaitsIn
    <3> QED BY <1>0, <1>e, <2>2, <3>1, <3>2, <3>3, WaitKeepsQueues DEF EventTypes
  <2> QED BY <1>2, <2>1, <2>2 DEF OSWaitEvent
<1>3. ASSUME NEW e \in Event, OSWaitEventWithTimeout(t, e) PROVE P
  <2>1. CASE TakeSignal(e) /\ UNCHANGED <<queue, call, hostAlarm, hasTimeout, granted>>
    BY <1>0, <2>1, QueuesSame DEF TakeSignal, EventTypes
  <2>2. CASE /\ queueAndWait(t, e) /\ Enters(t, [op |-> "timed", event |-> e])
             /\ hostAlarm' = hostAlarm \union {t}
             /\ UNCHANGED <<signaled, hasTimeout, granted>>
    <3>1. ~IsWaiting(t)
      BY <1>0, <1>3, CallersRun DEF OSWaitEventWithTimeout, Calls
    <3>2. call' \in [Thread -> Requests] /\ call'[t] = [op |-> "timed", event |-> e]
          /\ \A u \in Thread \ {t} : call'[u] = call[u]
      BY <1>0, <2>2, WaitRequests, Entered
    <3>3. e \in WaitsIn(t)'
      BY <3>2 DEF WaitsIn
    <3> QED BY <1>0, <1>e, <2>2, <3>1, <3>2, <3>3, WaitKeepsQueues DEF EventTypes
  <2> QED BY <1>3, <2>1, <2>2 DEF OSWaitEventWithTimeout
<1>4. ASSUME NEW e \in Event, OSSignalEvent(t, e) \/ OSSignalEventAll(t, e) PROVE P
  <2>1. SignalEffect(e) /\ UNCHANGED <<hostAlarm, hasTimeout, call>>
    BY <1>0, <1>e, <1>4, Signals DEF OSSignalEvent, OSSignalEventAll
  <2>2. QueuesExact'
    BY <1>0, <2>1, QueuesShrink DEF SignalEffect
  <2>3. Threads(queue[e]) \subseteq Thread
    BY <1>0, <1>e, ThreadsTyped
  <2>4. call' \in [Thread -> Requests]
    BY <1>0, <2>1 DEF TypeOK
  <2> QED BY <1>0, <1>e, <2>1, <2>2, <2>3, <2>4 DEF SignalEffect, EventTypes
<1>5. ASSUME WaitEventReturns(t) PROVE P
  BY <1>0, <1>5, ReturnKeepsQueues DEF WaitEventReturns, GoesOn, EventTypes, eventVars
<1>6. ASSUME _OSWaitEventWithTimeoutHandler(t) PROVE P
  <2>1. CASE IsWaiting(t) /\ CancelWait(t)
    <3> DEFINE e == call[t].event
    <3>1. InCall(t, "timed")
      BY <1>6 DEF IInv, TimeoutTakesNoSignal, _OSWaitEventWithTimeoutHandler
    <3>2. WaitsIn(t) = {e}
      BY <3>1 DEF WaitsIn, InCall
    <3>3. e \in Object /\ t \in Threads(queue[e])
      BY <1>0, <2>1, <3>2, WaitingExact
    <3>4. queue' = [queue EXCEPT ![e] = removeThread(@, t)]
      BY <2>1 DEF CancelWait
    <3> HIDE DEF e
    <3>5. /\ queue' \in [Object -> Seq(Thread)]
          /\ \A p \in Object : NoDuplicates(queue'[p])
          /\ Threads(queue'[e]) = Threads(queue[e]) \ {t}
          /\ \A p \in Object \ {e} : queue'[p] = queue[p]
      BY <1>0, <3>3, <3>4, WaitCancelled
    <3>6. call' = call /\ call \in [Thread -> Requests]
      BY <1>0, <1>6 DEF _OSWaitEventWithTimeoutHandler, TypeOK
    <3>7. QueuesExact'
      BY <1>0, <3>5, <3>6, QueuesShrink
    <3>8. EventTypes'
      BY <1>0, <1>6, <2>1 DEF _OSWaitEventWithTimeoutHandler, CancelWait, EventTypes
    <3> QED BY <3>5, <3>6, <3>7, <3>8
  <2>2. CASE UNCHANGED <<hasTimeout, queue>>
    BY <1>0, <1>6, <2>2, QueuesSame DEF _OSWaitEventWithTimeoutHandler, EventTypes
  <2> QED BY <1>6, <2>1, <2>2 DEF _OSWaitEventWithTimeoutHandler
<1>7. ASSUME TimedWaitReturns(t) PROVE P
  BY <1>0, <1>7, ReturnKeepsQueues DEF TimedWaitReturns, GoesOn, EventTypes
<1> QED BY <1>1, <1>2, <1>3, <1>4, <1>5, <1>6, <1>7 DEF EventStep

LEMMA RendezvousStepTypes ==
    ASSUME IInv, NEW t \in Thread, RendezvousStep(t)
    PROVE  queue' \in [Object -> Seq(Thread)] /\ QueuesExact' /\ EventTypes'
           /\ call' \in [Thread -> Requests] /\ coreHit' \in [Rendezvous -> SUBSET Core]
<1> DEFINE P == /\ queue' \in [Object -> Seq(Thread)] /\ QueuesExact' /\ EventTypes'
                /\ call' \in [Thread -> Requests] /\ coreHit' \in [Rendezvous -> SUBSET Core]
           e == rendezvousEvent
<1>0. /\ TypeOK /\ EventTypes /\ coreHit \in [Rendezvous -> SUBSET Core]
      /\ e \in AllEvents /\ e \in Object /\ coreOf \in [Thread -> Core]
  BY TypeParts, Objects DEF IInv, AllEvents
<1>1. ASSUME NEW r \in Rendezvous, OSInitRendezvous(t, r) PROVE P
  BY <1>0, <1>1, QueuesSame DEF OSInitRendezvous, EventTypes, eventVars
<1>2. ASSUME NEW r \in Rendezvous, NEW coreMask \in CoreMasks, OSWaitRendezvous(t, r, coreMask) PROVE P
  <2>1. ~IsWaiting(t)
    BY <1>0, <1>2, CallersRun DEF OSWaitRendezvous, Calls
  <2>2. call' \in [Thread -> Requests] /\ \A u \in Thread \ {t} : call'[u] = call[u]
    BY <1>0, <1>2, WaitRequests, Entered DEF OSWaitRendezvous
  <2>3. SignalEffect(e)
    BY <1>0, <1>2, Signals DEF OSWaitRendezvous
  <2>4. QueuesExact'
    BY <1>0, <2>1, <2>2, <2>3, QueuesShrink DEF SignalEffect
  <2>5. Threads(queue[e]) \subseteq Thread
    BY <1>0, ThreadsTyped
  <2>6. EventTypes'
    BY <1>0, <1>2, <2>3, <2>5 DEF SignalEffect, EventTypes, OSWaitRendezvous
  <2>7. coreHit' \in [Rendezvous -> SUBSET Core]
    BY <1>0, <1>2 DEF OSWaitRendezvous
  <2> QED BY <2>2, <2>3, <2>4, <2>6, <2>7 DEF SignalEffect
<1>3. ASSUME RendezvousLoop(t) PROVE P
  <2>1. ~IsWaiting(t)
    BY <1>3 DEF RendezvousLoop, GoesOn
  <2>2. coreHit' \in [Rendezvous -> SUBSET Core] /\ EventTypes'
    BY <1>0, <1>3 DEF RendezvousLoop, EventTypes
  <2>3. CASE Returns(t) /\ UNCHANGED queue
    BY <1>0, <2>1, <2>2, <2>3, ReturnKeepsQueues
  <2>4. CASE queueAndWait(t, e) /\ UNCHANGED call
    <3>1. call' \in [Thread -> Requests] /\ \A u \in Thread \ {t} : call'[u] = call[u]
      BY <1>0, <2>4 DEF TypeOK
    <3>2. e \in WaitsIn(t)'
      BY <1>3, <2>4 DEF RendezvousLoop, GoesOn, InCall, WaitsIn
    <3> HIDE DEF e
    <3> QED BY <1>0, <2>1, <2>2, <2>4, <3>1, <3>2, WaitKeepsQueues
  <2> QED BY <1>3, <2>3, <2>4 DEF RendezvousLoop
<1> QED BY <1>1, <1>2, <1>3 DEF RendezvousStep

LEMMA SemaphoreStepTypes ==
    ASSUME IInv, NEW t \in Thread, SemaphoreStep(t)
    PROVE  queue' \in [Object -> Seq(Thread)] /\ QueuesExact' /\ count' \in Int
           /\ call' \in [Thread -> Requests]
<1> DEFINE P == /\ queue' \in [Object -> Seq(Thread)] /\ QueuesExact' /\ count' \in Int
                /\ call' \in [Thread -> Requests]
<1>0. TypeOK /\ count \in Int /\ semaphore \in Object
  BY Objects DEF IInv, TypeOK
<1>1. ASSUME OSWaitSemaphore(t) PROVE P
  <2>1. CASE TakesUnit /\ UNCHANGED call
    BY <1>0, <2>1, QueuesSame DEF TakesUnit
  <2>2. CASE queueAndWait(t, semaphore) /\ Enters(t, [op |-> "semaphore"]) /\ UNCHANGED count
    <3>1. ~IsWaiting(t)
      BY <1>0, <1>1, CallersRun DEF OSWaitSemaphore, Calls
    <3>2. call' \in [Thread -> Requests] /\ call'[t] = [op |-> "semaphore"]
          /\ \A u \in Thread \ {t} : call'[u] = call[u]
      BY <1>0, <2>2, WaitRequests, Entered
    <3>3. semaphore \in WaitsIn(t)'
      BY <3>2 DEF WaitsIn
    <3> QED BY <1>0, <2>2, <3>1, <3>2, <3>3, WaitKeepsQueues
  <2> QED BY <1>1, <2>1, <2>2 DEF OSWaitSemaphore
<1>2. ASSUME SemaphoreLoop(t) PROVE P
  <2>1. CASE TakesUnit /\ Returns(t)
    BY <1>0, <1>2, <2>1, ReturnKeepsQueues DEF TakesUnit, SemaphoreLoop, GoesOn
  <2>2. CASE queueAndWait(t, semaphore) /\ UNCHANGED <<count, call>>
    <3>1. ~IsWaiting(t) /\ semaphore \in WaitsIn(t)'
      BY <1>2, <2>2 DEF SemaphoreLoop, GoesOn, WaitsIn, InCall
    <3>2. call' \in [Thread -> Requests] /\ \A u \in Thread \ {t} : call'[u] = call[u]
      BY <1>0, <2>2 DEF TypeOK
    <3> QED BY <1>0, <2>2, <3>1, <3>2, WaitKeepsQueues
  <2> QED BY <1>2, <2>1, <2>2 DEF SemaphoreLoop
<1>3. ASSUME OSTryWaitSemaphore(t) PROVE P
  BY <1>0, <1>3, QueuesSame DEF OSTryWaitSemaphore, TakesUnit
<1>4. ASSUME OSSignalSemaphore(t) PROVE P
  <2>1. /\ queue' \in [Object -> Seq(Thread)]
        /\ \A p \in Object : NoDuplicates(queue'[p])
        /\ Threads(queue'[semaphore]) = {}
        /\ \A p \in Object \ {semaphore} : queue'[p] = queue[p]
    BY <1>0, <1>4, AllWoken DEF OSSignalSemaphore
  <2>2. call' = call /\ call' \in [Thread -> Requests] /\ count' \in Int
    BY <1>0, <1>4 DEF OSSignalSemaphore, TypeOK
  <2> QED BY <1>0, <2>1, <2>2, QueuesShrink
<1> QED BY <1>1, <1>2, <1>3, <1>4 DEF SemaphoreStep
-----------------------------------------------------------------------------
(* Mutexes.                                                                 *)

\* What is known of the mutexes, spelled out.
LEMMA MutexFacts ==
    ASSUME IInv
    PROVE  /\ owner \in [Mutex -> Thread \union {None}] /\ lockCount \in [Mutex -> Nat]
           /\ mutexQueue \in [Thread -> Seq(Mutex)] /\ held \in [Thread -> [Mutex -> Nat]]
           /\ \A m \in Mutex : lockCount[m] = 0 <=> owner[m] = None
           /\ \A t \in Thread : NoDuplicates(mutexQueue[t])
           /\ \A t \in Thread, m \in Mutex :
                 /\ m \in Threads(mutexQueue[t]) <=> owner[m] = t
                 /\ owner[m] = t => lockCount[m] = held[t][m]
  BY DEF IInv, TypeOK, MutexesExact

\* The effect of locking and freeing on owners, counts and lists.
LockEffect(t, m, n) ==
    /\ owner' \in [Mutex -> Thread \union {None}] /\ lockCount' \in [Mutex -> Nat]
    /\ mutexQueue' \in [Thread -> Seq(Mutex)]
    /\ owner'[m] = t /\ lockCount'[m] = n
    /\ \A k \in Mutex \ {m} : owner'[k] = owner[k] /\ lockCount'[k] = lockCount[k]
    /\ \A u \in Thread \ {t} : mutexQueue'[u] = mutexQueue[u]
    /\ NoDuplicates(mutexQueue'[t])
    /\ Threads(mutexQueue'[t]) = Threads(mutexQueue[t]) \union {m}

LEMMA Locking ==
    ASSUME IInv, NEW t \in Thread, NEW m \in Mutex, owner[m] \in {None, t}, NEW n \in Nat,
           Locks(t, m, n)
    PROVE  LockEffect(t, m, n)
<1>0. None \notin Thread
  BY Objects
<1>1. /\ owner' \in [Mutex -> Thread \union {None}] /\ lockCount' \in [Mutex -> Nat]
      /\ owner'[m] = t /\ lockCount'[m] = n
      /\ \A k \in Mutex \ {m} : owner'[k] = owner[k] /\ lockCount'[k] = lockCount[k]
  BY MutexFacts DEF Locks
<1>2. CASE owner[m] = t
  BY <1>1, <1>2, MutexFacts DEF Locks, LockEffect
<1>3. CASE owner[m] = None
  <2>1. mutexQueue' = [mutexQueue EXCEPT ![t] = Append(mutexQueue[t], m)]
    BY <1>0, <1>3 DEF Locks
  <2>2. mutexQueue[t] \in Seq(Mutex) /\ NoDuplicates(mutexQueue[t]) /\ m \notin Threads(mutexQueue[t])
    BY <1>0, <1>3, MutexFacts
  <2>3. /\ Append(mutexQueue[t], m) \in Seq(Mutex) /\ NoDuplicates(Append(mutexQueue[t], m))
        /\ Threads(Append(mutexQueue[t], m)) = Threads(mutexQueue[t]) \union {m}
    BY <2>2, AddThreadProperties DEF addThread
  <2>4. /\ mutexQueue' \in [Thread -> Seq(Mutex)]
        /\ mutexQueue'[t] = Append(mutexQueue[t], m)
        /\ \A u \in Thread \ {t} : mutexQueue'[u] = mutexQueue[u]
    BY <2>1, <2>3, MutexFacts
  <2> QED BY <1>1, <2>3, <2>4 DEF LockEffect
<1> QED BY <1>2, <1>3

FreeEffect(t, m) ==
    /\ owner' \in [Mutex -> Thread \union {None}] /\ lockCount' \in [Mutex -> Nat]
    /\ mutexQueue' \in [Thread -> Seq(Mutex)]
    /\ owner'[m] = None /\ lockCount'[m] = 0
    /\ \A k \in Mutex \ {m} : owner'[k] = owner[k] /\ lockCount'[k] = lockCount[k]
    /\ \A u \in Thread \ {t} : mutexQueue'[u] = mutexQueue[u]
    /\ NoDuplicates(mutexQueue'[t])
    /\ Threads(mutexQueue'[t]) = Threads(mutexQueue[t]) \ {m}

LEMMA Freeing ==
    ASSUME IInv, NEW t \in Thread, NEW m \in Mutex, owner[m] = t, Frees(t, m)
    PROVE  FreeEffect(t, m)
<1>1. /\ owner' \in [Mutex -> Thread \union {None}] /\ lockCount' \in [Mutex -> Nat]
      /\ owner'[m] = None /\ lockCount'[m] = 0
      /\ \A k \in Mutex \ {m} : owner'[k] = owner[k] /\ lockCount'[k] = lockCount[k]
  BY MutexFacts DEF Frees
<1>2. mutexQueue[t] \in Seq(Mutex) /\ NoDuplicates(mutexQueue[t]) /\ m \in Threads(mutexQueue[t])
  BY MutexFacts
<1> DEFINE q == removeThread(mutexQueue[t], m)
<1>3. q \in Seq(Mutex) /\ NoDuplicates(q) /\ Threads(q) = Threads(mutexQueue[t]) \ {m}
  BY <1>2, RemoveThreadProperties
<1> HIDE DEF q
<1>4. mutexQueue' = [mutexQueue EXCEPT ![t] = q]
  BY DEF Frees, q
<1>5. /\ mutexQueue' \in [Thread -> Seq(Mutex)] /\ mutexQueue'[t] = q
      /\ \A u \in Thread \ {t} : mutexQueue'[u] = mutexQueue[u]
  BY <1>3, <1>4, MutexFacts
<1> QED BY <1>1, <1>3, <1>5 DEF FreeEffect

LEMMA Holding ==
    ASSUME IInv, NEW t \in Thread, NEW m \in Mutex, NEW n \in Nat, HeldBecomes(t, m, n)
    PROVE  /\ held' \in [Thread -> [Mutex -> Nat]] /\ held'[t][m] = n
           /\ \A u \in Thread, k \in Mutex : u # t \/ k # m => held'[u][k] = held[u][k]
  BY MutexFacts DEF HeldBecomes

\* A wait for a mutex, as OSLockMutexInternal does it.
LEMMA LockWaitsTypes ==
    ASSUME IInv, NEW t \in Thread, NEW m \in Mutex, LockWaits(t, m), ~IsWaiting(t),
           call' \in [Thread -> Requests], \A u \in Thread \ {t} : call'[u] = call[u],
           m \in WaitsIn(t)'
    PROVE  queue' \in [Object -> Seq(Thread)] /\ QueuesExact' /\ MutexTypes'
<1>1. m \in Object /\ TypeOK /\ MutexTypes
  BY Objects, TypeParts DEF IInv
<1>2. MutexTypes'
  BY <1>1 DEF LockWaits, MutexTypes, mutexVars
<1> QED BY <1>1, <1>2, WaitKeepsQueues DEF LockWaits

LEMMA NextOwnerWoken ==
    ASSUME TypeOK, NEW m \in Mutex, WakesNextOwner(m)
    PROVE  /\ queue' \in [Object -> Seq(Thread)]
           /\ \A p \in Object : NoDuplicates(queue'[p]) /\ Threads(queue'[p]) \subseteq Threads(queue[p])
           /\ \A p \in Object \ {m} : queue'[p] = queue[p]
           /\ queue[m] # <<>> => \E u \in Threads(queue[m]) : u \notin Threads(queue'[m])
           /\ queue[m] = <<>> => queue'[m] = <<>>
<1>1. m \in Object
  BY Objects
<1>2. CASE queue[m] # <<>> /\ wakeupSingleThreadWaitQueue(m)
  BY <1>1, <1>2, FirstWoken
<1>3. CASE queue[m] = <<>> /\ UNCHANGED queue
  BY <1>3 DEF TypeOK
<1> QED BY <1>2, <1>3 DEF WakesNextOwner

LEMMA LockedOnceMoreTyped ==
    ASSUME IInv, NEW t \in Thread, NEW m \in Mutex
    PROVE  LockedOnceMore(t, m) \in Nat \ {0}
  BY MutexFacts DEF LockedOnceMore

\* t locks a mutex that is free or its own, and notes it or not.
LEMMA LockKeepsTypes ==
    ASSUME IInv, NEW t \in Thread, NEW m \in Mutex, owner[m] \in {None, t}, NEW n \in Nat,
           Locks(t, m, n), HeldBecomes(t, m, held[t][m] + 1) \/ UNCHANGED held
    PROVE  MutexTypes'
<1>1. LockEffect(t, m, n)
  BY Locking
<1>2. held[t][m] \in Nat /\ held \in [Thread -> [Mutex -> Nat]]
  BY MutexFacts
<1>3. held' \in [Thread -> [Mutex -> Nat]]
  BY <1>2, Holding
<1> QED BY <1>1, <1>3 DEF LockEffect, MutexTypes

\* What OSWaitCond does to the queues.
LEMMA CondQueues ==
    ASSUME IInv, NEW t \in Thread, NEW m \in Mutex, OSWaitCond(t, m)
    PROVE  /\ queue' \in [Object -> Seq(Thread)]
           /\ \A p \in Object : NoDuplicates(queue'[p])
           /\ queue'[m] = <<>> /\ Threads(queue'[m]) = {}
           /\ Threads(queue'[cond]) = Threads(queue[cond]) \union {t}
           /\ \A p \in Object \ {m, cond} : queue'[p] = queue[p]
<1>0. TypeOK /\ m \in Object /\ cond \in Object /\ m # cond
  BY Objects DEF IInv
<1>1. ~IsWaiting(t)
  BY <1>0, CallersRun DEF OSWaitCond, Calls
<1>2. PICK i \in 0 .. Len(queue[cond]) :
          queue' = [queue EXCEPT ![m] = <<>>, ![cond] = insertBehind(@, i, t)]
  BY DEF OSWaitCond
<1> DEFINE q == insertBehind(queue[cond], i, t)
<1>3. queue[cond] \in Seq(Thread) /\ NoDuplicates(queue[cond]) /\ t \notin Threads(queue[cond])
  <2>1. t \notin Threads(queue[cond])
    BY <1>0, <1>1 DEF IsWaiting
  <2> QED BY <1>0, <2>1, ThreadsTyped
<1>4. q \in Seq(Thread) /\ Threads(q) = Threads(queue[cond]) \union {t} /\ NoDuplicates(q)
  BY <1>3, InsertBehindProperties
<1>5. queue' = [queue EXCEPT ![m] = <<>>, ![cond] = q]
  BY <1>0, <1>2
<1> HIDE DEF q
<1>6. queue \in [Object -> Seq(Thread)] /\ \A p \in Object : NoDuplicates(queue[p])
  BY <1>0 DEF TypeOK
<1>7. Threads(<<>>) = {} /\ NoDuplicates(<<>>) /\ <<>> \in Seq(Thread)
  BY DEF Threads, NoDuplicates
<1> QED BY <1>0, <1>4, <1>5, <1>6, <1>7

LEMMA MutexStepTypes ==
    ASSUME IInv, NEW t \in Thread, MutexStep(t)
    PROVE  queue' \in [Object -> Seq(Thread)] /\ QueuesExact' /\ MutexTypes'
           /\ call' \in [Thread -> Requests] /\ cancelled' \subseteq Thread
<1> DEFINE P == /\ queue' \in [Object -> Seq(Thread)] /\ QueuesExact' /\ MutexTypes'
                /\ call' \in [Thread -> Requests] /\ cancelled' \subseteq Thread
<1>0. /\ TypeOK /\ MutexTypes /\ cancelled \subseteq Thread /\ call \in [Thread -> Requests]
      /\ \A m \in Mutex : m \in Object
      /\ cond \in Object
  BY TypeParts, Objects DEF IInv
<1>1. ASSUME NEW m \in Mutex, OSLockMutex(t, m) PROVE P
  <2>0. cancelled' \subseteq Thread
    BY <1>0, <1>1 DEF OSLockMutex
  <2>1. CASE /\ owner[m] \in {None, t} /\ Locks(t, m, LockedOnceMore(t, m))
             /\ HeldBecomes(t, m, held[t][m] + 1) /\ UNCHANGED <<queue, call>>
    <3>1. MutexTypes'
      BY <2>1, LockedOnceMoreTyped, LockKeepsTypes
    <3> QED BY <1>0, <2>0, <2>1, <3>1, QueuesSame
  <2>2. CASE LockWaits(t, m) /\ Enters(t, [op |-> "lock", mutex |-> m])
    <3>1. ~IsWaiting(t)
      BY <1>0, <1>1, CallersRun DEF OSLockMutex, Calls
    <3>2. call' \in [Thread -> Requests] /\ call'[t] = [op |-> "lock", mutex |-> m]
          /\ \A u \in Thread \ {t} : call'[u] = call[u]
      BY <1>0, <2>2, WaitRequests, Entered
    <3>3. m \in WaitsIn(t)'
      BY <3>2 DEF WaitsIn
    <3> QED BY <2>0, <2>2, <3>1, <3>2, <3>3, LockWaitsTypes
  <2> QED BY <1>1, <2>1, <2>2 DEF OSLockMutex
<1>2. ASSUME NEW m \in Mutex, OSTryLockMutex(t, m) PROVE P
  <2>1. MutexTypes'
    BY <1>2, LockedOnceMoreTyped, LockKeepsTypes DEF OSTryLockMutex
  <2> QED BY <1>0, <1>2, <2>1, QueuesSame DEF OSTryLockMutex
<1>3. ASSUME NEW m \in Mutex, OSUnlockMutex(t, m) PROVE P
  <2>0. /\ owner[m] = t /\ call' = call /\ cancelled' = cancelled
        /\ HeldBecomes(t, m, held[t][m] - 1)
    BY <1>3 DEF OSUnlockMutex
  <2>1. held[t][m] - 1 \in Nat
    BY <2>0, MutexFacts, Objects
  <2>2. held' \in [Thread -> [Mutex -> Nat]]
    BY <2>0, <2>1, Holding
  <2>3. CASE lockCount[m] > 1 /\ lockCount' = [lockCount EXCEPT ![m] = @ - 1]
             /\ UNCHANGED <<queue, owner, mutexQueue>>
    <3>1. MutexTypes'
      BY <1>0, <2>2, <2>3 DEF MutexTypes
    <3> QED BY <1>0, <2>0, <2>3, <3>1, QueuesSame
  <2>4. CASE Frees(t, m) /\ WakesNextOwner(m)
    <3>1. MutexTypes'
      BY <2>0, <2>2, <2>4, Freeing DEF FreeEffect, MutexTypes
    <3> QED BY <1>0, <2>0, <2>4, <3>1, NextOwnerWoken, QueuesShrink
  <2> QED BY <1>3, <2>3, <2>4 DEF OSUnlockMutex
<1>4. ASSUME NEW m \in Mutex, OSWaitCond(t, m) PROVE P
  <2>1. ~IsWaiting(t) /\ owner[m] = t /\ Frees(t, m)
    BY <1>0, <1>4, CallersRun DEF OSWaitCond, Calls
  <2>2. lockCount[m] \in Nat \ {0}
    BY <2>1, MutexFacts, Objects
  <2>3. /\ call' \in [Thread -> Requests] /\ call'[t].op = "cond"
        /\ \A u \in Thread \ {t} : call'[u] = call[u]
    BY <1>0, <1>4, <2>2, WaitRequests, Entered DEF OSWaitCond
  <2>4. cond \in WaitsIn(t)'
    BY <2>3 DEF WaitsIn
  <2>5. QueuesExact'
    BY <1>0, <1>4, <2>1, <2>3, <2>4, CondQueues, QueuesGrow
  <2>6. held' \in [Thread -> [Mutex -> Nat]]
    BY <1>4, MutexFacts DEF OSWaitCond
  <2>7. MutexTypes'
    BY <2>1, <2>6, Freeing DEF FreeEffect, MutexTypes
  <2>8. cancelled' \subseteq Thread
    BY <1>0, <1>4 DEF OSWaitCond
  <2> QED BY <1>4, <2>3, <2>5, <2>7, <2>8, CondQueues
<1>5. ASSUME NEW u \in Thread, OSCancelThread(t, u) PROVE P
  <2>1. ~IsWaiting(t)
    BY <1>0, <1>5, CallersRun DEF OSCancelThread, Calls
  <2>2. MutexTypes' /\ cancelled' \subseteq Thread /\ UNCHANGED queue
    BY <1>0, <1>5 DEF OSCancelThread, MutexTypes, mutexVars
  <2>3. Enters(t, [op |-> "exit"]) \/ UNCHANGED call
    BY <1>5 DEF OSCancelThread
  <2> QED BY <1>0, <2>1, <2>2, <2>3, ReturnKeepsQueues, WaitRequests, QueuesSame
<1>6. ASSUME LockLoop(t) PROVE P
  <2> DEFINE m == call[t].mutex
  <2>0. m \in Mutex /\ ~IsWaiting(t) /\ cancelled' \subseteq Thread /\ call[t].op = "lock"
    BY <1>0, <1>6 DEF LockLoop, GoesOn, InCall, Requests
  <2>1. CASE /\ owner[m] \in {None, t} /\ Locks(t, m, LockedOnceMore(t, m))
             /\ HeldBecomes(t, m, held[t][m] + 1) /\ Returns(t) /\ UNCHANGED queue
    <3> HIDE DEF m
    <3>1. MutexTypes'
      BY <2>0, <2>1, LockedOnceMoreTyped, LockKeepsTypes
    <3> QED BY <1>0, <2>0, <2>1, <3>1, ReturnKeepsQueues
  <2>2. CASE LockWaits(t, m) /\ UNCHANGED call
    <3>1. m \in WaitsIn(t)'
      BY <2>0, <2>2 DEF WaitsIn
    <3>2. call' \in [Thread -> Requests] /\ \A u \in Thread \ {t} : call'[u] = call[u]
      BY <1>0, <2>2
    <3> HIDE DEF m
    <3> QED BY <2>0, <2>2, <3>1, <3>2, LockWaitsTypes
  <2> QED BY <1>6, <2>1, <2>2 DEF LockLoop
<1>7. ASSUME CondLoop(t) PROVE P
  <2> DEFINE m == call[t].mutex
             n == call[t].prevLockCount
  <2>0. m \in Mutex /\ ~IsWaiting(t) /\ cancelled' \subseteq Thread /\ call[t].op = "cond" /\ n \in Nat
    BY <1>0, <1>7 DEF CondLoop, GoesOn, InCall, Requests
  <2>1. CASE /\ owner[m] \in {None, t} /\ Locks(t, m, n) /\ Returns(t) /\ UNCHANGED <<queue, held>>
    <3> HIDE DEF m, n
    <3>1. MutexTypes'
      BY <2>0, <2>1, LockKeepsTypes
    <3> QED BY <1>0, <2>0, <2>1, <3>1, ReturnKeepsQueues
  <2>2. CASE LockWaits(t, m) /\ UNCHANGED call
    <3>1. m \in WaitsIn(t)'
      BY <2>0, <2>2 DEF WaitsIn
    <3>2. call' \in [Thread -> Requests] /\ \A u \in Thread \ {t} : call'[u] = call[u]
      BY <1>0, <2>2
    <3> HIDE DEF m, n
    <3> QED BY <2>0, <2>2, <3>1, <3>2, LockWaitsTypes
  <2> QED BY <1>7, <2>1, <2>2 DEF CondLoop
<1>8. ASSUME LockingCancelled(t) \/ OSExitThread(t) \/ ExitEnds(t) PROVE P
  <2>1. MutexTypes' /\ cancelled' \subseteq Thread /\ UNCHANGED queue
    BY <1>0, <1>8 DEF LockingCancelled, OSExitThread, ExitEnds, MutexTypes, mutexVars
  <2>2. ~IsWaiting(t)
    BY <1>0, <1>8, CallersRun DEF LockingCancelled, OSExitThread, ExitEnds, Calls
  <2>3. \E r \in Requests : Enters(t, r)
    BY <1>8, WaitRequests DEF LockingCancelled, OSExitThread, ExitEnds
  <2> QED BY <1>0, <2>1, <2>2, <2>3, ReturnKeepsQueues
<1>9. ASSUME OSSignalCond(t) PROVE P
  <2>1. /\ MutexTypes' /\ cancelled' \subseteq Thread /\ call' = call
        /\ wakeupEntireWaitQueue(cond)
    BY <1>0, <1>9 DEF OSSignalCond, MutexTypes, mutexVars
  <2>2. /\ queue' \in [Object -> Seq(Thread)]
        /\ \A p \in Object : NoDuplicates(queue'[p]) /\ Threads(queue'[p]) \subseteq Threads(queue[p])
    BY <1>0, <2>1, AllWoken
  <2> QED BY <1>0, <2>1, <2>2, QueuesShrink
<1>10. ASSUME ExitUnlocks(t) PROVE P
  <2>1. PICK m \in Mutex : owner[m] = t /\ Frees(t, m) /\ HeldBecomes(t, m, 0) /\ WakesNextOwner(m)
    <3>1. mutexQueue[t] \in Seq(Mutex) /\ mutexQueue[t] # <<>>
      BY <1>10, MutexFacts DEF ExitUnlocks
    <3>2. Head(mutexQueue[t]) \in Mutex
      BY <3>1
    <3> QED BY <1>10, <3>2 DEF ExitUnlocks
  <2>2. MutexTypes'
    BY <2>1, Freeing, Holding DEF FreeEffect, MutexTypes
  <2>3. call' = call /\ cancelled' = cancelled
    BY <1>10 DEF ExitUnlocks
  <2> QED BY <1>0, <2>1, <2>2, <2>3, NextOwnerWoken, QueuesShrink
<1> QED BY <1>1, <1>2, <1>3, <1>4, <1>5, <1>6, <1>7, <1>8, <1>9, <1>10 DEF MutexStep

\* Every step keeps the types.
LEMMA StepTypes ==
    ASSUME IInv, NEW t \in Thread, Step(t)
    PROVE  TypeOK'
<1>0. /\ TypeOK /\ EventTypes /\ MutexTypes /\ cancelled \subseteq Thread /\ count \in Int
      /\ coreHit \in [Rendezvous -> SUBSET Core] /\ program \in Programs
  BY TypeParts DEF IInv
<1>p. QueuesExact' /\ EventTypes' /\ MutexTypes' /\ queue' \in [Object -> Seq(Thread)]
      /\ cancelled' \subseteq Thread /\ count' \in Int /\ coreHit' \in [Rendezvous -> SUBSET Core]
      /\ call' \in [Thread -> Requests] /\ program' \in Programs => TypeOK'
  BY DEF TypeOK, QueuesExact, EventTypes, MutexTypes, AllEvents
<1>e. UNCHANGED eventVars => EventTypes'
  BY <1>0 DEF EventTypes, eventVars
<1>m. UNCHANGED mutexVars => MutexTypes'
  BY <1>0 DEF MutexTypes, mutexVars
<1>1. CASE EventStep(t) /\ UNCHANGED <<mutexVars, cancelled, count, coreHit, program>>
  BY <1>0, <1>p, <1>m, <1>1, EventStepTypes
<1>2. CASE RendezvousStep(t) /\ UNCHANGED <<mutexVars, cancelled, count, program>>
  BY <1>0, <1>p, <1>m, <1>2, RendezvousStepTypes
<1>3. CASE MutexStep(t) /\ UNCHANGED <<eventVars, count, coreHit, program>>
  BY <1>0, <1>p, <1>e, <1>3, MutexStepTypes
<1>4. CASE SemaphoreStep(t) /\ UNCHANGED <<eventVars, mutexVars, cancelled, coreHit, program>>
  BY <1>0, <1>p, <1>e, <1>m, <1>4, SemaphoreStepTypes
<1> QED BY <1>1, <1>2, <1>3, <1>4 DEF Step
-----------------------------------------------------------------------------
(* What the groups of actions leave alone.                                  *)

\* Only the queues of the objects os change, and only threads in the calls ops
\* before and after.
Frame(os, ops) ==
    /\ \A o \in Object \ os : queue'[o] = queue[o]
    /\ \A u \in Thread : call'[u] = call[u] \/ (call[u].op \in ops /\ call'[u].op \in ops)

\* A thread in another call does not notice.
LEMMA Undisturbed ==
    ASSUME TypeOK, TypeOK', NEW os, NEW ops, Frame(os, ops), NEW u \in Thread,
           call[u].op \notin ops \/ call'[u].op \notin ops,
           WaitsIn(u) \intersect os = {}
    PROVE  call'[u] = call[u] /\ (IsWaiting(u)' <=> IsWaiting(u))
<1>1. call'[u] = call[u]
  BY DEF Frame
<1>2. WaitsIn(u)' = WaitsIn(u)
  BY <1>1 DEF WaitsIn
<1>3. IsWaiting(u) <=> \E o \in WaitsIn(u) \intersect Object : u \in Threads(queue[o])
  BY WaitingExact
<1>4. IsWaiting(u)' <=> \E o \in WaitsIn(u)' \intersect Object : u \in Threads(queue'[o])
  BY DEF TypeOK, IsWaiting
<1>5. \A o \in WaitsIn(u) \intersect Object : queue'[o] = queue[o]
  BY DEF Frame
<1> QED BY <1>1, <1>2, <1>3, <1>4, <1>5

\* Where the calls wait.
LEMMA WaitingPlaces ==
    ASSUME TypeOK, NEW u \in Thread
    PROVE  /\ call[u].op \in {"event", "timed"} => WaitsIn(u) = {call[u].event} /\ call[u].event \in Event
           /\ call[u].op = "rendezvous" => WaitsIn(u) = {rendezvousEvent}
           /\ call[u].op = "lock" => WaitsIn(u) = {call[u].mutex} /\ call[u].mutex \in Mutex
           /\ call[u].op = "cond" => WaitsIn(u) = {cond, call[u].mutex} /\ call[u].mutex \in Mutex
           /\ call[u].op = "semaphore" => WaitsIn(u) = {semaphore}
           /\ call[u].op \in {"none", "exit", "exited"} => WaitsIn(u) = {}
           /\ call[u].op \in {"none", "event", "timed", "rendezvous", "lock", "cond", "semaphore", "exit", "exited"}
<1>1. call[u] \in Requests
  BY DEF TypeOK
<1> QED BY <1>1 DEF Requests, WaitsIn

LEMMA EventFrame ==
    ASSUME IInv, NEW t \in Thread, EventStep(t)
    PROVE  Frame(Event, {"none", "event", "timed"})
<1> DEFINE ops == {"none", "event", "timed"}
<1>0. TypeOK /\ \A e \in Event : e \in Object /\ e \in AllEvents
  BY Objects DEF IInv, AllEvents
<1>q. ASSUME NEW e \in Event, queueAndWait(t, e), ~IsWaiting(t)
      PROVE  \A o \in Object \ Event : queue'[o] = queue[o]
  BY <1>0, <1>q, Enqueued
<1>1. ASSUME NEW e \in Event, OSResetEvent(t, e) PROVE Frame(Event, ops)
  BY <1>1 DEF OSResetEvent, Frame
<1>2. ASSUME NEW e \in Event, OSWaitEvent(t, e) \/ OSWaitEventWithTimeout(t, e) PROVE Frame(Event, ops)
  <2>1. ~IsWaiting(t) /\ call[t].op = "none"
    BY <1>0, <1>2, CallersRun DEF OSWaitEvent, OSWaitEventWithTimeout, Calls, NoCall
  <2>2. CASE UNCHANGED <<queue, call>>
    BY <2>2 DEF Frame
  <2>3. CASE queueAndWait(t, e) /\ (Enters(t, [op |-> "event", event |-> e]) \/ Enters(t, [op |-> "timed", event |-> e]))
    <3>1. call'[t].op \in ops /\ \A u \in Thread \ {t} : call'[u] = call[u]
      BY <1>0, <2>3, WaitRequests, Entered
    <3> QED BY <1>q, <2>1, <2>3, <3>1 DEF Frame
  <2> QED BY <1>2, <2>2, <2>3 DEF OSWaitEvent, OSWaitEventWithTimeout
<1>3. ASSUME NEW e \in Event, OSSignalEvent(t, e) \/ OSSignalEventAll(t, e) PROVE Frame(Event, ops)
  BY <1>0, <1>3, Signals DEF OSSignalEvent, OSSignalEventAll, SignalEffect, Frame
<1>4. ASSUME WaitEventReturns(t) \/ TimedWaitReturns(t) PROVE Frame(Event, ops)
  <2>1. call[t].op \in ops /\ UNCHANGED queue
    BY <1>4 DEF WaitEventReturns, TimedWaitReturns, GoesOn, InCall
  <2>2. call'[t].op \in ops /\ \A u \in Thread \ {t} : call'[u] = call[u]
    BY <1>0, <1>4, Returned DEF WaitEventReturns, TimedWaitReturns, NoCall
  <2> QED BY <2>1, <2>2 DEF Frame
<1>5. ASSUME _OSWaitEventWithTimeoutHandler(t) PROVE Frame(Event, ops)
  <2>1. InCall(t, "timed") /\ call' = call
    BY <1>5 DEF IInv, TimeoutTakesNoSignal, _OSWaitEventWithTimeoutHandler
  <2>2. call[t].event \in Event
    BY <1>0, <2>1, WaitingPlaces DEF InCall
  <2>3. UNCHANGED queue \/ queue' = [queue EXCEPT ![call[t].event] = removeThread(@, t)]
    BY <1>5 DEF _OSWaitEventWithTimeoutHandler, CancelWait
  <2>4. \A o \in Object \ Event : queue'[o] = queue[o]
    BY <1>0, <2>2, <2>3 DEF TypeOK
  <2> QED BY <2>1, <2>4 DEF Frame
<1> QED BY <1>1, <1>2, <1>3, <1>4, <1>5 DEF EventStep

LEMMA RendezvousFrame ==
    ASSUME IInv, NEW t \in Thread, RendezvousStep(t)
    PROVE  Frame({rendezvousEvent}, {"none", "rendezvous"})
<1> DEFINE ops == {"none", "rendezvous"}
           e == rendezvousEvent
<1>0. TypeOK /\ e \in Object /\ e \in AllEvents
  BY Objects DEF IInv, AllEvents
<1>1. ASSUME NEW r \in Rendezvous, OSInitRendezvous(t, r) PROVE Frame({e}, ops)
  BY <1>1 DEF OSInitRendezvous, Frame
<1>2. ASSUME NEW r \in Rendezvous, NEW coreMask \in CoreMasks, OSWaitRendezvous(t, r, coreMask)
      PROVE  Frame({e}, ops)
  <2>1. call[t].op \in ops
    BY <1>2 DEF OSWaitRendezvous, Calls, NoCall
  <2>2. call'[t].op \in ops /\ \A u \in Thread \ {t} : call'[u] = call[u]
    BY <1>0, <1>2, WaitRequests, Entered DEF OSWaitRendezvous
  <2>3. SignalEffect(e)
    BY <1>0, <1>2, Signals DEF OSWaitRendezvous
  <2> QED BY <2>1, <2>2, <2>3 DEF SignalEffect, Frame
<1>3. ASSUME RendezvousLoop(t) PROVE Frame({e}, ops)
  <2>1. call[t].op \in ops /\ ~IsWaiting(t)
    BY <1>3 DEF RendezvousLoop, GoesOn, InCall
  <2>2. CASE Returns(t) /\ UNCHANGED queue
    BY <1>0, <2>1, <2>2, Returned DEF Frame, NoCall
  <2>3. CASE queueAndWait(t, e) /\ UNCHANGED call
    <3> HIDE DEF e
    <3> QED BY <1>0, <2>1, <2>3, Enqueued DEF Frame
  <2> QED BY <1>3, <2>2, <2>3 DEF RendezvousLoop
<1> QED BY <1>1, <1>2, <1>3 DEF RendezvousStep

LEMMA SemaphoreFrame ==
    ASSUME IInv, NEW t \in Thread, SemaphoreStep(t)
    PROVE  Frame({semaphore}, {"none", "semaphore"})
<1> DEFINE ops == {"none", "semaphore"}
<1>0. TypeOK /\ semaphore \in Object
  BY Objects DEF IInv
<1>1. ASSUME OSWaitSemaphore(t) PROVE Frame({semaphore}, ops)
  <2>1. call[t].op \in ops /\ ~IsWaiting(t)
    BY <1>0, <1>1, CallersRun DEF OSWaitSemaphore, Calls, NoCall
  <2>2. CASE TakesUnit /\ UNCHANGED call
    BY <2>2 DEF TakesUnit, Frame
  <2>3. CASE queueAndWait(t, semaphore) /\ Enters(t, [op |-> "semaphore"])
    BY <1>0, <2>1, <2>3, Enqueued, WaitRequests, Entered DEF Frame
  <2> QED BY <1>1, <2>2, <2>3 DEF OSWaitSemaphore
<1>2. ASSUME SemaphoreLoop(t) PROVE Frame({semaphore}, ops)
  <2>1. call[t].op \in ops /\ ~IsWaiting(t)
    BY <1>2 DEF SemaphoreLoop, GoesOn, InCall
  <2>2. CASE TakesUnit /\ Returns(t)
    BY <1>0, <2>1, <2>2, Returned DEF TakesUnit, Frame, NoCall
  <2>3. CASE queueAndWait(t, semaphore) /\ UNCHANGED call
    BY <1>0, <2>1, <2>3, Enqueued DEF Frame
  <2> QED BY <1>2, <2>2, <2>3 DEF SemaphoreLoop
<1>3. ASSUME OSTryWaitSemaphore(t) PROVE Frame({semaphore}, ops)
  BY <1>3 DEF OSTryWaitSemaphore, TakesUnit, Frame
<1>4. ASSUME OSSignalSemaphore(t) PROVE Frame({semaphore}, ops)
  BY <1>0, <1>4, AllWoken DEF OSSignalSemaphore, Frame
<1> QED BY <1>1, <1>2, <1>3, <1>4 DEF SemaphoreStep

LEMMA MutexFrame ==
    ASSUME IInv, NEW t \in Thread, MutexStep(t)
    PROVE  Frame(Mutex \union {cond}, {"none", "lock", "cond", "exit", "exited"})
<1> DEFINE ops == {"none", "lock", "cond", "exit", "exited"}
           os == Mutex \union {cond}
<1>0. TypeOK /\ cond \in Object /\ (\A m \in Mutex : m \in Object) /\ call \in [Thread -> Requests]
  BY Objects DEF IInv, TypeOK
<1>w. ASSUME NEW m \in Mutex, LockWaits(t, m), ~IsWaiting(t)
      PROVE  \A o \in Object \ os : queue'[o] = queue[o]
  BY <1>0, <1>w, Enqueued DEF LockWaits
<1>n. ASSUME NEW m \in Mutex, WakesNextOwner(m)
      PROVE  \A o \in Object \ os : queue'[o] = queue[o]
  BY <1>0, <1>n, NextOwnerWoken
<1>1. ASSUME NEW m \in Mutex, OSLockMutex(t, m) PROVE Frame(os, ops)
  <2>1. call[t].op \in ops /\ ~IsWaiting(t)
    BY <1>0, <1>1, CallersRun DEF OSLockMutex, Calls, NoCall
  <2>2. CASE UNCHANGED <<queue, call>>
    BY <2>2 DEF Frame
  <2>3. CASE LockWaits(t, m) /\ Enters(t, [op |-> "lock", mutex |-> m])
    <3>1. call'[t].op \in ops /\ \A u \in Thread \ {t} : call'[u] = call[u]
      BY <1>0, <2>3, WaitRequests, Entered
    <3> QED BY <1>w, <2>1, <2>3, <3>1 DEF Frame
  <2> QED BY <1>1, <2>2, <2>3 DEF OSLockMutex
<1>2. ASSUME NEW m \in Mutex, OSTryLockMutex(t, m) PROVE Frame(os, ops)
  BY <1>2 DEF OSTryLockMutex, Frame
<1>3. ASSUME NEW m \in Mutex, OSUnlockMutex(t, m) PROVE Frame(os, ops)
  BY <1>n, <1>3 DEF OSUnlockMutex, Frame
<1>4. ASSUME NEW m \in Mutex, OSWaitCond(t, m) PROVE Frame(os, ops)
  <2>1. call[t].op \in ops
    BY <1>4 DEF OSWaitCond, Calls, NoCall
  <2>2. owner[m] = t /\ lockCount[m] \in Nat \ {0}
    BY <1>4, MutexFacts, Objects DEF OSWaitCond
  <2>3. call'[t].op \in ops /\ \A u \in Thread \ {t} : call'[u] = call[u]
    BY <1>0, <1>4, <2>2, WaitRequests, Entered DEF OSWaitCond
  <2>4. \A o \in Object \ os : queue'[o] = queue[o]
    BY <1>4, CondQueues
  <2> QED BY <2>1, <2>3, <2>4 DEF Frame
<1>5. ASSUME NEW u \in Thread, OSCancelThread(t, u) PROVE Frame(os, ops)
  <2>1. call[t].op \in ops /\ UNCHANGED queue
    BY <1>5 DEF OSCancelThread, Calls, NoCall
  <2>2. CASE Enters(t, [op |-> "exit"])
    BY <1>0, <2>1, <2>2, WaitRequests, Entered DEF Frame
  <2>3. CASE UNCHANGED call
    BY <2>1, <2>3 DEF Frame
  <2> QED BY <1>5, <2>2, <2>3 DEF OSCancelThread
<1>6. ASSUME LockLoop(t) \/ CondLoop(t) PROVE Frame(os, ops)
  <2> DEFINE m == call[t].mutex
  <2>1. call[t].op \in ops /\ ~IsWaiting(t) /\ m \in Mutex
    BY <1>0, <1>6, WaitingPlaces DEF LockLoop, CondLoop, GoesOn, InCall
  <2>2. CASE Returns(t) /\ UNCHANGED queue
    BY <1>0, <2>1, <2>2, Returned DEF Frame, NoCall
  <2>3. CASE LockWaits(t, m) /\ UNCHANGED call
    <3> HIDE DEF m
    <3> QED BY <1>w, <2>1, <2>3 DEF Frame
  <2> QED BY <1>6, <2>2, <2>3 DEF LockLoop, CondLoop
<1>7. ASSUME LockingCancelled(t) \/ OSExitThread(t) \/ ExitEnds(t) PROVE Frame(os, ops)
  <2>1. call[t].op \in ops /\ UNCHANGED queue
    BY <1>7 DEF LockingCancelled, OSExitThread, ExitEnds, Calls, NoCall, InCall
  <2>2. CASE Enters(t, [op |-> "exit"])
    BY <1>0, <2>1, <2>2, WaitRequests, Entered DEF Frame
  <2>3. CASE Enters(t, [op |-> "exited"])
    BY <1>0, <2>1, <2>3, WaitRequests, Entered DEF Frame
  <2> QED BY <1>7, <2>2, <2>3 DEF LockingCancelled, OSExitThread, ExitEnds
<1>8. ASSUME OSSignalCond(t) PROVE Frame(os, ops)
  BY <1>0, <1>8, AllWoken DEF OSSignalCond, Frame
<1>9. ASSUME ExitUnlocks(t) PROVE Frame(os, ops)
  <2>1. mutexQueue[t] \in Seq(Mutex) /\ mutexQueue[t] # <<>>
    BY <1>9, MutexFacts DEF ExitUnlocks
  <2>2. Head(mutexQueue[t]) \in Mutex
    BY <2>1
  <2> QED BY <1>n, <1>9, <2>2 DEF ExitUnlocks, Frame
<1> QED BY <1>1, <1>2, <1>3, <1>4, <1>5, <1>6, <1>7, <1>8, <1>9 DEF MutexStep
-----------------------------------------------------------------------------
(* Timed waits.                                                             *)

EventIInv == SignaledEventHasNoWaiter /\ TimeoutTakesNoSignal /\ NoResultWhileWaiting

\* A group of actions that touches no event and no call on one.
LEMMA OthersKeepEvents ==
    ASSUME IInv, TypeOK', NEW os, NEW ops, Frame(os, ops), UNCHANGED eventVars,
           os \intersect AllEvents = {}, "timed" \notin ops
    PROVE  EventIInv'
<1>0. TypeOK /\ signaled \subseteq AllEvents /\ \A e \in AllEvents : e \in Object
  BY TypeParts, Objects DEF IInv, EventTypes
<1>1. ASSUME NEW u \in Thread, call[u].op = "timed" \/ call'[u].op = "timed"
      PROVE  call'[u] = call[u] /\ (IsWaiting(u)' <=> IsWaiting(u))
  <2>1. call'[u] = call[u]
    BY <1>1 DEF Frame
  <2>2. WaitsIn(u) = {call[u].event} /\ call[u].event \in Event
    BY <1>0, <1>1, <2>1, WaitingPlaces
  <2>3. WaitsIn(u) \intersect os = {}
    BY <2>2 DEF AllEvents
  <2> QED BY <1>0, <1>1, <2>3, Undisturbed
<1>2. \A u \in Thread : (GoesOn(u, "timed")' <=> GoesOn(u, "timed")) /\ (InCall(u, "timed")' <=> InCall(u, "timed"))
  BY <1>1 DEF GoesOn, InCall
<1>3. SignaledEventHasNoWaiter'
  BY <1>0 DEF IInv, SignaledEventHasNoWaiter, Frame, eventVars
<1>4. hostAlarm \subseteq Thread /\ hasTimeout \subseteq Thread /\ granted \subseteq Thread
  BY TypeParts DEF IInv, EventTypes
<1>5. TimeoutTakesNoSignal' /\ NoResultWhileWaiting'
  BY <1>2, <1>4 DEF IInv, TimeoutTakesNoSignal, NoResultWhileWaiting, eventVars
<1> QED BY <1>3, <1>5 DEF EventIInv

LEMMA RendezvousKeepsEvents ==
    ASSUME IInv, TypeOK', NEW t \in Thread, RendezvousStep(t)
    PROVE  EventIInv'
<1> DEFINE e == rendezvousEvent
           ops == {"none", "rendezvous"}
<1>0. /\ TypeOK /\ signaled \subseteq AllEvents /\ (\A o \in AllEvents : o \in Object)
      /\ e \in Object /\ e \in AllEvents /\ e \notin Event
      /\ hostAlarm \subseteq Thread /\ hasTimeout \subseteq Thread /\ granted \subseteq Thread
  BY TypeParts, Objects DEF IInv, EventTypes, AllEvents
<1>f. Frame({e}, ops)
  BY RendezvousFrame
<1>1. ASSUME NEW u \in Thread, call[u].op = "timed" \/ call'[u].op = "timed"
      PROVE  call'[u] = call[u] /\ (IsWaiting(u)' <=> IsWaiting(u))
  <2>1. call'[u] = call[u]
    BY <1>1, <1>f DEF Frame
  <2>2. WaitsIn(u) = {call[u].event} /\ call[u].event \in Event
    BY <1>0, <1>1, <2>1, WaitingPlaces
  <2>3. WaitsIn(u) \intersect {e} = {}
    BY <1>0, <2>2
  <2> QED BY <1>0, <1>1, <1>f, <2>1, <2>3, Undisturbed
<1>2. \A u \in Thread : (GoesOn(u, "timed")' <=> GoesOn(u, "timed")) /\ (InCall(u, "timed")' <=> InCall(u, "timed"))
  BY <1>1 DEF GoesOn, InCall
<1>3. \A u \in Threads(queue[e]) : ~InCall(u, "timed")
  <2>1. ASSUME NEW u \in Threads(queue[e]) PROVE ~InCall(u, "timed")
    <3>1. u \in Thread /\ e \in WaitsIn(u)
      BY <1>0, ThreadsTyped DEF TypeOK
    <3> QED BY <1>0, <3>1, WaitingPlaces DEF InCall
  <2> QED BY <2>1
<1>4. UNCHANGED <<hostAlarm, hasTimeout, granted>> /\ \A o \in signaled' : o \in signaled \/ queue'[o] = <<>>
  <2>1. ASSUME NEW r \in Rendezvous, NEW coreMask \in CoreMasks, OSWaitRendezvous(t, r, coreMask)
        PROVE  UNCHANGED <<hostAlarm, hasTimeout, granted>> /\ \A o \in signaled' : o \in signaled \/ queue'[o] = <<>>
    <3>1. SignalEffect(e) /\ UNCHANGED <<hostAlarm, hasTimeout>>
      BY <1>0, <2>1, Signals DEF OSWaitRendezvous
    <3> QED BY <1>3, <3>1 DEF SignalEffect
  <2>2. ASSUME NEW r \in Rendezvous, OSInitRendezvous(t, r)
        PROVE  UNCHANGED <<hostAlarm, hasTimeout, granted>> /\ signaled' = signaled
    BY <2>2 DEF OSInitRendezvous, eventVars
  <2>3. ASSUME RendezvousLoop(t)
        PROVE  UNCHANGED <<hostAlarm, hasTimeout, granted>> /\ signaled' \subseteq signaled
    BY <2>3 DEF RendezvousLoop
  <2> QED BY <2>1, <2>2, <2>3 DEF RendezvousStep
<1>5. e \in signaled' => queue'[e] = <<>>
  <2>1. ASSUME NEW r \in Rendezvous, NEW coreMask \in CoreMasks, OSWaitRendezvous(t, r, coreMask)
        PROVE  queue'[e] = <<>>
    <3>1. e \in signaled => queue[e] = <<>>
      BY DEF IInv, SignaledEventHasNoWaiter
    <3> QED BY <1>0, <2>1, <3>1, SignalsAll DEF OSWaitRendezvous
  <2>2. ASSUME NEW r \in Rendezvous, OSInitRendezvous(t, r), e \in signaled' PROVE queue'[e] = <<>>
    BY <2>2 DEF OSInitRendezvous, eventVars, IInv, SignaledEventHasNoWaiter
  <2>3. ASSUME RendezvousLoop(t), e \in signaled' PROVE queue'[e] = <<>>
    BY <2>3 DEF RendezvousLoop, IInv, SignaledEventHasNoWaiter
  <2> QED BY <2>1, <2>2, <2>3 DEF RendezvousStep
<1>6. SignaledEventHasNoWaiter'
  <2>1. ASSUME NEW o \in signaled', o # e PROVE queue'[o] = <<>>
    <3>1. CASE queue'[o] = <<>>
      BY <3>1
    <3>2. CASE o \in signaled
      BY <1>0, <1>f, <2>1, <3>2 DEF Frame, IInv, SignaledEventHasNoWaiter
    <3> QED BY <1>4, <3>1, <3>2
  <2> QED BY <1>5, <2>1 DEF SignaledEventHasNoWaiter
<1>7. TimeoutTakesNoSignal' /\ NoResultWhileWaiting'
  BY <1>0, <1>2, <1>4 DEF IInv, TimeoutTakesNoSignal, NoResultWhileWaiting
<1> QED BY <1>6, <1>7 DEF EventIInv

\* The queues of a step decide who waits after it.
LEMMA WaitersAfterEnqueuing ==
    ASSUME TypeOK, NEW t \in Thread, NEW o \in Object, ~IsWaiting(t), queueAndWait(t, o)
    PROVE  IsWaiting(t)' /\ \A u \in Thread \ {t} : IsWaiting(u)' <=> IsWaiting(u)
<1>1. /\ Threads(queue'[o]) = Threads(queue[o]) \union {t}
      /\ \A p \in Object \ {o} : queue'[p] = queue[p]
  BY Enqueued
<1>2. IsWaiting(t)'
  BY <1>1 DEF IsWaiting
<1>3. ASSUME NEW u \in Thread \ {t} PROVE IsWaiting(u)' <=> IsWaiting(u)
  <2>1. \A p \in Object : u \in Threads(queue'[p]) <=> u \in Threads(queue[p])
    BY <1>1
  <2> QED BY <2>1 DEF IsWaiting
<1> QED BY <1>2, <1>3

\* When the queue of e loses threads, those do not wait any more.
LEMMA WaitersAfterWaking ==
    ASSUME TypeOK, NEW o \in Object, Threads(queue'[o]) \subseteq Threads(queue[o]),
           \A p \in Object \ {o} : queue'[p] = queue[p]
    PROVE  /\ \A u \in Threads(queue[o]) \ Threads(queue'[o]) : IsWaiting(u) /\ ~IsWaiting(u)'
           /\ \A u \in Thread : u \notin Threads(queue[o]) \ Threads(queue'[o])
                => (IsWaiting(u)' <=> IsWaiting(u))
<1>1. ASSUME NEW u \in Threads(queue[o]) \ Threads(queue'[o]) PROVE IsWaiting(u) /\ ~IsWaiting(u)'
  <2>1. \A p \in Object \ {o} : u \notin Threads(queue[p])
    BY DEF TypeOK
  <2> QED BY <2>1 DEF IsWaiting
<1>2. ASSUME NEW u \in Thread, u \notin Threads(queue[o]) \ Threads(queue'[o])
      PROVE  IsWaiting(u)' <=> IsWaiting(u)
  <2>1. \A p \in Object : u \in Threads(queue'[p]) <=> u \in Threads(queue[p])
    BY <1>2
  <2> QED BY <2>1 DEF IsWaiting
<1> QED BY <1>1, <1>2

\* The timed waits, thread by thread.
TimedExact(u) ==
    /\ u \in hostAlarm => InCall(u, "timed") /\ u \notin hasTimeout
    /\ GoesOn(u, "timed") => (u \in hasTimeout <=> u \notin granted)
    /\ u \in hasTimeout \union granted => GoesOn(u, "timed")

LEMMA TimedByThread ==
    ASSUME TypeOK
    PROVE  TimeoutTakesNoSignal /\ NoResultWhileWaiting <=> \A u \in Thread : TimedExact(u)
<1>1. hostAlarm \subseteq Thread /\ hasTimeout \subseteq Thread /\ granted \subseteq Thread
  BY DEF TypeOK
<1> QED BY <1>1 DEF TimeoutTakesNoSignal, NoResultWhileWaiting, TimedExact

LEMMA TimedSame ==
    ASSUME NEW u \in Thread, TimedExact(u), call'[u] = call[u], IsWaiting(u)' <=> IsWaiting(u),
           u \in hostAlarm' => u \in hostAlarm,
           u \in hasTimeout' <=> u \in hasTimeout, u \in granted' <=> u \in granted
    PROVE  TimedExact(u)'
  BY DEF TimedExact, GoesOn, InCall

\* A thread in no timed wait, before or after.
LEMMA NotTimed ==
    ASSUME NEW u, ~InCall(u, "timed")',
           u \notin hostAlarm', u \notin hasTimeout', u \notin granted'
    PROVE  TimedExact(u)'
  BY DEF TimedExact, GoesOn, InCall

LEMMA EventStepKeepsEvents ==
    ASSUME IInv, TypeOK', NEW t \in Thread, EventStep(t)
    PROVE  EventIInv'
<1>0. /\ TypeOK /\ SignaledEventHasNoWaiter /\ signaled \subseteq AllEvents
      /\ \A o \in AllEvents : o \in Object
      /\ \A e \in Event : e \in Object /\ e \in AllEvents
      /\ \A u \in Thread : TimedExact(u)
      /\ \A o \in Object : Threads(queue[o]) \subseteq Thread
  BY TypeParts, Objects, TimedByThread, ThreadsTyped DEF IInv, EventTypes, AllEvents
<1>p. SignaledEventHasNoWaiter' /\ (\A u \in Thread : TimedExact(u)') => EventIInv'
  <2>1. (\A u \in Thread : TimedExact(u)') => TimeoutTakesNoSignal' /\ NoResultWhileWaiting'
    <3>1. hostAlarm' \subseteq Thread /\ hasTimeout' \subseteq Thread /\ granted' \subseteq Thread
      BY DEF TypeOK
    <3> QED BY <3>1 DEF TimeoutTakesNoSignal, NoResultWhileWaiting, TimedExact
  <2> QED BY <2>1 DEF EventIInv
\* The steps that only take signals away.
<1>s. ASSUME UNCHANGED <<queue, call, hostAlarm, hasTimeout, granted>>, signaled' \subseteq signaled
      PROVE  EventIInv'
  <2>1. SignaledEventHasNoWaiter'
    BY <1>0, <1>s DEF SignaledEventHasNoWaiter
  <2>2. \A u \in Thread : TimedExact(u)'
    BY <1>0, <1>s DEF TimedExact, GoesOn, InCall, IsWaiting
  <2> QED BY <1>p, <2>1, <2>2
<1>1. ASSUME NEW e \in Event, OSResetEvent(t, e) PROVE EventIInv'
  BY <1>s, <1>1 DEF OSResetEvent
<1>2. ASSUME NEW e \in Event, OSWaitEvent(t, e) \/ OSWaitEventWithTimeout(t, e) PROVE EventIInv'
  <2>0. call[t] = NoCall /\ ~InCall(t, "timed")
    BY <1>2 DEF OSWaitEvent, OSWaitEventWithTimeout, Calls, InCall, NoCall
  <2>1. CASE TakeSignal(e) /\ UNCHANGED <<queue, call, hostAlarm, hasTimeout, granted>>
    BY <1>s, <2>1 DEF TakeSignal
  <2>2. ASSUME e \notin signaled, queueAndWait(t, e), UNCHANGED <<signaled, hasTimeout, granted>>,
               \/ Enters(t, [op |-> "event", event |-> e]) /\ UNCHANGED hostAlarm
               \/ Enters(t, [op |-> "timed", event |-> e]) /\ hostAlarm' = hostAlarm \union {t}
        PROVE  EventIInv'
    <3>1. ~IsWaiting(t)
      BY <1>0, <2>0, CallersRun
    <3>2. IsWaiting(t)' /\ \A u \in Thread \ {t} : IsWaiting(u)' <=> IsWaiting(u)
      BY <1>0, <2>2, <3>1, WaitersAfterEnqueuing
    <3>3. \A p \in Object \ {e} : queue'[p] = queue[p]
      BY <1>0, <2>2, <3>1, Enqueued
    <3>4. SignaledEventHasNoWaiter'
      BY <1>0, <2>2, <3>3 DEF SignaledEventHasNoWaiter
    <3>5. \A u \in Thread \ {t} : call'[u] = call[u]
      BY <1>0, <2>2, WaitRequests, Entered
    <3>6. \/ call'[t] = [op |-> "event", event |-> e] /\ UNCHANGED hostAlarm
          \/ call'[t] = [op |-> "timed", event |-> e] /\ hostAlarm' = hostAlarm \union {t}
      BY <1>0, <2>2, WaitRequests, Entered
    <3>7. t \notin hostAlarm /\ t \notin hasTimeout /\ t \notin granted
      BY <1>0, <2>0 DEF TimedExact, GoesOn
    <3>8. TimedExact(t)'
      BY <2>2, <3>2, <3>6, <3>7 DEF TimedExact, GoesOn, InCall
    <3>9. ASSUME NEW u \in Thread \ {t} PROVE TimedExact(u)'
      BY <1>0, <2>2, <3>2, <3>5, TimedSame
    <3> QED BY <1>p, <3>4, <3>8, <3>9
  <2> QED BY <1>2, <2>1, <2>2 DEF OSWaitEvent, OSWaitEventWithTimeout
<1>3. ASSUME NEW e \in Event, OSSignalEvent(t, e) \/ OSSignalEventAll(t, e) PROVE EventIInv'
  <2>1. SignalEffect(e) /\ UNCHANGED <<hostAlarm, hasTimeout, call>>
    BY <1>0, <1>3, Signals DEF OSSignalEvent, OSSignalEventAll
  <2>2. SignaledEventHasNoWaiter'
    <3>1. ASSUME NEW o \in signaled', o # e PROVE queue'[o] = <<>>
      BY <1>0, <2>1, <3>1 DEF SignalEffect, SignaledEventHasNoWaiter
    <3>2. e \in signaled' => queue'[e] = <<>>
      BY <1>0, <2>1 DEF SignalEffect, SignaledEventHasNoWaiter
    <3> QED BY <3>1, <3>2 DEF SignaledEventHasNoWaiter
  <2> DEFINE woken == Threads(queue[e]) \ Threads(queue'[e])
  <2>3. /\ \A u \in woken : IsWaiting(u) /\ ~IsWaiting(u)'
        /\ \A u \in Thread : u \notin woken => (IsWaiting(u)' <=> IsWaiting(u))
    BY <1>0, <2>1, WaitersAfterWaking DEF SignalEffect
  <2>4. granted' = granted \union {u \in woken : InCall(u, "timed")}
    BY <2>1 DEF SignalEffect
  <2> HIDE DEF woken
  <2>5. ASSUME NEW u \in Thread, u \notin woken PROVE TimedExact(u)'
    BY <1>0, <2>1, <2>3, <2>4, <2>5, TimedSame
  <2>6. ASSUME NEW u \in Thread, u \in woken PROVE TimedExact(u)'
    <3>1. IsWaiting(u) /\ ~IsWaiting(u)' /\ call'[u] = call[u] /\ TimedExact(u)
      BY <1>0, <2>1, <2>3, <2>6
    <3>2. u \notin hasTimeout /\ u \notin granted
      BY <3>1 DEF TimedExact, GoesOn
    <3>3. u \notin hasTimeout' /\ (u \in granted' <=> InCall(u, "timed")) /\ (u \in hostAlarm' <=> u \in hostAlarm)
      BY <2>1, <2>4, <2>6, <3>2
    <3> QED BY <3>1, <3>3 DEF TimedExact, GoesOn, InCall
  <2> QED BY <1>p, <2>2, <2>5, <2>6
<1>4. ASSUME WaitEventReturns(t) PROVE EventIInv'
  <2>1. SignaledEventHasNoWaiter'
    BY <1>0, <1>4 DEF WaitEventReturns, SignaledEventHasNoWaiter, eventVars
  <2>2. call'[t] = NoCall /\ \A u \in Thread \ {t} : call'[u] = call[u]
    BY <1>0, <1>4, Returned DEF WaitEventReturns
  <2>3. UNCHANGED <<queue, hostAlarm, hasTimeout, granted>> /\ InCall(t, "event")
    BY <1>4 DEF WaitEventReturns, eventVars, GoesOn
  <2>4. TimedExact(t)'
    <3>1. ~InCall(t, "timed")
      BY <2>3 DEF InCall
    <3> QED BY <1>0, <2>2, <2>3, <3>1 DEF TimedExact, GoesOn, InCall, NoCall
  <2>5. ASSUME NEW u \in Thread \ {t} PROVE TimedExact(u)'
    BY <1>0, <2>2, <2>3 DEF TimedExact, GoesOn, InCall, IsWaiting
  <2> QED BY <1>p, <2>1, <2>4, <2>5
<1>5. ASSUME _OSWaitEventWithTimeoutHandler(t) PROVE EventIInv'
  <2>0. t \in hostAlarm /\ hostAlarm' = hostAlarm \ {t} /\ UNCHANGED <<signaled, granted, call>>
    BY <1>5 DEF _OSWaitEventWithTimeoutHandler
  <2>1. CASE IsWaiting(t) /\ CancelWait(t)
    <3> DEFINE e == call[t].event
    <3>1. InCall(t, "timed") /\ t \notin hasTimeout /\ t \notin granted
      BY <1>0, <2>0, <2>1 DEF TimedExact, GoesOn
    <3>2. WaitsIn(t) = {e} /\ e \in Event
      BY <1>0, <3>1, WaitingPlaces DEF InCall
    <3>3. e \in Object /\ t \in Threads(queue[e])
      BY <1>0, <2>1, <3>2, WaitingExact
    <3>4. queue' = [queue EXCEPT ![e] = removeThread(@, t)] /\ hasTimeout' = hasTimeout \union {t}
      BY <2>1 DEF CancelWait
    <3> HIDE DEF e
    <3>5. Threads(queue'[e]) = Threads(queue[e]) \ {t} /\ \A p \in Object \ {e} : queue'[p] = queue[p]
      BY <1>0, <3>3, <3>4, WaitCancelled
    <3>6. ~IsWaiting(t)' /\ \A u \in Thread \ {t} : IsWaiting(u)' <=> IsWaiting(u)
      BY <1>0, <3>3, <3>5, WaitersAfterWaking
    <3>7. SignaledEventHasNoWaiter'
      <4>1. queue[e] # <<>>
        BY <1>0, <3>3, ThreadsTyped
      <4> QED BY <1>0, <2>0, <3>5, <4>1 DEF SignaledEventHasNoWaiter
    <3>8. TimedExact(t)'
      BY <2>0, <3>1, <3>4, <3>6 DEF TimedExact, GoesOn, InCall
    <3>9. ASSUME NEW u \in Thread \ {t} PROVE TimedExact(u)'
      BY <1>0, <2>0, <3>4, <3>6, TimedSame
    <3> QED BY <1>p, <3>7, <3>8, <3>9
  <2>2. CASE UNCHANGED <<hasTimeout, queue>>
    <3>1. SignaledEventHasNoWaiter'
      BY <1>0, <2>0, <2>2 DEF SignaledEventHasNoWaiter
    <3>2. ASSUME NEW u \in Thread PROVE TimedExact(u)'
      <4>1. IsWaiting(u)' <=> IsWaiting(u)
        BY <2>2 DEF IsWaiting
      <4> QED BY <1>0, <2>0, <2>2, <4>1, TimedSame
    <3> QED BY <1>p, <3>1, <3>2
  <2> QED BY <1>5, <2>1, <2>2 DEF _OSWaitEventWithTimeoutHandler
<1>6. ASSUME TimedWaitReturns(t) PROVE EventIInv'
  <2>0. /\ hostAlarm' = hostAlarm \ {t} /\ hasTimeout' = hasTimeout \ {t} /\ granted' = granted \ {t}
        /\ UNCHANGED <<queue, signaled>>
    BY <1>6 DEF TimedWaitReturns
  <2>1. SignaledEventHasNoWaiter'
    BY <1>0, <2>0 DEF SignaledEventHasNoWaiter
  <2>2. call'[t] = NoCall /\ \A u \in Thread \ {t} : call'[u] = call[u]
    BY <1>0, <1>6, Returned DEF TimedWaitReturns
  <2>3. TimedExact(t)'
    BY <2>0, <2>2, NotTimed DEF InCall, NoCall
  <2>4. ASSUME NEW u \in Thread \ {t} PROVE TimedExact(u)'
    <3>1. IsWaiting(u)' <=> IsWaiting(u)
      BY <2>0 DEF IsWaiting
    <3> QED BY <1>0, <2>0, <2>2, <3>1, TimedSame
  <2> QED BY <1>p, <2>1, <2>3, <2>4
<1> QED BY <1>1, <1>2, <1>3, <1>4, <1>5, <1>6 DEF EventStep
-----------------------------------------------------------------------------
(* Rendezvous and semaphore.                                                *)

LEMMA SleepersInRendezvous ==
    ASSUME TypeOK, NEW u \in Threads(queue[rendezvousEvent])
    PROVE  u \in Thread /\ call[u].op = "rendezvous" /\ call[u].rendezvous \in Rendezvous
<1>1. /\ rendezvousEvent \in Object /\ rendezvousEvent \notin Event /\ rendezvousEvent \notin Mutex
      /\ rendezvousEvent # cond /\ rendezvousEvent # semaphore
  BY Objects DEF AllEvents
<1>2. u \in Thread
  BY <1>1, ThreadsTyped
<1>3. rendezvousEvent \in WaitsIn(u)
  BY <1>1 DEF TypeOK
<1>4. call[u].op = "rendezvous"
  BY <1>1, <1>2, <1>3, WaitingPlaces
<1>5. call[u] \in Requests
  BY <1>2 DEF TypeOK
<1> QED BY <1>2, <1>4, <1>5 DEF Requests

LEMMA OthersKeepSleepers ==
    ASSUME IInv, TypeOK', NEW os, NEW ops, Frame(os, ops), UNCHANGED coreHit,
           rendezvousEvent \notin os, "rendezvous" \notin ops
    PROVE  SleepsOnlyUnmet'
<1>0. TypeOK /\ rendezvousEvent \in Object /\ Threads(queue[rendezvousEvent]) \subseteq Thread
  BY Objects, ThreadsTyped DEF IInv
<1>1. queue'[rendezvousEvent] = queue[rendezvousEvent]
  BY <1>0 DEF Frame
<1>2. ASSUME NEW u \in Threads(queue[rendezvousEvent]) PROVE metAll(u)' <=> metAll(u)
  <2>1. u \in Thread /\ call[u].op = "rendezvous"
    BY <1>0, SleepersInRendezvous
  <2>2. call'[u] = call[u]
    BY <2>1 DEF Frame
  <2> QED BY <2>2 DEF metAll
<1> QED BY <1>1, <1>2 DEF IInv, SleepsOnlyUnmet

LEMMA RendezvousKeepsSleepers ==
    ASSUME IInv, TypeOK', NEW t \in Thread, RendezvousStep(t)
    PROVE  SleepsOnlyUnmet'
<1> DEFINE e == rendezvousEvent
<1>0. /\ TypeOK /\ e \in Object /\ e \in AllEvents /\ SleepsOnlyUnmet
      /\ Threads(queue[e]) \subseteq Thread /\ coreHit \in [Rendezvous -> SUBSET Core]
  BY Objects, ThreadsTyped DEF IInv, AllEvents, TypeOK
<1>1. ASSUME NEW r \in Rendezvous, OSInitRendezvous(t, r) PROVE SleepsOnlyUnmet'
  <2>1. ASSUME NEW u \in Threads(queue[e]) PROVE ~metAll(u)'
    <3>3. call[u].rendezvous \in Rendezvous
      BY <1>0, SleepersInRendezvous
    <3>4. coreHit'[call[u].rendezvous] \subseteq coreHit[call[u].rendezvous] /\ call'[u] = call[u]
      BY <1>0, <1>1, <3>3 DEF OSInitRendezvous
    <3>5. ~metAll(u)
      BY <1>0 DEF SleepsOnlyUnmet
    <3> QED BY <3>4, <3>5 DEF metAll
  <2> QED BY <1>1, <2>1 DEF SleepsOnlyUnmet, OSInitRendezvous
<1>2. ASSUME NEW r \in Rendezvous, NEW coreMask \in CoreMasks, OSWaitRendezvous(t, r, coreMask)
      PROVE  SleepsOnlyUnmet'
  <2>1. e \in signaled => queue[e] = <<>>
    BY DEF IInv, SignaledEventHasNoWaiter
  <2>2. queue'[e] = <<>>
    BY <1>0, <1>2, <2>1, SignalsAll DEF OSWaitRendezvous
  <2>3. Threads(<<>>) = {}
    BY DEF Threads
  <2> QED BY <2>2, <2>3 DEF SleepsOnlyUnmet
<1>3. ASSUME RendezvousLoop(t) PROVE SleepsOnlyUnmet'
  <2>1. ~IsWaiting(t) /\ UNCHANGED coreHit
    BY <1>3 DEF RendezvousLoop, GoesOn
  <2>2. CASE Returns(t) /\ UNCHANGED queue
    <3>1. \A u \in Threads(queue[e]) : u # t /\ call'[u] = call[u]
      BY <1>0, <2>1, <2>2, Returned DEF IsWaiting
    <3> QED BY <1>0, <2>1, <2>2, <3>1 DEF SleepsOnlyUnmet, metAll
  <2>3. CASE ~metAll(t) /\ queueAndWait(t, e) /\ UNCHANGED call
    <3> HIDE DEF e
    <3>1. Threads(queue'[e]) = Threads(queue[e]) \union {t}
      BY <1>0, <2>1, <2>3, Enqueued
    <3> QED BY <1>0, <2>1, <2>3, <3>1 DEF SleepsOnlyUnmet, metAll, e
  <2> QED BY <1>3, <2>2, <2>3 DEF RendezvousLoop
<1> QED BY <1>1, <1>2, <1>3 DEF RendezvousStep

LEMMA SemaphoreKeepsUnits ==
    ASSUME IInv, NEW t \in Thread, SemaphoreStep(t)
    PROVE  NobodyWaitsBesideUnit'
<1>0. TypeOK /\ semaphore \in Object /\ NobodyWaitsBesideUnit /\ count \in Int
  BY Objects DEF IInv, TypeOK
<1>1. CASE TakesUnit
  BY <1>0, <1>1 DEF TakesUnit, NobodyWaitsBesideUnit
<1>2. CASE count <= 0 /\ UNCHANGED count
  BY <1>0, <1>2 DEF NobodyWaitsBesideUnit
<1>3. CASE wakeupEntireWaitQueue(semaphore)
  BY <1>0, <1>3, AllWoken DEF NobodyWaitsBesideUnit
<1> QED BY <1>1, <1>2, <1>3
        DEF SemaphoreStep, OSWaitSemaphore, SemaphoreLoop, OSTryWaitSemaphore, OSSignalSemaphore
-----------------------------------------------------------------------------
(* Mutexes, thread by thread.                                               *)

GivesBack(t, m) == InCall(t, "cond") /\ call[t].mutex = m
HolderExact(t, m) ==
    /\ m \in Threads(mutexQueue[t]) <=> owner[m] = t
    /\ owner[m] = t => lockCount[m] = held[t][m]
    /\ held[t][m] > 0 /\ ~GivesBack(t, m) => owner[m] = t
CallerExact(t) ==
    /\ NoDuplicates(mutexQueue[t])
    /\ InCall(t, "cond") => call[t].prevLockCount = held[t][call[t].mutex]
    /\ InCall(t, "exited") => mutexQueue[t] = <<>>
CountExact(m) == lockCount[m] = 0 <=> owner[m] = None

LEMMA MutexesByThread ==
    MutexesExact <=> /\ \A m \in Mutex : CountExact(m)
                     /\ \A t \in Thread : CallerExact(t) /\ \A m \in Mutex : HolderExact(t, m)
  BY DEF MutexesExact, CountExact, CallerExact, HolderExact, GivesBack

\* A group of actions that touches no mutex and no call on one.
LEMMA OthersKeepMutexes ==
    ASSUME IInv, TypeOK', NEW os, NEW ops, Frame(os, ops), UNCHANGED mutexVars,
           os \intersect (Mutex \union {cond}) = {}, ops \intersect {"lock", "cond", "exited"} = {}
    PROVE  MutexesExact' /\ FreeMutexIsComeFor'
<1>0. TypeOK /\ \A m \in Mutex : m \in Object
  BY Objects DEF IInv
<1>1. \A t \in Thread : /\ InCall(t, "cond")' <=> InCall(t, "cond")
                        /\ InCall(t, "exited")' <=> InCall(t, "exited")
                        /\ InCall(t, "cond") => call'[t] = call[t]
  BY DEF Frame, InCall
<1>2. MutexesExact'
  BY <1>1 DEF IInv, MutexesExact, mutexVars
<1>3. ASSUME NEW u \in Thread, NEW m \in Mutex, ComesFor(u, m) PROVE ComesFor(u, m)'
  <2>1. call[u].op \in {"lock", "cond"} /\ call[u].mutex = m /\ ~IsWaiting(u)
    BY <1>3 DEF ComesFor, GoesOn, InCall
  <2>2. WaitsIn(u) \intersect os = {}
    BY <1>0, <2>1, WaitingPlaces
  <2>3. call[u].op \notin ops
    BY <2>1
  <2>4. call'[u] = call[u] /\ ~IsWaiting(u)'
    BY <1>0, <2>1, <2>2, <2>3, Undisturbed
  <2> QED BY <2>1, <2>4 DEF ComesFor, GoesOn, InCall
<1>4. \A m \in Mutex : owner'[m] = owner[m] /\ queue'[m] = queue[m]
  BY <1>0 DEF Frame, mutexVars
<1>5. FreeMutexIsComeFor'
  BY <1>3, <1>4 DEF IInv, FreeMutexIsComeFor
<1> QED BY <1>2, <1>5

\* Locking keeps them exact: the count becomes n for a thread whose call ends.
LEMMA LockKeepsMutexes ==
    ASSUME IInv, NEW t \in Thread, NEW m \in Mutex, owner[m] \in {None, t}, NEW n \in Nat \ {0},
           LockEffect(t, m, n), held'[t][m] = n,
           \A u \in Thread, k \in Mutex : u # t \/ k # m => held'[u][k] = held[u][k],
           \A u \in Thread \ {t} : call'[u] = call[u], call'[t] = NoCall,
           \A k \in Mutex \ {m} : ~GivesBack(t, k)
    PROVE  MutexesExact'
<1>0. /\ None \notin Thread
      /\ \A k \in Mutex : CountExact(k)
      /\ \A u \in Thread : CallerExact(u) /\ \A k \in Mutex : HolderExact(u, k)
  BY Objects, MutexesByThread DEF IInv
<1>c. ~InCall(t, "cond")' /\ ~InCall(t, "exited")'
  BY DEF InCall, NoCall
<1>1. \A k \in Mutex : CountExact(k)'
  BY <1>0 DEF LockEffect, CountExact
<1>2. ASSUME NEW u \in Thread \ {t} PROVE CallerExact(u)'
  <2>1. InCall(u, "cond") => call[u].mutex \in Mutex
    BY WaitingPlaces DEF InCall, IInv
  <2>2. mutexQueue'[u] = mutexQueue[u] /\ call'[u] = call[u] /\ CallerExact(u)
    BY <1>0 DEF LockEffect
  <2>3. InCall(u, "cond") => held'[u][call[u].mutex] = held[u][call[u].mutex]
    BY <2>1
  <2> QED BY <2>2, <2>3 DEF CallerExact, InCall
<1>3. CallerExact(t)'
  BY <1>c DEF CallerExact, LockEffect
<1>4. ASSUME NEW u \in Thread \ {t}, NEW k \in Mutex PROVE HolderExact(u, k)'
  <2>1. GivesBack(u, k)' <=> GivesBack(u, k)
    BY DEF GivesBack, InCall
  <2>2. mutexQueue'[u] = mutexQueue[u] /\ HolderExact(u, k) /\ held'[u][k] = held[u][k]
    BY <1>0 DEF LockEffect
  <2>3. CASE k # m
    <3>1. owner'[k] = owner[k] /\ lockCount'[k] = lockCount[k]
      BY <2>3 DEF LockEffect
    <3> QED BY <2>1, <2>2, <3>1 DEF HolderExact
  <2>4. CASE k = m
    <3>1. owner[k] # u /\ owner'[k] # u
      BY <1>0, <2>4 DEF LockEffect
    <3> QED BY <2>1, <2>2, <3>1 DEF HolderExact
  <2> QED BY <2>3, <2>4
<1>5. ASSUME NEW k \in Mutex PROVE HolderExact(t, k)'
  <2>1. CASE k # m
    <3>1. owner'[k] = owner[k] /\ lockCount'[k] = lockCount[k] /\ held'[t][k] = held[t][k]
      BY <2>1 DEF LockEffect
    <3>2. k \in Threads(mutexQueue'[t]) <=> k \in Threads(mutexQueue[t])
      BY <2>1 DEF LockEffect
    <3>3. HolderExact(t, k) /\ ~GivesBack(t, k)
      BY <1>0, <2>1 DEF GivesBack
    <3> QED BY <3>1, <3>2, <3>3 DEF HolderExact
  <2>2. CASE k = m
    BY <2>2 DEF HolderExact, LockEffect
  <2> QED BY <2>1, <2>2
<1>6. (/\ \A k \in Mutex : CountExact(k)'
       /\ \A u \in Thread : CallerExact(u)' /\ \A k \in Mutex : HolderExact(u, k)') => MutexesExact'
  BY DEF MutexesExact, CountExact, CallerExact, HolderExact, GivesBack
<1> QED BY <1>1, <1>2, <1>3, <1>4, <1>5, <1>6

\* So does freeing, whether the thread has given the mutex up or waits in a
\* condition for it.
LEMMA FreeKeepsMutexes ==
    ASSUME IInv, NEW t \in Thread, NEW m \in Mutex, owner[m] = t, FreeEffect(t, m),
           \A u \in Thread, k \in Mutex : u # t \/ k # m => held'[u][k] = held[u][k],
           \A u \in Thread \ {t} : call'[u] = call[u], ~InCall(t, "exited")', ~InCall(t, "cond"),
           \/ held'[t][m] = 0 /\ ~InCall(t, "cond")'
           \/ GivesBack(t, m)' /\ call'[t].prevLockCount = held'[t][m]
    PROVE  MutexesExact'
<1>0. /\ None \notin Thread
      /\ \A k \in Mutex : CountExact(k)
      /\ \A u \in Thread : CallerExact(u) /\ \A k \in Mutex : HolderExact(u, k)
  BY Objects, MutexesByThread DEF IInv
<1>1. \A k \in Mutex : CountExact(k)'
  BY <1>0 DEF FreeEffect, CountExact
<1>2. ASSUME NEW u \in Thread \ {t} PROVE CallerExact(u)'
  <2>1. InCall(u, "cond") => call[u].mutex \in Mutex
    BY WaitingPlaces DEF InCall, IInv
  <2>2. mutexQueue'[u] = mutexQueue[u] /\ call'[u] = call[u] /\ CallerExact(u)
    BY <1>0 DEF FreeEffect
  <2>3. InCall(u, "cond") => held'[u][call[u].mutex] = held[u][call[u].mutex]
    BY <2>1
  <2> QED BY <2>2, <2>3 DEF CallerExact, InCall
<1>3. CallerExact(t)'
  BY DEF CallerExact, FreeEffect, GivesBack
<1>4. ASSUME NEW u \in Thread \ {t}, NEW k \in Mutex PROVE HolderExact(u, k)'
  <2>1. GivesBack(u, k)' <=> GivesBack(u, k)
    BY DEF GivesBack, InCall
  <2>2. mutexQueue'[u] = mutexQueue[u] /\ HolderExact(u, k) /\ held'[u][k] = held[u][k]
    BY <1>0 DEF FreeEffect
  <2>3. CASE k # m
    <3>1. owner'[k] = owner[k] /\ lockCount'[k] = lockCount[k]
      BY <2>3 DEF FreeEffect
    <3> QED BY <2>1, <2>2, <3>1 DEF HolderExact
  <2>4. CASE k = m
    <3>1. owner[k] # u /\ owner'[k] # u
      BY <1>0, <2>4 DEF FreeEffect
    <3> QED BY <2>1, <2>2, <3>1 DEF HolderExact
  <2> QED BY <2>3, <2>4
<1>5. ASSUME NEW k \in Mutex PROVE HolderExact(t, k)'
  <2>1. CASE k # m
    <3>1. owner'[k] = owner[k] /\ lockCount'[k] = lockCount[k] /\ held'[t][k] = held[t][k]
      BY <2>1 DEF FreeEffect
    <3>2. k \in Threads(mutexQueue'[t]) <=> k \in Threads(mutexQueue[t])
      BY <2>1 DEF FreeEffect
    <3>3. HolderExact(t, k) /\ ~GivesBack(t, k)
      BY <1>0, <2>1 DEF GivesBack
    <3> QED BY <3>1, <3>2, <3>3 DEF HolderExact
  <2>2. CASE k = m
    BY <1>0, <2>2 DEF HolderExact, FreeEffect, GivesBack
  <2> QED BY <2>1, <2>2
<1>6. (/\ \A k \in Mutex : CountExact(k)'
       /\ \A u \in Thread : CallerExact(u)' /\ \A k \in Mutex : HolderExact(u, k)') => MutexesExact'
  BY DEF MutexesExact, CountExact, CallerExact, HolderExact, GivesBack
<1> QED BY <1>1, <1>2, <1>3, <1>4, <1>5, <1>6

\* And a step that touches no mutex and starts or ends no wait in a condition.
LEMMA NoMutexTouched ==
    ASSUME IInv, NEW t \in Thread, UNCHANGED mutexVars, \A u \in Thread \ {t} : call'[u] = call[u],
           call'[t] = call[t] \/ (~InCall(t, "cond") /\ ~InCall(t, "cond")'),
           InCall(t, "exited")' => mutexQueue[t] = <<>>
    PROVE  MutexesExact'
<1>1. \A u \in Thread : \/ call'[u] = call[u]
                        \/ u = t /\ ~InCall(u, "cond") /\ ~InCall(u, "cond")'
  OBVIOUS
<1> QED BY <1>1 DEF IInv, MutexesExact, mutexVars, InCall

LEMMA MutexStepKeepsMutexes ==
    ASSUME IInv, NEW t \in Thread, MutexStep(t)
    PROVE  MutexesExact'
<1>0. /\ TypeOK /\ (\A m \in Mutex : m \in Object) /\ None \notin Thread
      /\ \A u \in Thread : CallerExact(u) /\ \A k \in Mutex : HolderExact(u, k) /\ CountExact(k)
  BY Objects, MutexesByThread DEF IInv
\* Locking once more.
<1>l. ASSUME NEW m \in Mutex, owner[m] \in {None, t}, Locks(t, m, LockedOnceMore(t, m)),
             HeldBecomes(t, m, held[t][m] + 1), ~InCall(t, "cond"),
             call'[t] = NoCall, \A u \in Thread \ {t} : call'[u] = call[u]
      PROVE  MutexesExact'
  <2>1. LockedOnceMore(t, m) = held[t][m] + 1 /\ held[t][m] \in Nat
    <3>1. HolderExact(t, m) /\ ~GivesBack(t, m) /\ held[t][m] \in Nat
      BY <1>0, <1>l, MutexFacts DEF GivesBack
    <3> QED BY <1>0, <1>l, <3>1 DEF HolderExact, LockedOnceMore
  <2> DEFINE n == held[t][m] + 1
  <2>2. n \in Nat \ {0} /\ LockEffect(t, m, n)
    BY <1>l, <2>1, Locking
  <2>3. held'[t][m] = n /\ \A u \in Thread, k \in Mutex : u # t \/ k # m => held'[u][k] = held[u][k]
    BY <1>l, <2>2, Holding
  <2> HIDE DEF n
  <2>4. \A k \in Mutex \ {m} : ~GivesBack(t, k)
    BY <1>l DEF GivesBack
  <2> QED BY <1>l, <2>2, <2>3, <2>4, LockKeepsMutexes
<1>w. ASSUME NEW m \in Mutex, LockWaits(t, m) PROVE UNCHANGED mutexVars
  BY <1>w DEF LockWaits
<1>1. ASSUME NEW m \in Mutex, OSLockMutex(t, m) \/ OSTryLockMutex(t, m) PROVE MutexesExact'
  <2>1. call[t] = NoCall /\ ~InCall(t, "cond")
    BY <1>1 DEF OSLockMutex, OSTryLockMutex, Calls, NoCall, InCall
  <2>2. CASE /\ owner[m] \in {None, t} /\ Locks(t, m, LockedOnceMore(t, m))
             /\ HeldBecomes(t, m, held[t][m] + 1) /\ UNCHANGED call
    BY <1>l, <2>1, <2>2
  <2>3. CASE LockWaits(t, m) /\ Enters(t, [op |-> "lock", mutex |-> m])
    <3>1. call'[t] = [op |-> "lock", mutex |-> m] /\ \A u \in Thread \ {t} : call'[u] = call[u]
      BY <1>0, <2>3, WaitRequests, Entered
    <3>2. ~InCall(t, "cond")' /\ ~InCall(t, "exited")'
      BY <3>1 DEF InCall
    <3> QED BY <1>w, <2>1, <2>3, <3>1, <3>2, NoMutexTouched
  <2> QED BY <1>1, <2>2, <2>3 DEF OSLockMutex, OSTryLockMutex
<1>2. ASSUME LockLoop(t) PROVE MutexesExact'
  <2> DEFINE m == call[t].mutex
  <2>1. InCall(t, "lock") /\ ~InCall(t, "cond") /\ m \in Mutex /\ ~InCall(t, "exited")
    BY <1>0, <1>2, WaitingPlaces DEF LockLoop, GoesOn, InCall
  <2>2. CASE /\ owner[m] \in {None, t} /\ Locks(t, m, LockedOnceMore(t, m))
             /\ HeldBecomes(t, m, held[t][m] + 1) /\ Returns(t)
    <3> HIDE DEF m
    <3> QED BY <1>0, <1>l, <2>1, <2>2, Returned
  <2>3. CASE LockWaits(t, m) /\ UNCHANGED call
    <3> HIDE DEF m
    <3>1. ~InCall(t, "exited")'
      BY <2>1, <2>3 DEF InCall
    <3> QED BY <1>w, <2>1, <2>3, <3>1, NoMutexTouched
  <2> QED BY <1>2, <2>2, <2>3 DEF LockLoop
<1>3. ASSUME CondLoop(t) PROVE MutexesExact'
  <2> DEFINE m == call[t].mutex
             n == call[t].prevLockCount
  <2>1. InCall(t, "cond") /\ m \in Mutex /\ n \in Nat \ {0} /\ n = held[t][m] /\ ~InCall(t, "exited")
    <3>1. InCall(t, "cond") /\ call[t] \in Requests
      BY <1>0, <1>3 DEF CondLoop, GoesOn, TypeOK
    <3>2. m \in Mutex /\ n \in Nat \ {0}
      BY <3>1 DEF Requests, InCall
    <3> QED BY <1>0, <3>1, <3>2 DEF CallerExact, InCall
  <2>2. CASE /\ owner[m] \in {None, t} /\ Locks(t, m, n) /\ Returns(t) /\ UNCHANGED held
    <3>1. \A k \in Mutex \ {m} : ~GivesBack(t, k)
      BY DEF GivesBack
    <3> HIDE DEF m, n
    <3>2. LockEffect(t, m, n)
      BY <2>1, <2>2, Locking
    <3>3. call'[t] = NoCall /\ \A u \in Thread \ {t} : call'[u] = call[u]
      BY <1>0, <2>2, Returned
    <3>4. held'[t][m] = n /\ \A u \in Thread, k \in Mutex : u # t \/ k # m => held'[u][k] = held[u][k]
      BY <2>1, <2>2
    <3> QED BY <2>1, <2>2, <3>1, <3>2, <3>3, <3>4, LockKeepsMutexes
  <2>3. CASE LockWaits(t, m) /\ UNCHANGED call
    <3> HIDE DEF m
    <3>1. ~InCall(t, "exited")'
      BY <2>1, <2>3 DEF InCall
    <3> QED BY <1>w, <2>1, <2>3, <3>1, NoMutexTouched
  <2> QED BY <1>3, <2>2, <2>3 DEF CondLoop
<1>4. ASSUME NEW m \in Mutex, OSUnlockMutex(t, m) PROVE MutexesExact'
  <2>0. /\ owner[m] = t /\ call[t] = NoCall /\ call' = call
        /\ HeldBecomes(t, m, held[t][m] - 1)
    BY <1>4 DEF OSUnlockMutex, Calls
  <2>1. /\ lockCount[m] = held[t][m] /\ held[t][m] \in Nat \ {0}
        /\ ~InCall(t, "cond") /\ ~InCall(t, "exited")'
    BY <1>0, <2>0, MutexFacts DEF InCall, NoCall
  <2>2. /\ held'[t][m] = held[t][m] - 1
        /\ \A u \in Thread, k \in Mutex : u # t \/ k # m => held'[u][k] = held[u][k]
    <3>1. held[t][m] - 1 \in Nat
      BY <2>1
    <3> QED BY <2>0, <3>1, Holding
  <2>3. CASE lockCount[m] > 1 /\ lockCount' = [lockCount EXCEPT ![m] = @ - 1]
             /\ UNCHANGED <<owner, mutexQueue>>
    <3>1. /\ lockCount'[m] = lockCount[m] - 1 /\ lockCount'[m] > 0
          /\ \A k \in Mutex \ {m} : lockCount'[k] = lockCount[k]
      BY <2>1, <2>3, MutexFacts
    <3>2. \A k \in Mutex : CountExact(k)'
      BY <1>0, <2>0, <2>3, <3>1 DEF CountExact
    <3>3. ASSUME NEW u \in Thread PROVE CallerExact(u)'
      <4>1. InCall(u, "cond") => u # t /\ call[u].mutex \in Mutex
        BY <1>0, <2>1, WaitingPlaces DEF InCall
      <4> QED BY <1>0, <2>0, <2>2, <2>3, <4>1 DEF CallerExact, InCall
    <3>4. ASSUME NEW u \in Thread, NEW k \in Mutex PROVE HolderExact(u, k)'
      <4>1. GivesBack(u, k)' <=> GivesBack(u, k)
        BY <2>0 DEF GivesBack, InCall
      <4>2. CASE k # m
        BY <1>0, <2>2, <2>3, <3>1, <4>1, <4>2 DEF HolderExact
      <4>3. CASE k = m /\ u # t
        BY <1>0, <2>0, <2>2, <2>3, <4>1, <4>3 DEF HolderExact
      <4>4. CASE k = m /\ u = t
        BY <1>0, <2>0, <2>1, <2>2, <2>3, <3>1, <4>4 DEF HolderExact
      <4> QED BY <4>2, <4>3, <4>4
    <3> QED BY <3>2, <3>3, <3>4 DEF MutexesExact, CountExact, CallerExact, HolderExact, GivesBack
  <2>4. CASE lockCount[m] = 1 /\ Frees(t, m)
    <3>1. FreeEffect(t, m) /\ held'[t][m] = 0
      BY <2>0, <2>1, <2>2, <2>4, Freeing
    <3>2. ~InCall(t, "cond")'
      BY <2>0, <2>1 DEF InCall
    <3> QED BY <2>0, <2>1, <2>2, <3>1, <3>2, FreeKeepsMutexes
  <2> QED BY <1>4, <2>3, <2>4 DEF OSUnlockMutex
<1>5. ASSUME NEW m \in Mutex, OSWaitCond(t, m) PROVE MutexesExact'
  <2>1. owner[m] = t /\ Frees(t, m) /\ held' = held /\ ~InCall(t, "cond")
    BY <1>5 DEF OSWaitCond, Calls, InCall, NoCall
  <2>2. lockCount[m] \in Nat \ {0} /\ lockCount[m] = held[t][m]
    BY <1>0, <2>1, MutexFacts
  <2>3. /\ call'[t] = [op |-> "cond", mutex |-> m, prevLockCount |-> lockCount[m]]
        /\ \A u \in Thread \ {t} : call'[u] = call[u]
    BY <1>0, <1>5, <2>2, WaitRequests, Entered DEF OSWaitCond
  <2>4. ~InCall(t, "exited")' /\ GivesBack(t, m)' /\ call'[t].prevLockCount = held'[t][m]
    BY <2>1, <2>2, <2>3 DEF InCall, GivesBack
  <2> QED BY <2>1, <2>3, <2>4, Freeing, FreeKeepsMutexes
<1>6. ASSUME ExitUnlocks(t) PROVE MutexesExact'
  <2>1. mutexQueue[t] \in Seq(Mutex) /\ mutexQueue[t] # <<>>
    BY <1>6, MutexFacts DEF ExitUnlocks
  <2>2. Head(mutexQueue[t]) \in Mutex
    BY <2>1
  <2>3. PICK m \in Mutex : owner[m] = t /\ Frees(t, m) /\ HeldBecomes(t, m, 0)
    BY <1>6, <2>2 DEF ExitUnlocks
  <2>4. call' = call /\ ~InCall(t, "cond") /\ ~InCall(t, "exited")
    BY <1>6 DEF ExitUnlocks, InCall
  <2>5. ~InCall(t, "cond")' /\ ~InCall(t, "exited")'
    BY <2>4 DEF InCall
  <2>6. held'[t][m] = 0 /\ \A u \in Thread, k \in Mutex : u # t \/ k # m => held'[u][k] = held[u][k]
    BY <2>3, Holding
  <2>7. FreeEffect(t, m)
    BY <2>3, Freeing
  <2> QED BY <2>3, <2>4, <2>5, <2>6, <2>7, FreeKeepsMutexes
<1>7. ASSUME NEW u \in Thread, OSCancelThread(t, u) PROVE MutexesExact'
  <2>1. UNCHANGED mutexVars /\ call[t] = NoCall /\ (Enters(t, [op |-> "exit"]) \/ UNCHANGED call)
    BY <1>7 DEF OSCancelThread, Calls
  <2>2. (\A v \in Thread \ {t} : call'[v] = call[v]) /\ call'[t] \in {NoCall, [op |-> "exit"]}
    BY <1>0, <2>1, WaitRequests, Entered
  <2> QED BY <2>1, <2>2, NoMutexTouched DEF InCall, NoCall
<1>8. ASSUME LockingCancelled(t) \/ OSExitThread(t) PROVE MutexesExact'
  <2>1. UNCHANGED mutexVars /\ call[t] = NoCall /\ Enters(t, [op |-> "exit"])
    BY <1>8 DEF LockingCancelled, OSExitThread, Calls
  <2>2. (\A v \in Thread \ {t} : call'[v] = call[v]) /\ call'[t] = [op |-> "exit"]
    BY <1>0, <2>1, WaitRequests, Entered
  <2> QED BY <2>1, <2>2, NoMutexTouched DEF InCall, NoCall
<1>9. ASSUME ExitEnds(t) PROVE MutexesExact'
  <2>1. UNCHANGED mutexVars /\ call[t].op = "exit" /\ mutexQueue[t] = <<>> /\ Enters(t, [op |-> "exited"])
    BY <1>9 DEF ExitEnds, InCall
  <2>2. (\A v \in Thread \ {t} : call'[v] = call[v]) /\ call'[t] = [op |-> "exited"]
    BY <1>0, <2>1, WaitRequests, Entered
  <2> QED BY <2>1, <2>2, NoMutexTouched DEF InCall
<1>10. ASSUME OSSignalCond(t) PROVE MutexesExact'
  <2>1. UNCHANGED <<mutexVars, call>> /\ call[t] = NoCall
    BY <1>10 DEF OSSignalCond, Calls
  <2> QED BY <2>1, NoMutexTouched DEF InCall, NoCall
<1> QED BY <1>1, <1>2, <1>3, <1>4, <1>5, <1>6, <1>7, <1>8, <1>9, <1>10 DEF MutexStep

\* Who comes for a mutex goes on to do so if the step is not its own.
LEMMA ComersStay ==
    ASSUME IInv, NEW k \in Mutex, owner[k] = None, queue[k] # <<>>,
           \A u \in Thread : ComesFor(u, k) => call'[u] = call[u] /\ ~IsWaiting(u)'
    PROVE  \E u \in Thread : ComesFor(u, k)'
<1>1. PICK u \in Thread : ComesFor(u, k)
  BY DEF IInv, FreeMutexIsComeFor
<1>2. call'[u] = call[u] /\ ~IsWaiting(u)'
  BY <1>1
<1> QED BY <1>1, <1>2 DEF ComesFor, GoesOn, InCall

\* The threads in the queue of a mutex want it.
LEMMA LockWaiters ==
    ASSUME TypeOK, NEW m \in Mutex, NEW u \in Threads(queue[m])
    PROVE  u \in Thread /\ call[u].op \in {"lock", "cond"} /\ call[u].mutex = m
<1>1. m \in Object /\ m \notin Event /\ m # rendezvousEvent /\ m # cond /\ m # semaphore
  BY Objects
<1>2. u \in Thread /\ m \in WaitsIn(u)
  BY <1>1, ThreadsTyped DEF TypeOK
<1> QED BY <1>1, <1>2, WaitingPlaces

\* Freeing a mutex wakes one of them.
LEMMA NextOwnerComes ==
    ASSUME IInv, TypeOK', NEW t \in Thread, NEW m \in Mutex, WakesNextOwner(m), FreeEffect(t, m),
           UNCHANGED call
    PROVE  FreeMutexIsComeFor'
<1>0. TypeOK /\ m \in Object /\ \A k \in Mutex : k \in Object
  BY Objects DEF IInv
<1>1. /\ Threads(queue'[m]) \subseteq Threads(queue[m])
      /\ \A p \in Object \ {m} : queue'[p] = queue[p]
      /\ queue[m] # <<>> => \E u \in Threads(queue[m]) : u \notin Threads(queue'[m])
      /\ queue[m] = <<>> => queue'[m] = <<>>
  BY <1>0, NextOwnerWoken
<1>2. \A u \in Thread : ~IsWaiting(u) => ~IsWaiting(u)'
  BY <1>0, <1>1, WaitersAfterWaking
<1>3. ASSUME NEW k \in Mutex \ {m}, owner'[k] = None, queue'[k] # <<>>
      PROVE  \E u \in Thread : ComesFor(u, k)'
  <2>1. owner[k] = None /\ queue[k] # <<>>
    BY <1>0, <1>1, <1>3 DEF FreeEffect
  <2>2. \A u \in Thread : ComesFor(u, k) => call'[u] = call[u] /\ ~IsWaiting(u)'
    BY <1>2 DEF ComesFor, GoesOn
  <2> QED BY <2>1, <2>2, ComersStay
<1>4. ASSUME queue'[m] # <<>> PROVE \E u \in Thread : ComesFor(u, m)'
  <2>1. PICK u \in Threads(queue[m]) : u \notin Threads(queue'[m])
    BY <1>1, <1>4
  <2>2. ~IsWaiting(u)'
    BY <1>0, <1>1, <2>1, WaitersAfterWaking
  <2>3. u \in Thread /\ call[u].op \in {"lock", "cond"} /\ call[u].mutex = m
    BY <1>0, LockWaiters
  <2> QED BY <2>2, <2>3 DEF ComesFor, GoesOn, InCall
<1> QED BY <1>3, <1>4 DEF FreeMutexIsComeFor

\* A step of t after which m is not free, and which disturbs nobody else.
LEMMA OthersStillCome ==
    ASSUME IInv, NEW t \in Thread, NEW ms \in SUBSET Mutex,
           \A m \in ms : owner'[m] # None \/ queue'[m] = <<>>,
           \A k \in Mutex \ ms : owner'[k] = owner[k] /\ queue'[k] = queue[k] /\ ~ComesFor(t, k),
           \A u \in Thread \ {t} : call'[u] = call[u] /\ (~IsWaiting(u) => ~IsWaiting(u)')
    PROVE  FreeMutexIsComeFor'
<1>1. ASSUME NEW k \in Mutex, owner'[k] = None, queue'[k] # <<>>
      PROVE  \E u \in Thread : ComesFor(u, k)'
  <2>1. k \notin ms
    BY <1>1
  <2>2. owner[k] = None /\ queue[k] # <<>> /\ ~ComesFor(t, k)
    BY <1>1, <2>1
  <2>3. \A u \in Thread : ComesFor(u, k) => call'[u] = call[u] /\ ~IsWaiting(u)'
    BY <2>2 DEF ComesFor, GoesOn
  <2> QED BY <2>2, <2>3, ComersStay
<1> QED BY <1>1 DEF FreeMutexIsComeFor

LEMMA MutexStepKeepsComers ==
    ASSUME IInv, TypeOK', NEW t \in Thread, MutexStep(t)
    PROVE  FreeMutexIsComeFor'
<1>0. /\ TypeOK /\ (\A m \in Mutex : m \in Object /\ m # cond) /\ cond \in Object
      /\ None \notin Thread /\ owner \in [Mutex -> Thread \union {None}]
  BY Objects DEF IInv, TypeOK
<1>c. ASSUME call[t].op \notin {"lock", "cond"} PROVE \A k \in Mutex : ~ComesFor(t, k)
  BY <1>c DEF ComesFor, GoesOn, InCall
<1>q. ASSUME UNCHANGED queue PROVE \A u \in Thread : IsWaiting(u)' <=> IsWaiting(u)
  BY <1>q DEF IsWaiting
\* Locking m, or waiting for it.
<1>l. ASSUME NEW m \in Mutex, LockEffect(t, m, lockCount'[m]), UNCHANGED queue,
             \A u \in Thread \ {t} : call'[u] = call[u], \A k \in Mutex \ {m} : ~ComesFor(t, k)
      PROVE  FreeMutexIsComeFor'
  <2>1. owner'[m] # None /\ \A k \in Mutex \ {m} : owner'[k] = owner[k]
    BY <1>0, <1>l DEF LockEffect
  <2> QED BY <1>l, <1>q, <2>1, OthersStillCome, {m} \in SUBSET Mutex
<1>w. ASSUME NEW m \in Mutex, LockWaits(t, m), ~IsWaiting(t),
             \A u \in Thread \ {t} : call'[u] = call[u], \A k \in Mutex \ {m} : ~ComesFor(t, k)
      PROVE  FreeMutexIsComeFor'
  <2>1. owner' = owner /\ owner[m] # None /\ queueAndWait(t, m)
    BY <1>w DEF LockWaits, mutexVars
  <2>2. \A k \in Mutex \ {m} : queue'[k] = queue[k]
    BY <1>0, <1>w, <2>1, Enqueued
  <2>3. \A u \in Thread \ {t} : IsWaiting(u)' <=> IsWaiting(u)
    BY <1>0, <1>w, <2>1, WaitersAfterEnqueuing
  <2> QED BY <1>w, <2>1, <2>2, <2>3, OthersStillCome, {m} \in SUBSET Mutex
\* Steps that touch neither mutexes nor queues.
<1>n. ASSUME UNCHANGED <<queue, owner>>, \A u \in Thread \ {t} : call'[u] = call[u],
             call[t].op \notin {"lock", "cond"}
      PROVE  FreeMutexIsComeFor'
  BY <1>c, <1>n, <1>q, OthersStillCome, {} \in SUBSET Mutex
<1>1. ASSUME NEW m \in Mutex, OSLockMutex(t, m) \/ OSTryLockMutex(t, m) PROVE FreeMutexIsComeFor'
  <2>1. call[t] = NoCall /\ call[t].op \notin {"lock", "cond"}
    BY <1>1 DEF OSLockMutex, OSTryLockMutex, Calls, NoCall
  <2>2. CASE owner[m] \in {None, t} /\ Locks(t, m, LockedOnceMore(t, m)) /\ UNCHANGED <<queue, call>>
    <3>1. LockEffect(t, m, LockedOnceMore(t, m))
      BY <2>2, LockedOnceMoreTyped, Locking
    <3>2. LockEffect(t, m, lockCount'[m])
      BY <3>1 DEF LockEffect
    <3> QED BY <1>c, <1>l, <2>1, <2>2, <3>2
  <2>3. CASE LockWaits(t, m) /\ Enters(t, [op |-> "lock", mutex |-> m])
    <3>1. ~IsWaiting(t)
      BY <1>0, <2>1, CallersRun
    <3>2. \A u \in Thread \ {t} : call'[u] = call[u]
      BY <1>0, <2>3, WaitRequests, Entered
    <3> QED BY <1>c, <1>w, <2>1, <2>3, <3>1, <3>2
  <2> QED BY <1>1, <2>2, <2>3 DEF OSLockMutex, OSTryLockMutex
<1>2. ASSUME LockLoop(t) \/ CondLoop(t) PROVE FreeMutexIsComeFor'
  <2> DEFINE m == call[t].mutex
  <2>1. m \in Mutex /\ ~IsWaiting(t) /\ call[t].op \in {"lock", "cond"} /\ call[t] \in Requests
    BY <1>0, <1>2, WaitingPlaces DEF LockLoop, CondLoop, GoesOn, InCall, TypeOK
  <2>2. \A k \in Mutex \ {m} : ~ComesFor(t, k)
    BY DEF ComesFor
  <2>3. call[t].op = "cond" => call[t].prevLockCount \in Nat
    BY <2>1 DEF Requests
  <2>4. CASE owner[m] \in {None, t} /\ (\E n \in Nat : Locks(t, m, n)) /\ Returns(t) /\ UNCHANGED queue
    <3> HIDE DEF m
    <3>1. PICK n \in Nat : Locks(t, m, n)
      BY <2>4
    <3>2. LockEffect(t, m, n)
      BY <2>1, <2>4, <3>1, Locking
    <3>3. LockEffect(t, m, lockCount'[m])
      BY <3>2 DEF LockEffect
    <3>4. \A u \in Thread \ {t} : call'[u] = call[u]
      BY <1>0, <2>4, Returned
    <3> QED BY <1>l, <2>1, <2>2, <2>4, <3>3, <3>4
  <2>5. CASE LockWaits(t, m) /\ UNCHANGED call
    <3> HIDE DEF m
    <3> QED BY <1>w, <2>1, <2>2, <2>5
  <2>6. LockedOnceMore(t, m) \in Nat
    <3> HIDE DEF m
    <3> QED BY <2>1, LockedOnceMoreTyped
  <2> QED BY <1>2, <2>3, <2>4, <2>5, <2>6 DEF LockLoop, CondLoop, GoesOn, InCall
<1>3. ASSUME NEW m \in Mutex, OSUnlockMutex(t, m) PROVE FreeMutexIsComeFor'
  <2>1. owner[m] = t /\ call' = call /\ call[t].op \notin {"lock", "cond"}
    BY <1>3 DEF OSUnlockMutex, Calls, NoCall
  <2>2. CASE UNCHANGED <<queue, owner>>
    BY <1>n, <2>1, <2>2
  <2>3. CASE Frees(t, m) /\ WakesNextOwner(m)
    BY <2>1, <2>3, Freeing, NextOwnerComes
  <2> QED BY <1>3, <2>2, <2>3 DEF OSUnlockMutex
<1>4. ASSUME ExitUnlocks(t) PROVE FreeMutexIsComeFor'
  <2>1. mutexQueue[t] \in Seq(Mutex) /\ mutexQueue[t] # <<>>
    BY <1>4, MutexFacts DEF ExitUnlocks
  <2>2. Head(mutexQueue[t]) \in Mutex
    BY <2>1
  <2>3. PICK m \in Mutex : owner[m] = t /\ Frees(t, m) /\ WakesNextOwner(m)
    BY <1>4, <2>2 DEF ExitUnlocks
  <2>4. call' = call
    BY <1>4 DEF ExitUnlocks
  <2> QED BY <2>3, <2>4, Freeing, NextOwnerComes
<1>5. ASSUME NEW m \in Mutex, OSWaitCond(t, m) PROVE FreeMutexIsComeFor'
  <2>1. owner[m] = t /\ Frees(t, m) /\ call[t] = NoCall /\ call[t].op \notin {"lock", "cond"}
    BY <1>5 DEF OSWaitCond, Calls, NoCall
  <2>2. FreeEffect(t, m) /\ lockCount[m] \in Nat \ {0}
    BY <1>0, <2>1, Freeing, MutexFacts
  <2>3. \A u \in Thread \ {t} : call'[u] = call[u]
    BY <1>0, <1>5, <2>2, WaitRequests, Entered DEF OSWaitCond
  <2>4. /\ queue'[m] = <<>> /\ Threads(queue'[m]) = {}
        /\ Threads(queue'[cond]) = Threads(queue[cond]) \union {t}
        /\ \A p \in Object \ {m, cond} : queue'[p] = queue[p]
    BY <1>5, CondQueues
  <2>5. ASSUME NEW u \in Thread \ {t}, ~IsWaiting(u) PROVE ~IsWaiting(u)'
    <3>1. \A p \in Object : u \notin Threads(queue[p])
      BY <2>5 DEF IsWaiting
    <3>2. \A p \in Object : u \notin Threads(queue'[p])
      BY <2>4, <3>1
    <3> QED BY <3>2 DEF IsWaiting
  <2>6. \A k \in Mutex \ {m} : owner'[k] = owner[k] /\ queue'[k] = queue[k] /\ ~ComesFor(t, k)
    BY <1>0, <1>c, <2>1, <2>2, <2>4 DEF FreeEffect
  <2>7. \A u \in Thread \ {t} : call'[u] = call[u] /\ (~IsWaiting(u) => ~IsWaiting(u)')
    BY <2>3, <2>5
  <2>8. \A o \in {m} : owner'[o] # None \/ queue'[o] = <<>>
    BY <2>4
  <2>9. {m} \in SUBSET Mutex
    OBVIOUS
  <2> QED BY <2>6, <2>7, <2>8, <2>9, OthersStillCome
<1>6. ASSUME NEW u \in Thread, OSCancelThread(t, u) PROVE FreeMutexIsComeFor'
  <2>1. UNCHANGED <<queue, owner>> /\ call[t].op \notin {"lock", "cond"}
        /\ (Enters(t, [op |-> "exit"]) \/ UNCHANGED call)
    BY <1>6 DEF OSCancelThread, Calls, NoCall, mutexVars
  <2>2. \A v \in Thread \ {t} : call'[v] = call[v]
    BY <1>0, <2>1, WaitRequests, Entered
  <2> QED BY <1>n, <2>1, <2>2
<1>7. ASSUME LockingCancelled(t) \/ OSExitThread(t) \/ ExitEnds(t) PROVE FreeMutexIsComeFor'
  <2>1. UNCHANGED <<queue, owner>> /\ call[t].op \notin {"lock", "cond"}
        /\ (Enters(t, [op |-> "exit"]) \/ Enters(t, [op |-> "exited"]))
    BY <1>7 DEF LockingCancelled, OSExitThread, ExitEnds, Calls, NoCall, InCall, mutexVars
  <2>2. \A v \in Thread \ {t} : call'[v] = call[v]
    BY <1>0, <2>1, WaitRequests, Entered
  <2> QED BY <1>n, <2>1, <2>2
<1>8. ASSUME OSSignalCond(t) PROVE FreeMutexIsComeFor'
  <2>1. UNCHANGED <<owner, call>> /\ call[t].op \notin {"lock", "cond"} /\ wakeupEntireWaitQueue(cond)
    BY <1>8 DEF OSSignalCond, Calls, NoCall, mutexVars
  <2>2. Threads(queue'[cond]) = {} /\ \A p \in Object \ {cond} : queue'[p] = queue[p]
    BY <1>0, <2>1, AllWoken
  <2>3. \A u \in Thread : ~IsWaiting(u) => ~IsWaiting(u)'
    BY <1>0, <2>2, WaitersAfterWaking
  <2>4. \A k \in Mutex : queue'[k] = queue[k]
    BY <1>0, <2>2
  <2> QED BY <1>c, <2>1, <2>3, <2>4, OthersStillCome, {} \in SUBSET Mutex
<1> QED BY <1>1, <1>2, <1>3, <1>4, <1>5, <1>6, <1>7, <1>8 DEF MutexStep
-----------------------------------------------------------------------------
(* The invariant.                                                           *)

LEMMA InitIInv == Init => IInv
<1> SUFFICES ASSUME Init PROVE IInv
  OBVIOUS
<1> USE DEF Init
<1>0. Threads(<<>>) = {} /\ NoDuplicates(<<>>) /\ (\A S : <<>> \in Seq(S))
  BY DEF Threads, NoDuplicates
<1>1. \A o \in Object : queue[o] = <<>>
  OBVIOUS
<1>2. QueuesExact
  BY <1>0, <1>1 DEF QueuesExact
<1>3. NoCall \in Requests
  BY WaitRequests
<1>4. EventTypes /\ MutexTypes
  BY <1>0 DEF EventTypes, MutexTypes
<1>5. queue \in [Object -> Seq(Thread)] /\ call \in [Thread -> Requests]
      /\ coreHit \in [Rendezvous -> SUBSET Core] /\ count \in Int
      /\ cancelled \subseteq Thread /\ program \in Programs
  BY <1>0, <1>3, ObjectAssumption
<1>6. TypeOK
  BY <1>2, <1>4, <1>5, TypeParts
<1>7. EventIInv
  BY DEF EventIInv, SignaledEventHasNoWaiter, TimeoutTakesNoSignal, NoResultWhileWaiting,
         GoesOn, InCall, NoCall
<1>8. SleepsOnlyUnmet
  BY <1>0, <1>1, Objects DEF SleepsOnlyUnmet
<1>9. MutexesExact
  BY <1>0, Objects DEF MutexesExact, InCall, NoCall
<1>10. FreeMutexIsComeFor /\ NobodyWaitsBesideUnit
  BY <1>1, Objects DEF FreeMutexIsComeFor, NobodyWaitsBesideUnit
<1> QED BY <1>6, <1>7, <1>8, <1>9, <1>10 DEF IInv, EventIInv

LEMMA StepIInv ==
    ASSUME IInv, NEW t \in Thread, Step(t)
    PROVE  IInv'
<1>0. /\ TypeOK' /\ TypeOK
      /\ rendezvousEvent \notin Mutex \union {cond} /\ rendezvousEvent \notin Event
      /\ rendezvousEvent # semaphore /\ semaphore \notin Event /\ semaphore \notin Mutex
      /\ semaphore # cond /\ cond \notin Event /\ cond # rendezvousEvent /\ semaphore \in Object
  BY StepTypes, Objects DEF IInv, AllEvents
<1>d. /\ \A m \in Mutex : m \notin AllEvents
      /\ cond \notin AllEvents /\ semaphore \notin AllEvents
  BY Objects
<1>u. ASSUME queue'[semaphore] = queue[semaphore], UNCHANGED count PROVE NobodyWaitsBesideUnit'
  BY <1>u DEF IInv, NobodyWaitsBesideUnit
<1>1. CASE EventStep(t) /\ UNCHANGED <<mutexVars, cancelled, count, coreHit, program>>
  <2>1. Frame(Event, {"none", "event", "timed"})
    BY <1>1, EventFrame
  <2>2. EventIInv'
    BY <1>0, <1>1, EventStepKeepsEvents
  <2>3. SleepsOnlyUnmet'
    BY <1>0, <1>1, <2>1, OthersKeepSleepers
  <2>4. MutexesExact' /\ FreeMutexIsComeFor'
    <3>1. Event \intersect (Mutex \union {cond}) = {}
      BY <1>d DEF AllEvents
    <3> QED BY <1>0, <1>1, <2>1, <3>1, OthersKeepMutexes
  <2>5. NobodyWaitsBesideUnit'
    BY <1>0, <1>1, <1>u, <2>1 DEF Frame
  <2> QED BY <1>0, <2>2, <2>3, <2>4, <2>5 DEF IInv, EventIInv
<1>2. CASE RendezvousStep(t) /\ UNCHANGED <<mutexVars, cancelled, count, program>>
  <2>1. Frame({rendezvousEvent}, {"none", "rendezvous"})
    BY <1>2, RendezvousFrame
  <2>2. EventIInv'
    BY <1>0, <1>2, RendezvousKeepsEvents
  <2>3. SleepsOnlyUnmet'
    BY <1>0, <1>2, RendezvousKeepsSleepers
  <2>4. MutexesExact' /\ FreeMutexIsComeFor'
    <3>1. {rendezvousEvent} \intersect (Mutex \union {cond}) = {}
      BY <1>0
    <3> QED BY <1>0, <1>2, <2>1, <3>1, OthersKeepMutexes
  <2>5. NobodyWaitsBesideUnit'
    BY <1>0, <1>2, <1>u, <2>1 DEF Frame
  <2> QED BY <1>0, <2>2, <2>3, <2>4, <2>5 DEF IInv, EventIInv
<1>3. CASE MutexStep(t) /\ UNCHANGED <<eventVars, count, coreHit, program>>
  <2>1. Frame(Mutex \union {cond}, {"none", "lock", "cond", "exit", "exited"})
    BY <1>3, MutexFrame
  <2>2. EventIInv'
    <3>1. (Mutex \union {cond}) \intersect AllEvents = {}
      BY <1>d
    <3> QED BY <1>0, <1>3, <2>1, <3>1, OthersKeepEvents
  <2>3. SleepsOnlyUnmet'
    BY <1>0, <1>3, <2>1, OthersKeepSleepers
  <2>4. MutexesExact' /\ FreeMutexIsComeFor'
    BY <1>0, <1>3, MutexStepKeepsMutexes, MutexStepKeepsComers
  <2>5. NobodyWaitsBesideUnit'
    BY <1>0, <1>3, <1>u, <2>1 DEF Frame
  <2> QED BY <1>0, <2>2, <2>3, <2>4, <2>5 DEF IInv, EventIInv
<1>4. CASE SemaphoreStep(t) /\ UNCHANGED <<eventVars, mutexVars, cancelled, coreHit, program>>
  <2>1. Frame({semaphore}, {"none", "semaphore"})
    BY <1>4, SemaphoreFrame
  <2>2. EventIInv'
    <3>1. {semaphore} \intersect AllEvents = {}
      BY <1>d
    <3> QED BY <1>0, <1>4, <2>1, <3>1, OthersKeepEvents
  <2>3. SleepsOnlyUnmet'
    BY <1>0, <1>4, <2>1, OthersKeepSleepers
  <2>4. MutexesExact' /\ FreeMutexIsComeFor'
    <3>1. {semaphore} \intersect (Mutex \union {cond}) = {}
      BY <1>0
    <3> QED BY <1>0, <1>4, <2>1, <3>1, OthersKeepMutexes
  <2>5. NobodyWaitsBesideUnit'
    BY <1>4, SemaphoreKeepsUnits
  <2> QED BY <1>0, <2>2, <2>3, <2>4, <2>5 DEF IInv, EventIInv
<1> QED BY <1>1, <1>2, <1>3, <1>4 DEF Step

LEMMA NextIInv == IInv /\ [Next]_vars => IInv'
<1>1. ASSUME IInv, Next PROVE IInv'
  BY <1>1, StepIInv DEF Next
<1>2. ASSUME IInv, UNCHANGED vars PROVE IInv'
  <2> USE <1>2 DEF vars, eventVars, mutexVars, IInv
  <2>1. TypeOK'
    BY DEF TypeOK, WaitsIn
  <2>2. SignaledEventHasNoWaiter' /\ TimeoutTakesNoSignal' /\ NoResultWhileWaiting'
    BY DEF SignaledEventHasNoWaiter, TimeoutTakesNoSignal, NoResultWhileWaiting, GoesOn, InCall, IsWaiting
  <2>3. SleepsOnlyUnmet' /\ NobodyWaitsBesideUnit'
    BY DEF SleepsOnlyUnmet, metAll, NobodyWaitsBesideUnit
  <2>4. MutexesExact'
    BY DEF MutexesExact, InCall
  <2>5. FreeMutexIsComeFor'
    BY DEF FreeMutexIsComeFor, ComesFor, GoesOn, InCall, IsWaiting
  <2> QED BY <2>1, <2>2, <2>3, <2>4, <2>5
<1> QED BY <1>1, <1>2

\* The invariant holds for every number of threads and objects and any program.
THEOREM ObjectInvariant == Spec => []IInv
  BY InitIInv, NextIInv, PTL DEF Spec

\* Every variable keeps its type, and a thread waits in one queue, of its call.
THEOREM ObjectTypes == Spec => []TypeOK
<1>1. IInv => TypeOK
  BY DEF IInv
<1> QED BY <1>1, ObjectInvariant, PTL

\* No thread waits for an event that is signaled.
THEOREM SignalsFindTheirWaiters == Spec => []SignaledEventHasNoWaiter
<1>1. IInv => SignaledEventHasNoWaiter
  BY DEF IInv
<1> QED BY <1>1, ObjectInvariant, PTL

\* A timed wait ends with a signal or with a timeout, and its alarm reaches no
\* other wait.
THEOREM TimeoutOrSignal == Spec => []TimeoutTakesNoSignal
<1>1. IInv => TimeoutTakesNoSignal
  BY DEF IInv
<1> QED BY <1>1, ObjectInvariant, PTL

\* Whoever sleeps in a rendezvous still misses a core.
THEOREM RendezvousSleepersUnmet == Spec => []SleepsOnlyUnmet
<1>1. IInv => SleepsOnlyUnmet
  BY DEF IInv
<1> QED BY <1>1, ObjectInvariant, PTL

\* Mutexes are owned as often as they were locked and not given back.
THEOREM MutexOwnership == Spec => []MutexesExact
<1>1. IInv => MutexesExact
  BY DEF IInv
<1> QED BY <1>1, ObjectInvariant, PTL

\* Beside a free mutex nobody waits unless a woken thread comes for it.
THEOREM FreeMutexFindsOwner == Spec => []FreeMutexIsComeFor
<1>1. IInv => FreeMutexIsComeFor
  BY DEF IInv
<1> QED BY <1>1, ObjectInvariant, PTL

\* Nobody waits in the semaphore while it has a unit.
THEOREM UnitsFindTheirTakers == Spec => []NobodyWaitsBesideUnit
<1>1. IInv => NobodyWaitsBesideUnit
  BY DEF IInv
<1> QED BY <1>1, ObjectInvariant, PTL
-----------------------------------------------------------------------------
(* The semaphore counts.                                                    *)

LEMMA StepOfSemaphore ==
    ASSUME IInv, NEW t \in Thread, Step(t)
    PROVE  [Semaphore!Next]_(Semaphore!vars)
<1> DEFINE waiting == {u \in Thread : InCall(u, "semaphore")}
<1>0. TypeOK
  BY DEF IInv
<1>1. ASSUME NEW os, NEW ops, Frame(os, ops), "semaphore" \notin ops, UNCHANGED count
      PROVE  UNCHANGED <<count, waiting>>
  <2>1. \A u \in Thread : InCall(u, "semaphore")' <=> InCall(u, "semaphore")
    BY <1>1 DEF Frame, InCall
  <2> QED BY <1>1, <2>1
<1>2. CASE SemaphoreStep(t)
  <2>1. CASE OSWaitSemaphore(t)
    <3>0. t \notin waiting /\ call[t] = NoCall
      BY <2>1 DEF OSWaitSemaphore, Calls, InCall, NoCall
    <3>1. CASE TakesUnit /\ UNCHANGED call
      <4>1. waiting' = waiting \ {t}
        BY <3>0, <3>1 DEF InCall
      <4> QED BY <3>1, <4>1 DEF TakesUnit, Semaphore!Take, Semaphore!Next
    <3>2. CASE count <= 0 /\ Enters(t, [op |-> "semaphore"]) /\ UNCHANGED count
      <4>1. call'[t] = [op |-> "semaphore"] /\ \A u \in Thread \ {t} : call'[u] = call[u]
        BY <1>0, <3>2, WaitRequests, Entered
      <4>2. waiting' = waiting \union {t}
        BY <4>1 DEF InCall
      <4> QED BY <3>0, <3>2, <4>2 DEF Semaphore!Ask, Semaphore!Next
    <3> QED BY <2>1, <3>1, <3>2 DEF OSWaitSemaphore
  <2>2. CASE SemaphoreLoop(t)
    <3>1. CASE TakesUnit /\ Returns(t)
      <4>1. call'[t] = NoCall /\ \A u \in Thread \ {t} : call'[u] = call[u]
        BY <1>0, <3>1, Returned
      <4>2. waiting' = waiting \ {t}
        BY <4>1 DEF InCall, NoCall
      <4> QED BY <3>1, <4>2 DEF TakesUnit, Semaphore!Take, Semaphore!Next
    <3>2. CASE UNCHANGED <<count, call>>
      <4>1. waiting' = waiting
        BY <3>2 DEF InCall
      <4> QED BY <3>2, <4>1 DEF Semaphore!vars
    <3> QED BY <2>2, <3>1, <3>2 DEF SemaphoreLoop
  <2>3. CASE OSTryWaitSemaphore(t)
    <3>1. waiting' = waiting \ {t}
      BY <2>3 DEF OSTryWaitSemaphore, Calls, InCall, NoCall
    <3> QED BY <2>3, <3>1 DEF OSTryWaitSemaphore, TakesUnit, Semaphore!Take, Semaphore!Next
  <2>4. CASE OSSignalSemaphore(t)
    <3>1. waiting' = waiting
      BY <2>4 DEF OSSignalSemaphore, InCall
    <3> QED BY <2>4, <3>1 DEF OSSignalSemaphore, Semaphore!Give, Semaphore!Next
  <2> QED BY <1>2, <2>1, <2>2, <2>3, <2>4 DEF SemaphoreStep
<1>3. CASE EventStep(t) /\ UNCHANGED count
  BY <1>1, <1>3, EventFrame DEF Semaphore!vars
<1>4. CASE RendezvousStep(t) /\ UNCHANGED count
  BY <1>1, <1>4, RendezvousFrame DEF Semaphore!vars
<1>5. CASE MutexStep(t) /\ UNCHANGED count
  BY <1>1, <1>5, MutexFrame DEF Semaphore!vars
<1> QED BY <1>2, <1>3, <1>4, <1>5 DEF Step

\* Every step of OSSemaphore is a step of the counting semaphore or none: no
\* unit is lost or made up, whatever wakes its waiters.
THEOREM SemaphoreCounts == Spec => Semaphore!Init /\ [][Semaphore!Next]_(Semaphore!vars)
<1>1. Init => Semaphore!Init
  BY DEF Init, Semaphore!Init, InCall, NoCall
<1>2. IInv /\ [Next]_vars => [Semaphore!Next]_(Semaphore!vars)
  <2>1. ASSUME IInv, Next PROVE [Semaphore!Next]_(Semaphore!vars)
    BY <2>1, StepOfSemaphore DEF Next
  <2>2. ASSUME UNCHANGED vars PROVE UNCHANGED Semaphore!vars
    BY <2>2 DEF vars, Semaphore!vars, InCall
  <2> QED BY <2>1, <2>2
<1> QED BY <1>1, <1>2, ObjectInvariant, PTL DEF Spec
-----------------------------------------------------------------------------
(* Whom a wake-up of one thread reaches.                                    *)

\* What a step of t can do to the queue of an object.
QueueMoves(t, p) ==
    \/ queue'[p] = queue[p] \/ queue'[p] = <<>>
    \/ queue[p] # <<>> /\ queue'[p] = Tail(queue[p])
    \/ \E u \in Threads(queue[p]) : queue'[p] = removeThread(queue[p], u)
    \/ \E i \in 0 .. Len(queue[p]) :
          /\ IsInsertPoint(queue[p], t, priority, i)
          /\ queue'[p] = insertBehind(queue[p], i, t)

LEMMA WaitMoves ==
    ASSUME TypeOK, NEW t \in Thread, NEW o \in Object, queueAndWait(t, o), NEW p \in Object
    PROVE  QueueMoves(t, p)
<1>1. PICK i \in 0 .. Len(queue[o]) : /\ IsInsertPoint(queue[o], t, priority, i)
                                     /\ queue' = [queue EXCEPT ![o] = insertBehind(queue[o], i, t)]
  BY DEF queueAndWait
<1>2. queue'[p] = IF p = o THEN insertBehind(queue[o], i, t) ELSE queue[p]
  BY <1>1 DEF TypeOK
<1> QED BY <1>1, <1>2 DEF QueueMoves

LEMMA WakeMoves ==
    ASSUME TypeOK, NEW t \in Thread, NEW o \in Object,
           \/ wakeupEntireWaitQueue(o)
           \/ queue[o] # <<>> /\ wakeupSingleThreadWaitQueue(o),
           NEW p \in Object
    PROVE  QueueMoves(t, p)
  BY DEF TypeOK, wakeupEntireWaitQueue, wakeupSingleThreadWaitQueue, QueueMoves

LEMMA SignalMoves ==
    ASSUME TypeOK, NEW t \in Thread, NEW e \in AllEvents,
           OSSignalEventInternal(e) \/ OSSignalEventAllInternal(e), NEW p \in Object
    PROVE  QueueMoves(t, p)
<1>1. e \in Object BY Objects
<1>2. CASE UNCHANGED queue BY <1>2 DEF QueueMoves
<1>3. CASE queue[e] # <<>> /\ WakesFirst(e) BY <1>1, <1>3, WakeMoves DEF WakesFirst
<1>4. CASE WakesAll(e) BY <1>1, <1>4, WakeMoves DEF WakesAll
<1> QED BY <1>2, <1>3, <1>4 DEF OSSignalEventInternal, OSSignalEventAllInternal, SignalWith

LEMMA StepMoves ==
    ASSUME IInv, NEW t \in Thread, Step(t), NEW p \in Object
    PROVE  QueueMoves(t, p)
<1>1. TypeOK BY DEF IInv
<1>2. CASE UNCHANGED queue BY <1>2 DEF QueueMoves
<1>3. CASE \E e \in Event : queueAndWait(t, e)
  BY <1>1, <1>3, Objects, WaitMoves DEF AllEvents
<1>4. CASE EventStep(t)
  <2>1. CASE \E e \in Event : OSSignalEvent(t, e) \/ OSSignalEventAll(t, e)
    BY <1>1, <2>1, SignalMoves DEF OSSignalEvent, OSSignalEventAll, AllEvents
  <2>2. CASE \E e \in Event : OSResetEvent(t, e) \/ OSWaitEvent(t, e) \/ OSWaitEventWithTimeout(t, e)
    BY <1>2, <1>3, <2>2 DEF OSResetEvent, OSWaitEvent, OSWaitEventWithTimeout
  <2>3. CASE WaitEventReturns(t) \/ TimedWaitReturns(t)
    BY <1>2, <2>3 DEF WaitEventReturns, TimedWaitReturns
  <2>4. CASE _OSWaitEventWithTimeoutHandler(t)
    <3>1. CASE UNCHANGED queue BY <1>2, <3>1
    <3>2. CASE IsWaiting(t) /\ CancelWait(t)
      <4>1. InCall(t, "timed") BY <2>4 DEF _OSWaitEventWithTimeoutHandler, IInv, TimeoutTakesNoSignal
      <4>2. WaitsIn(t) = {call[t].event} BY <4>1 DEF WaitsIn, InCall
      <4>3. call[t].event \in Object /\ t \in Threads(queue[call[t].event])
        BY <1>1, <3>2, <4>2, WaitingExact
      <4>4. queue' = [queue EXCEPT ![call[t].event] = removeThread(@, t)]
        BY <3>2 DEF CancelWait
      <4> QED BY <1>1, <4>3, <4>4 DEF QueueMoves, TypeOK
    <3> QED BY <2>4, <3>1, <3>2 DEF _OSWaitEventWithTimeoutHandler
  <2> QED BY <1>4, <2>1, <2>2, <2>3, <2>4 DEF EventStep
<1>5. CASE RendezvousStep(t)
  <2>1. CASE \E r \in Rendezvous : OSInitRendezvous(t, r)
    BY <1>2, <2>1 DEF OSInitRendezvous
  <2>2. CASE \E r \in Rendezvous : \E coreMask \in CoreMasks : OSWaitRendezvous(t, r, coreMask)
    BY <1>1, <2>2, SignalMoves DEF OSWaitRendezvous, AllEvents
  <2>3. CASE RendezvousLoop(t)
    BY <1>1, <1>2, <2>3, Objects, WaitMoves DEF RendezvousLoop
  <2> QED BY <1>5, <2>1, <2>2, <2>3 DEF RendezvousStep
<1>6. CASE SemaphoreStep(t)
  BY <1>1, <1>2, <1>6, Objects, WaitMoves, WakeMoves
     DEF SemaphoreStep, OSWaitSemaphore, SemaphoreLoop, OSTryWaitSemaphore, OSSignalSemaphore, TakesUnit
<1>7. CASE MutexStep(t)
  <2>1. ASSUME NEW m \in Mutex, WakesNextOwner(m) PROVE QueueMoves(t, p)
    BY <1>1, <1>2, <2>1, Objects, WakeMoves DEF WakesNextOwner
  <2>2. ASSUME NEW m \in Mutex, LockWaits(t, m) PROVE QueueMoves(t, p)
    BY <1>1, <2>2, Objects, WaitMoves DEF LockWaits
  <2>3. ASSUME NEW m \in Mutex, OSLockMutex(t, m) \/ OSTryLockMutex(t, m) \/ OSUnlockMutex(t, m)
        PROVE  QueueMoves(t, p)
    BY <1>2, <2>1, <2>2, <2>3 DEF OSLockMutex, OSTryLockMutex, OSUnlockMutex
  <2>4. ASSUME NEW m \in Mutex, OSWaitCond(t, m) PROVE QueueMoves(t, p)
    <3>1. PICK i \in 0 .. Len(queue[cond]) :
             /\ IsInsertPoint(queue[cond], t, priority, i)
             /\ queue' = [queue EXCEPT ![m] = <<>>, ![cond] = insertBehind(@, i, t)]
      BY <2>4 DEF OSWaitCond
    <3>2. queue'[p] = IF p = cond THEN insertBehind(queue[cond], i, t)
                      ELSE IF p = m THEN <<>> ELSE queue[p]
      BY <1>1, <3>1, Objects DEF TypeOK
    <3> QED BY <3>1, <3>2 DEF QueueMoves
  <2>5. CASE LockLoop(t) \/ CondLoop(t)
    <3>1. call[t].mutex \in Mutex
      BY <1>1, <2>5, WaitRequests DEF LockLoop, CondLoop, GoesOn, InCall, TypeOK, Requests
    <3> QED BY <1>2, <2>2, <2>5, <3>1 DEF LockLoop, CondLoop
  <2>6. CASE OSSignalCond(t)
    BY <1>1, <2>6, Objects, WakeMoves DEF OSSignalCond
  <2>7. CASE ExitUnlocks(t)
    <3>1. Head(mutexQueue[t]) \in Mutex BY <1>1, <2>7 DEF ExitUnlocks, TypeOK
    <3> QED BY <2>1, <2>7, <3>1 DEF ExitUnlocks
  <2>8. CASE \/ \E u \in Thread : OSCancelThread(t, u)
             \/ LockingCancelled(t) \/ OSExitThread(t) \/ ExitEnds(t)
    BY <1>2, <2>8 DEF OSCancelThread, LockingCancelled, OSExitThread, ExitEnds
  <2> QED BY <1>7, <2>3, <2>4, <2>5, <2>6, <2>7, <2>8 DEF MutexStep
<1> QED BY <1>4, <1>5, <1>6, <1>7 DEF Step

QueuesSorted == \A o \in Object : Sorted(queue[o], priority)

\* The thread that wakeupSingleThreadWaitQueue takes is a most urgent one.
UrgentWaiterFirst ==
    \A o \in Object : \A u \in Threads(queue[o]) : priority[Head(queue[o])] <= priority[u]

\* A signal to an OSEvent in AUTO mode and the unlock of an OSMutex reach a most
\* urgent waiter: time-outs, conditions and retries do not disturb the queues.
THEOREM WakeupsReachTheMostUrgent == Spec => []UrgentWaiterFirst
<1>1. Init => QueuesSorted BY DEF Init, QueuesSorted, Sorted
<1>2. IInv /\ QueuesSorted /\ [Next]_vars => QueuesSorted'
  <2> SUFFICES ASSUME IInv, QueuesSorted, [Next]_vars PROVE QueuesSorted'
    OBVIOUS
  <2>1. CASE UNCHANGED vars BY <2>1 DEF vars, QueuesSorted
  <2>2. ASSUME NEW t \in Thread, Step(t), NEW p \in Object PROVE Sorted(queue'[p], priority)
    <3>1. /\ queue[p] \in Seq(Thread) /\ priority \in [Thread -> Nat] /\ Sorted(queue[p], priority)
      BY Objects DEF IInv, TypeOK, QueuesSorted
    <3>2. QueueMoves(t, p) BY <2>2, StepMoves
    <3>3. CASE queue'[p] = queue[p] BY <3>1, <3>3
    <3>4. CASE queue'[p] = <<>> BY <3>4 DEF Sorted
    <3>5. CASE queue[p] # <<>> /\ queue'[p] = Tail(queue[p])
      BY <3>1, <3>5, TakeFirstKeepsSorted
    <3>6. CASE \E u \in Threads(queue[p]) : queue'[p] = removeThread(queue[p], u)
      BY <3>1, <3>6, RemoveKeepsSorted
    <3>7. CASE \E i \in 0 .. Len(queue[p]) :
                  /\ IsInsertPoint(queue[p], t, priority, i)
                  /\ queue'[p] = insertBehind(queue[p], i, t)
      BY <3>1, <3>7, InsertKeepsSorted
    <3> QED BY <3>2, <3>3, <3>4, <3>5, <3>6, <3>7 DEF QueueMoves
  <2> QED BY <2>1, <2>2 DEF Next, QueuesSorted
<1>3. ASSUME NEW q \in Seq(Thread), NEW u \in Threads(q), Sorted(q, priority)
      PROVE  priority[Head(q)] <= priority[u]
  <2>1. q # <<>> /\ priority \in [Thread -> Nat] BY Objects DEF Threads
  <2> QED BY <1>3, <2>1, TakeFirstKeepsSorted
<1>4. IInv /\ QueuesSorted => UrgentWaiterFirst
  BY <1>3 DEF IInv, TypeOK, QueuesSorted, UrgentWaiterFirst
<1> QED BY <1>1, <1>2, <1>4, ObjectInvariant, PTL DEF Spec
-----------------------------------------------------------------------------
(* What a wait for a mutex waits for.                                       *)

NobodyWaitsForItself == \A m \in Mutex : \A u \in Threads(queue[m]) : owner[m] # u

\* The mutexes are not touched, or they are freed and their waiters woken.
LEMMA WaitersLeave ==
    ASSUME NobodyWaitsForItself, TypeOK, TypeOK',
           \A m \in Mutex : /\ owner'[m] \in {owner[m], None}
                            /\ Threads(queue'[m]) \subseteq Threads(queue[m])
    PROVE  NobodyWaitsForItself'
<1>1. None \notin Thread /\ \A m \in Mutex : m \in Object BY Objects
<1>2. ASSUME NEW m \in Mutex, NEW u \in Threads(queue'[m]) PROVE owner'[m] # u
  <2>1. u \in Threads(queue[m]) /\ u \in Thread BY <1>1, <1>2, ThreadsTyped
  <2>2. owner[m] # u BY <2>1 DEF NobodyWaitsForItself
  <2> QED BY <1>1, <2>1, <2>2
<1> QED BY <1>2 DEF NobodyWaitsForItself

LEMMA OthersKeepWaiters ==
    ASSUME NobodyWaitsForItself, NEW os, NEW ops, Frame(os, ops), UNCHANGED mutexVars,
           os \intersect Mutex = {}
    PROVE  NobodyWaitsForItself'
<1>1. \A m \in Mutex : queue'[m] = queue[m] /\ owner'[m] = owner[m]
  BY Objects DEF Frame, mutexVars
<1> QED BY <1>1 DEF NobodyWaitsForItself

LEMMA MutexStepKeepsWaiters ==
    ASSUME IInv, TypeOK', NobodyWaitsForItself, NEW t \in Thread, MutexStep(t)
    PROVE  NobodyWaitsForItself'
<1>0. /\ TypeOK /\ (\A m \in Mutex : m \in Object /\ m # cond) /\ cond \in Object
      /\ None \notin Thread /\ owner \in [Mutex -> Thread \union {None}]
  BY Objects DEF IInv, TypeOK
\* Locking m, or waiting for it.
<1>l. ASSUME NEW m \in Mutex, NEW n \in Nat, owner[m] \in {None, t}, Locks(t, m, n),
             UNCHANGED queue, ~IsWaiting(t)
      PROVE  NobodyWaitsForItself'
  <2>1. LockEffect(t, m, n) BY <1>l, Locking
  <2>2. \A k \in Mutex : t \notin Threads(queue[k]) BY <1>0, <1>l DEF IsWaiting
  <2> QED BY <1>l, <2>1, <2>2 DEF LockEffect, NobodyWaitsForItself
<1>w. ASSUME NEW m \in Mutex, LockWaits(t, m), ~IsWaiting(t) PROVE NobodyWaitsForItself'
  <2>1. owner' = owner /\ owner[m] # t /\ queueAndWait(t, m) BY <1>w DEF LockWaits, mutexVars
  <2>2. /\ Threads(queue'[m]) = Threads(queue[m]) \union {t}
        /\ \A k \in Mutex \ {m} : queue'[k] = queue[k]
    BY <1>0, <1>w, <2>1, Enqueued
  <2> QED BY <2>1, <2>2 DEF NobodyWaitsForItself
<1>f. ASSUME NEW m \in Mutex, FreeEffect(t, m), WakesNextOwner(m) PROVE NobodyWaitsForItself'
  <2>1. \A k \in Mutex : Threads(queue'[k]) \subseteq Threads(queue[k]) BY <1>0, <1>f, NextOwnerWoken
  <2>2. \A k \in Mutex : owner'[k] \in {owner[k], None} BY <1>f DEF FreeEffect
  <2> QED BY <1>0, <2>1, <2>2, WaitersLeave
<1>n. ASSUME UNCHANGED <<queue, owner>> PROVE NobodyWaitsForItself'
  BY <1>n DEF NobodyWaitsForItself
<1>1. ASSUME NEW m \in Mutex, OSLockMutex(t, m) \/ OSTryLockMutex(t, m) PROVE NobodyWaitsForItself'
  <2>1. ~IsWaiting(t) BY <1>0, <1>1, CallersRun DEF OSLockMutex, OSTryLockMutex, Calls
  <2>2. LockedOnceMore(t, m) \in Nat BY LockedOnceMoreTyped
  <2> QED BY <1>1, <1>l, <1>w, <2>1, <2>2 DEF OSLockMutex, OSTryLockMutex
<1>2. ASSUME LockLoop(t) \/ CondLoop(t) PROVE NobodyWaitsForItself'
  <2>1. PICK m \in Mutex : m = call[t].mutex
    BY <1>0, <1>2, WaitingPlaces DEF LockLoop, CondLoop, GoesOn, InCall
  <2>2. ~IsWaiting(t) BY <1>2 DEF LockLoop, CondLoop, GoesOn
  <2>3. LockedOnceMore(t, m) \in Nat BY LockedOnceMoreTyped
  <2>4. CondLoop(t) => call[t].prevLockCount \in Nat
    <3>1. call[t] \in Requests BY <1>0 DEF TypeOK
    <3> QED BY <3>1 DEF CondLoop, GoesOn, InCall, Requests
  <2>5. \/ LockWaits(t, m)
        \/ owner[m] \in {None, t} /\ UNCHANGED queue /\ \E n \in Nat : Locks(t, m, n)
    BY <1>2, <2>1, <2>3, <2>4 DEF LockLoop, CondLoop
  <2> QED BY <1>l, <1>w, <2>2, <2>5
<1>3. ASSUME NEW m \in Mutex, OSUnlockMutex(t, m) PROVE NobodyWaitsForItself'
  <2>1. CASE UNCHANGED <<queue, owner>> BY <1>n, <2>1
  <2>2. CASE Frees(t, m) /\ WakesNextOwner(m)
    BY <1>3, <1>f, <2>2, Freeing DEF OSUnlockMutex
  <2> QED BY <1>3, <2>1, <2>2 DEF OSUnlockMutex
<1>4. ASSUME ExitUnlocks(t) PROVE NobodyWaitsForItself'
  <2>1. Head(mutexQueue[t]) \in Mutex BY <1>4, MutexFacts DEF ExitUnlocks
  <2>2. PICK m \in Mutex : owner[m] = t /\ Frees(t, m) /\ WakesNextOwner(m)
    BY <1>4, <2>1 DEF ExitUnlocks
  <2> QED BY <1>f, <2>2, Freeing
<1>5. ASSUME NEW m \in Mutex, OSWaitCond(t, m) PROVE NobodyWaitsForItself'
  <2>1. FreeEffect(t, m) BY <1>5, Freeing DEF OSWaitCond
  <2>2. \A k \in Mutex : Threads(queue'[k]) \subseteq Threads(queue[k])
    BY <1>0, <1>5, CondQueues
  <2>3. \A k \in Mutex : owner'[k] \in {owner[k], None} BY <2>1 DEF FreeEffect
  <2> QED BY <1>0, <2>2, <2>3, WaitersLeave
<1>6. ASSUME OSSignalCond(t) PROVE NobodyWaitsForItself'
  <2>1. owner' = owner /\ \A k \in Mutex : queue'[k] = queue[k]
    BY <1>0, <1>6, AllWoken DEF OSSignalCond, mutexVars
  <2> QED BY <2>1 DEF NobodyWaitsForItself
<1>7. ASSUME \/ \E u \in Thread : OSCancelThread(t, u)
             \/ LockingCancelled(t) \/ OSExitThread(t) \/ ExitEnds(t)
      PROVE  NobodyWaitsForItself'
  BY <1>7, <1>n DEF OSCancelThread, LockingCancelled, OSExitThread, ExitEnds, mutexVars
<1> QED BY <1>1, <1>2, <1>3, <1>4, <1>5, <1>6, <1>7 DEF MutexStep

\* A thread that waits for a mutex waits for another one, which owns the mutex
\* and is still there to unlock it, or for a woken thread that comes for it.
MutexWaitsCanEnd ==
    \A m \in Mutex : \A u \in Threads(queue[m]) :
      \/ \E v \in Thread \ {u} : ComesFor(v, m)
      \/ \E v \in Thread \ {u} : owner[m] = v /\ ~InCall(v, "exited")

\* No thread takes a mutex with it when it exits or is cancelled, and none
\* waits for a mutex of its own: conditions and recursive locks included.
THEOREM NoMutexIsLost == Spec => []MutexWaitsCanEnd
<1>1. Init => NobodyWaitsForItself
  BY Objects DEF Init, NobodyWaitsForItself, Threads
<1>2. IInv /\ IInv' /\ NobodyWaitsForItself /\ [Next]_vars => NobodyWaitsForItself'
  <2> SUFFICES ASSUME IInv, IInv', NobodyWaitsForItself, [Next]_vars PROVE NobodyWaitsForItself'
    OBVIOUS
  <2>1. CASE UNCHANGED vars BY <2>1 DEF vars, mutexVars, NobodyWaitsForItself
  <2>2. ASSUME NEW t \in Thread, Step(t) PROVE NobodyWaitsForItself'
    <3>0. /\ Event \intersect Mutex = {} /\ {rendezvousEvent} \intersect Mutex = {}
          /\ {semaphore} \intersect Mutex = {}
      BY Objects DEF AllEvents
    <3>1. CASE EventStep(t) /\ UNCHANGED mutexVars BY <3>0, <3>1, EventFrame, OthersKeepWaiters
    <3>2. CASE RendezvousStep(t) /\ UNCHANGED mutexVars
      BY <3>0, <3>2, RendezvousFrame, OthersKeepWaiters
    <3>3. CASE SemaphoreStep(t) /\ UNCHANGED mutexVars
      BY <3>0, <3>3, SemaphoreFrame, OthersKeepWaiters
    <3>4. CASE MutexStep(t)
      <4>1. TypeOK' BY DEF IInv
      <4> QED BY <3>4, <4>1, MutexStepKeepsWaiters
    <3> QED BY <2>2, <3>1, <3>2, <3>3, <3>4 DEF Step
  <2> QED BY <2>1, <2>2 DEF Next
<1>3. ASSUME IInv, NobodyWaitsForItself PROVE MutexWaitsCanEnd
  <2>1. SUFFICES ASSUME NEW m \in Mutex, NEW u \in Threads(queue[m])
                 PROVE  \/ \E v \in Thread \ {u} : ComesFor(v, m)
                        \/ \E v \in Thread \ {u} : owner[m] = v /\ ~InCall(v, "exited")
    BY DEF MutexWaitsCanEnd
  <2>2. TypeOK /\ m \in Object /\ Threads(<<>>) = {}
    BY <1>3, Objects DEF IInv, Threads
  <2>3. u \in Thread /\ queue[m] # <<>> /\ IsWaiting(u)
    BY <2>2, ThreadsTyped DEF IsWaiting
  <2>4. CASE owner[m] = None
    <3>1. PICK v \in Thread : ComesFor(v, m) BY <1>3, <2>3, <2>4 DEF IInv, FreeMutexIsComeFor
    <3>2. ~IsWaiting(v) BY <3>1 DEF ComesFor, GoesOn
    <3> QED BY <2>3, <3>1, <3>2
  <2>5. CASE owner[m] # None
    <3>1. PICK v \in Thread : owner[m] = v BY <1>3, <2>5, MutexFacts
    <3>2. m \in Threads(mutexQueue[v]) BY <1>3, <3>1, MutexFacts
    <3>3. mutexQueue[v] # <<>> BY <2>2, <3>2 DEF Threads
    <3>4. ~InCall(v, "exited") BY <1>3, <3>3 DEF IInv, MutexesExact
    <3>5. v # u BY <1>3, <3>1 DEF NobodyWaitsForItself
    <3> QED BY <3>1, <3>4, <3>5
  <2> QED BY <2>4, <2>5
<1>4. IInv /\ NobodyWaitsForItself => MutexWaitsCanEnd BY <1>3
<1> QED BY <1>1, <1>2, <1>4, ObjectInvariant, PTL DEF Spec
=============================================================================
