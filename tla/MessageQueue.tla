---------------------------- MODULE MessageQueue ----------------------------
(***************************************************************************)
(* OSMessageQueue (coreinit_MessageQueue.cpp): a ring buffer with two wait *)
(* queues.  A call tries under the scheduler lock, waits in a queue when   *)
(* it cannot go on, and tries again when it runs next; meanwhile the slot  *)
(* or message it was woken for may be gone.  Waking up wakes one thread.   *)
(***************************************************************************)
EXTENDS Integers, Sequences, FiniteSets, ThreadQueue

CONSTANTS
    Thread,      \* the guest threads that use the queue
    priority,    \* their effective priorities, 0 is the most urgent
    Message,     \* OSMessage values
    msgCount,    \* slots of the ring
    None

ASSUME QueueAssumption ==
    /\ IsFiniteSet(Thread)
    /\ priority \in [Thread -> Nat]
    /\ msgCount \in Nat \ {0}
    /\ None \notin Message
    /\ {"no", "done"} \intersect Message = {}

VARIABLES
    msgArray,            \* the ring
    firstIndex,          \* slot of the first message
    usedCount,           \* how many messages there are
    threadQueueReceive,  \* threads that wait for a message
    threadQueueSend,     \* threads that wait for a slot
    call,                \* the call a thread is in
    got,                 \* what its last call has returned
    woken                \* threads taken from a queue that have not run yet

ring  == <<msgArray, firstIndex, usedCount>>
queues == <<threadQueueReceive, threadQueueSend, woken>>
vars == <<ring, queues, call, got>>

Slot == 0 .. msgCount - 1

\* The messages in the order in which they will be received.
Contents == [i \in 1 .. usedCount |-> msgArray[(firstIndex + i - 1) % msgCount]]

Channel == INSTANCE MessageChannel WITH Capacity <- msgCount, channel <- Contents
NoCall == Channel!NoCall

IsSend(t) == call[t].op \in {"send", "sendFront"}
IsReceive(t) == call[t].op = "receive"
Waiting == Threads(threadQueueReceive) \union Threads(threadQueueSend)
CanRun(t) == t \notin Waiting
-----------------------------------------------------------------------------
\* The guest calls the queue.
Call(t) ==
    /\ call[t] = NoCall
    /\ \E request \in Channel!Requests : call' = [call EXCEPT ![t] = request]
    /\ got' = [got EXCEPT ![t] = "no"]
    /\ UNCHANGED <<ring, queues>>

Returns(t, result) ==
    /\ call' = [call EXCEPT ![t] = NoCall]
    /\ got' = [got EXCEPT ![t] = result]

\* Mutant: one message too many.
IsFullLate == usedCount > msgCount
IsFull == usedCount >= msgCount

\* Mutant: only the first message wakes a receiver.
WakesReceiverWhenEmpty == usedCount = 0 /\ threadQueueReceive # <<>>
WakesReceiver == threadQueueReceive # <<>>

\* Mutant: only the first free slot wakes a sender.
WakesSenderWhenFull == usedCount = msgCount /\ threadQueueSend # <<>>
WakesSender == threadQueueSend # <<>>

\* Mutant: the index is not wrapped round.
FrontWithoutWrap == IF firstIndex = 0 THEN 0 ELSE firstIndex - 1
\* "decrease firstIndex"
newFirstIndex == (firstIndex + msgCount - 1) % msgCount

\* wakeupSingleThreadWaitQueue after t got on: the first of the queue is made
\* READY, and tries again when it runs.
WakeFirst(t, wakes, queue) ==
    woken' = (woken \ {t}) \union (IF wakes THEN {Head(queue)} ELSE {})

\* queueAndWait: t waits behind those that are as urgent as it is.
QueueAndWait(t, queue, queueAfter) ==
    /\ \E i \in 0 .. Len(queue) :
          IsInsertPoint(queue, t, priority, i) /\ queueAfter = insertBehind(queue, i, t)
    /\ woken' = woken \ {t}
-----------------------------------------------------------------------------
OSSendMessage(t) ==
    /\ IsSend(t) /\ CanRun(t) /\ ~IsFull
    /\ LET slot == IF call[t].op = "sendFront" THEN newFirstIndex
                   ELSE (firstIndex + usedCount) % msgCount
       IN  /\ msgArray' = [msgArray EXCEPT ![slot] = call[t].msg]
           /\ firstIndex' = IF call[t].op = "sendFront" THEN slot ELSE firstIndex
    /\ usedCount' = usedCount + 1
    /\ WakeFirst(t, WakesReceiver, threadQueueReceive)
    /\ threadQueueReceive' = IF WakesReceiver THEN Tail(threadQueueReceive) ELSE threadQueueReceive
    /\ Returns(t, "done")
    /\ UNCHANGED threadQueueSend

SendWaits(t) ==
    /\ IsSend(t) /\ CanRun(t) /\ IsFull /\ call[t].block
    /\ QueueAndWait(t, threadQueueSend, threadQueueSend')
    /\ UNCHANGED <<ring, threadQueueReceive, call, got>>

OSReceiveMessage(t) ==
    /\ IsReceive(t) /\ CanRun(t) /\ usedCount # 0
    /\ Returns(t, msgArray[firstIndex])
    /\ firstIndex' = (firstIndex + 1) % msgCount
    /\ usedCount' = usedCount - 1
    /\ WakeFirst(t, WakesSender, threadQueueSend)
    /\ threadQueueSend' = IF WakesSender THEN Tail(threadQueueSend) ELSE threadQueueSend
    /\ UNCHANGED <<msgArray, threadQueueReceive>>

ReceiveWaits(t) ==
    /\ IsReceive(t) /\ CanRun(t) /\ usedCount = 0 /\ call[t].block
    /\ QueueAndWait(t, threadQueueReceive, threadQueueReceive')
    /\ UNCHANGED <<ring, threadQueueSend, call, got>>

OSPeekMessage(t) ==
    /\ call[t].op = "peek" /\ usedCount # 0
    /\ Returns(t, msgArray[firstIndex])
    /\ UNCHANGED <<ring, queues>>

\* A call that must not wait gives up.
Fails(t) ==
    /\ CanRun(t) /\ ~call[t].block
    /\ \/ IsSend(t) /\ IsFull
       \/ (IsReceive(t) \/ call[t].op = "peek") /\ usedCount = 0
    /\ Returns(t, "no")
    /\ UNCHANGED <<ring, queues>>

\* OSInitMessageQueueEx; the ring is the caller's memory.
Init ==
    /\ msgArray = [i \in Slot |-> None]
    /\ firstIndex = 0 /\ usedCount = 0
    /\ threadQueueReceive = <<>> /\ threadQueueSend = <<>>
    /\ woken = {}
    /\ call = [t \in Thread |-> NoCall]
    /\ got = [t \in Thread |-> "no"]

Step(t) ==
    \/ OSSendMessage(t) \/ SendWaits(t) \/ OSReceiveMessage(t) \/ ReceiveWaits(t)
    \/ OSPeekMessage(t) \/ Fails(t)

Next == \E t \in Thread : Call(t) \/ Step(t)

Spec == Init /\ [][Next]_vars
-----------------------------------------------------------------------------
(* Properties.                                                              *)

\* Every variable has its type; a thread waits in one queue only, for what it
\* has called for, and only the waiting threads are not READY or running.
TypeOK ==
    /\ msgArray \in [Slot -> Message \union {None}]
    /\ firstIndex \in Slot /\ usedCount \in 0 .. msgCount
    /\ threadQueueReceive \in Seq(Thread) /\ threadQueueSend \in Seq(Thread)
    /\ call \in [Thread -> Channel!Requests \union {NoCall}]
    /\ got \in [Thread -> Channel!Results]
    /\ woken \subseteq Thread
    /\ NoDuplicates(threadQueueReceive) /\ NoDuplicates(threadQueueSend)
    /\ \A t \in Threads(threadQueueReceive) : IsReceive(t) /\ call[t].block
    /\ \A t \in Threads(threadQueueSend) : IsSend(t) /\ call[t].block
    /\ \A t \in woken : (IsReceive(t) \/ IsSend(t)) /\ call[t].block /\ CanRun(t)

WokenReceivers == {t \in woken : IsReceive(t)}
WokenSenders   == {t \in woken : IsSend(t)}

\* Nobody waits beside a message that no one is coming for: while receivers
\* wait, there is a woken receiver for every message.
NoMissedMessage == threadQueueReceive # <<>> => Cardinality(WokenReceivers) >= usedCount

\* While senders wait, there is a woken sender for every free slot.
NoMissedSlot == threadQueueSend # <<>> => Cardinality(WokenSenders) >= msgCount - usedCount

\* The calls together behave as a bounded channel: no message is lost, doubled
\* or overtaken except by a high-priority one, and no call fails needlessly.
ImplementsChannel == Channel!Spec
=============================================================================
