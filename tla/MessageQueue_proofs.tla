------------------------ MODULE MessageQueue_proofs ------------------------
(***************************************************************************)
(* The inductive invariant of MessageQueue, for any number of threads,     *)
(* messages and slots; no wake-up is missed; and the ring buffer with its  *)
(* wait queues implements the bounded channel of MessageChannel.           *)
(***************************************************************************)
EXTENDS MessageQueue, ThreadQueue_proofs, FiniteSetTheorems, SequenceTheorems

\* What lies between firstIndex and the next free slot has been sent.
SlotsFilled == \A i \in 1 .. usedCount : Contents[i] \in Message

IInv == TypeOK /\ NoMissedMessage /\ NoMissedSlot /\ SlotsFilled
-----------------------------------------------------------------------------
(* The ring.                                                                *)

\* The slot that lies k places behind slot f.
At(f, k) == (f + k) % msgCount

\* Counting on from a slot goes at most once round the ring.
LEMMA SlotBehind ==
    ASSUME NEW f \in Slot, NEW k \in 0 .. msgCount
    PROVE  /\ At(f, k) \in Slot
           /\ At(f, k) = IF f + k < msgCount THEN f + k ELSE f + k - msgCount
<1> DEFINE x == f + k
           n == msgCount
<1>1. n \in Nat \ {0} /\ x \in 0 .. (2 * n - 1)
  BY QueueAssumption DEF Slot
<1> HIDE DEF x, n
<1>2. x % n = IF x < n THEN x ELSE x - n
  BY <1>1
<1>3. x % n \in 0 .. n - 1
  BY <1>1, <1>2
<1>4. At(f, k) = x % n
  BY DEF At, x, n
<1>5. x = f + k /\ n = msgCount /\ Slot = 0 .. n - 1
  BY DEF x, n, Slot
<1>6. f \in Int /\ k \in Int /\ n \in Int
  BY QueueAssumption DEF Slot, n
<1> QED BY <1>2, <1>3, <1>4, <1>5, <1>6

\* The slot in front of the first one.
LEMMA SlotInFront ==
    ASSUME firstIndex \in Slot
    PROVE  /\ newFirstIndex \in Slot
           /\ newFirstIndex = IF firstIndex = 0 THEN msgCount - 1 ELSE firstIndex - 1
<1> DEFINE x == firstIndex + msgCount - 1
           n == msgCount
<1>1. n \in Nat \ {0} /\ x \in 0 .. (2 * n - 1)
  BY QueueAssumption DEF Slot
<1> HIDE DEF x, n
<1>2. x % n = IF x < n THEN x ELSE x - n
  BY <1>1
<1>3. x % n \in 0 .. n - 1
  BY <1>1, <1>2
<1>4. newFirstIndex = x % n
  BY DEF newFirstIndex, x, n
<1> HIDE DEF newFirstIndex
<1> QED BY <1>1, <1>2, <1>3, <1>4, QueueAssumption DEF x, n, Slot

\* The type of the ring, as the lemmas below use it.
LEMMA RingType ==
    ASSUME IInv
    PROVE  /\ usedCount \in 0 .. msgCount /\ firstIndex \in Slot /\ msgCount \in Nat \ {0}
           /\ Slot = 0 .. msgCount - 1 /\ msgArray \in [Slot -> Message \union {None}]
           /\ \A k \in 0 .. msgCount :
                 /\ At(firstIndex, k) \in Slot
                 /\ At(firstIndex, k) = IF firstIndex + k < msgCount THEN firstIndex + k
                                        ELSE firstIndex + k - msgCount
<1>1. /\ usedCount \in 0 .. msgCount /\ firstIndex \in Slot /\ msgCount \in Nat \ {0}
      /\ Slot = 0 .. msgCount - 1 /\ msgArray \in [Slot -> Message \union {None}]
  BY QueueAssumption DEF IInv, TypeOK, Slot
<1> QED BY <1>1, SlotBehind

\* The contents of the ring are a sequence of usedCount messages.
LEMMA ContentsType ==
    ASSUME IInv
    PROVE  /\ Contents \in Seq(Message) /\ Len(Contents) = usedCount
           /\ \A i \in 1 .. usedCount : /\ Contents[i] = msgArray[At(firstIndex, i - 1)]
                                        /\ Contents[i] \in Message
<1>1. \A i \in 1 .. usedCount : firstIndex + i - 1 = firstIndex + (i - 1)
  BY RingType DEF Slot
<1>2. Contents = [i \in 1 .. usedCount |-> msgArray[At(firstIndex, i - 1)]]
  BY <1>1 DEF Contents, At
<1>3. \A i \in 1 .. usedCount : Contents[i] \in Message
  BY DEF IInv, SlotsFilled
<1>4. usedCount \in Nat /\ Contents \in [1 .. usedCount -> Message]
  BY <1>2, <1>3, RingType
<1> QED BY <1>2, <1>3, <1>4

\* A message is put behind the others.
LEMMA SendBehind ==
    ASSUME IInv, NEW m \in Message, ~IsFull,
           msgArray' = [msgArray EXCEPT ![(firstIndex + usedCount) % msgCount] = m],
           firstIndex' = firstIndex, usedCount' = usedCount + 1
    PROVE  /\ Contents' = Append(Contents, m) /\ SlotsFilled'
           /\ msgArray' \in [Slot -> Message \union {None}]
<1>1. usedCount \in Nat /\ usedCount < msgCount
  BY RingType DEF IsFull
<1>2. \A k \in 0 .. usedCount : At(firstIndex, k) \in Slot
  BY <1>1, RingType
<1>3. ASSUME NEW k \in 0 .. usedCount - 1 PROVE At(firstIndex, k) # At(firstIndex, usedCount)
  <2>1. k \in 0 .. msgCount /\ usedCount \in 0 .. msgCount /\ firstIndex \in 0 .. msgCount - 1
    BY <1>1, RingType
  <2>2. /\ At(firstIndex, k) = IF firstIndex + k < msgCount THEN firstIndex + k
                               ELSE firstIndex + k - msgCount
        /\ At(firstIndex, usedCount) = IF firstIndex + usedCount < msgCount THEN firstIndex + usedCount
                                       ELSE firstIndex + usedCount - msgCount
    BY <2>1, RingType
  <2> QED BY <1>1, <2>1, <2>2, QueueAssumption
<1>4. msgArray' = [msgArray EXCEPT ![At(firstIndex, usedCount)] = m]
  BY DEF At
<1>5. /\ msgArray'[At(firstIndex, usedCount)] = m
      /\ \A k \in 0 .. usedCount - 1 : msgArray'[At(firstIndex, k)] = msgArray[At(firstIndex, k)]
  BY <1>1, <1>2, <1>3, <1>4, RingType
<1>6. Contents' = [i \in 1 .. usedCount + 1 |-> msgArray'[At(firstIndex, i - 1)]]
  <2>1. \A i \in 1 .. usedCount + 1 : firstIndex + i - 1 = firstIndex + (i - 1)
    BY <1>1, RingType DEF Slot
  <2> QED BY <2>1 DEF Contents, At
<1>7. Contents'[usedCount + 1] = m /\ \A i \in 1 .. usedCount : Contents'[i] = Contents[i]
  BY <1>1, <1>5, <1>6, ContentsType
<1>8. \A i \in 1 .. usedCount + 1 : Contents'[i] \in Message
  BY <1>1, <1>7, ContentsType
<1>9. Contents' \in Seq(Message) /\ Len(Contents') = usedCount + 1
  <2>1. Contents' \in [1 .. usedCount + 1 -> Message]
    BY <1>6, <1>8
  <2> QED BY <1>1, <2>1, <1>6
<1>10. Contents' = Append(Contents, m)
  <2> DEFINE s == Append(Contents, m)
             c == Contents'
  <2>1. s \in Seq(Message) /\ Len(s) = usedCount + 1
    BY ContentsType, <1>1
  <2>2. \A i \in 1 .. usedCount + 1 : c[i] = s[i]
    BY ContentsType, AppendProperties, <1>1, <1>7
  <2>3. c \in Seq(Message) /\ Len(c) = usedCount + 1
    BY <1>9
  <2> HIDE DEF s, c
  <2>4. c = s
    BY <2>1, <2>2, <2>3, SeqEqual
  <2> QED BY <2>4 DEF s, c
<1>11. SlotsFilled'
  BY <1>8 DEF SlotsFilled
<1> QED BY <1>2, <1>4, <1>10, <1>11, <1>1, RingType

\* A high-priority message is put in front of the others.
LEMMA SendInFront ==
    ASSUME IInv, NEW m \in Message, ~IsFull,
           msgArray' = [msgArray EXCEPT ![newFirstIndex] = m],
           firstIndex' = newFirstIndex, usedCount' = usedCount + 1
    PROVE  /\ Contents' = <<m>> \o Contents /\ SlotsFilled'
           /\ msgArray' \in [Slot -> Message \union {None}] /\ firstIndex' \in Slot
<1>1. usedCount \in Nat /\ usedCount < msgCount
  BY RingType DEF IsFull
<1>2. /\ newFirstIndex \in Slot
      /\ newFirstIndex = IF firstIndex = 0 THEN msgCount - 1 ELSE firstIndex - 1
  BY RingType, SlotInFront
<1> HIDE DEF newFirstIndex
<1>3. \A k \in 0 .. msgCount :
         At(newFirstIndex, k) = IF newFirstIndex + k < msgCount THEN newFirstIndex + k
                                ELSE newFirstIndex + k - msgCount
  BY <1>2, SlotBehind
<1>4. At(newFirstIndex, 0) = newFirstIndex
  BY <1>1, <1>2, <1>3, RingType
<1>5. ASSUME NEW k \in 1 .. usedCount
      PROVE  /\ At(newFirstIndex, k) = At(firstIndex, k - 1)
             /\ At(newFirstIndex, k) # newFirstIndex
             /\ At(newFirstIndex, k) \in Slot
  <2>1. k \in 0 .. msgCount /\ k - 1 \in 0 .. msgCount /\ firstIndex \in 0 .. msgCount - 1
    BY <1>1, RingType
  <2>2. /\ At(newFirstIndex, k) = IF newFirstIndex + k < msgCount THEN newFirstIndex + k
                                  ELSE newFirstIndex + k - msgCount
        /\ At(firstIndex, k - 1) = IF firstIndex + (k - 1) < msgCount THEN firstIndex + (k - 1)
                                   ELSE firstIndex + (k - 1) - msgCount
        /\ At(firstIndex, k - 1) \in Slot
    BY <2>1, <1>3, RingType
  <2> QED BY <1>1, <1>2, <2>1, <2>2, QueueAssumption
<1>6. /\ At(newFirstIndex, 0) = newFirstIndex
      /\ \A k \in 1 .. usedCount : /\ At(newFirstIndex, k) = At(firstIndex, k - 1)
                                   /\ At(newFirstIndex, k) # newFirstIndex
                                   /\ At(newFirstIndex, k) \in Slot
  BY <1>4, <1>5
<1>7. /\ msgArray'[At(newFirstIndex, 0)] = m
      /\ \A k \in 1 .. usedCount : msgArray'[At(newFirstIndex, k)] = msgArray[At(firstIndex, k - 1)]
  BY <1>2, <1>6, RingType
<1>8. Contents' = [i \in 1 .. usedCount + 1 |-> msgArray'[At(newFirstIndex, i - 1)]]
  <2>1. \A i \in 1 .. usedCount + 1 : newFirstIndex + i - 1 = newFirstIndex + (i - 1)
    BY <1>1, <1>2 DEF Slot
  <2> QED BY <2>1 DEF Contents, At
<1>9. Contents'[1] = m /\ \A i \in 1 .. usedCount : Contents'[i + 1] = Contents[i]
  <2>1. Contents'[1] = m
    <3>1. 1 \in 1 .. usedCount + 1 /\ 1 - 1 = 0
      BY <1>1
    <3> QED BY <3>1, <1>7, <1>8
  <2>2. ASSUME NEW i \in 1 .. usedCount PROVE Contents'[i + 1] = Contents[i]
    <3>1. i + 1 \in 1 .. usedCount + 1 /\ (i + 1) - 1 = i
      BY <1>1
    <3>2. Contents'[i + 1] = msgArray'[At(newFirstIndex, i)]
      BY <3>1, <1>8
    <3> QED BY <3>2, <1>7, ContentsType
  <2> QED BY <2>1, <2>2
<1>10. \A i \in 1 .. usedCount + 1 : i = 1 \/ (i - 1 \in 1 .. usedCount /\ i = (i - 1) + 1)
  BY <1>1
<1>11. \A i \in 1 .. usedCount + 1 : Contents'[i] \in Message
  BY <1>9, <1>10, ContentsType
<1>12. Contents' \in Seq(Message) /\ Len(Contents') = usedCount + 1
  <2>1. Contents' \in [1 .. usedCount + 1 -> Message]
    BY <1>8, <1>11
  <2> QED BY <1>1, <2>1, <1>8
<1>13. Contents' = <<m>> \o Contents
  <2> DEFINE s == <<m>> \o Contents
             c == Contents'
  <2>1. /\ s \in Seq(Message) /\ Len(s) = usedCount + 1
        /\ \A i \in 1 .. usedCount + 1 : s[i] = IF i <= 1 THEN m ELSE Contents[i - 1]
    BY ContentsType, <1>1
  <2>2. \A i \in 1 .. usedCount + 1 : c[i] = s[i]
    BY <2>1, <1>1, <1>9, <1>10
  <2>3. c \in Seq(Message) /\ Len(c) = usedCount + 1
    BY <1>12
  <2> HIDE DEF s, c
  <2>4. c = s
    BY <2>1, <2>2, <2>3, SeqEqual
  <2> QED BY <2>4 DEF s, c
<1>14. SlotsFilled'
  BY <1>11 DEF SlotsFilled
<1> QED BY <1>2, <1>13, <1>14, RingType

\* The first message is taken.
LEMMA ReceiveFirst ==
    ASSUME IInv, usedCount # 0, UNCHANGED msgArray,
           firstIndex' = (firstIndex + 1) % msgCount, usedCount' = usedCount - 1
    PROVE  /\ Contents # <<>> /\ Head(Contents) = msgArray[firstIndex]
           /\ msgArray[firstIndex] \in Message
           /\ Contents' = Tail(Contents) /\ SlotsFilled' /\ firstIndex' \in Slot
<1> DEFINE f == At(firstIndex, 1)
<1>1. usedCount \in 1 .. msgCount /\ msgCount \in Nat \ {0} /\ firstIndex \in Slot
  BY RingType
<1>2. firstIndex' = f
  BY DEF At
<1>3. /\ f \in Slot /\ f = IF firstIndex + 1 < msgCount THEN firstIndex + 1 ELSE 0
      /\ At(firstIndex, 0) = firstIndex
  <2>1. 0 \in 0 .. msgCount /\ 1 \in 0 .. msgCount /\ firstIndex \in 0 .. msgCount - 1
    BY <1>1, RingType
  <2>2. /\ At(firstIndex, 0) = IF firstIndex + 0 < msgCount THEN firstIndex + 0
                               ELSE firstIndex + 0 - msgCount
        /\ f = IF firstIndex + 1 < msgCount THEN firstIndex + 1 ELSE firstIndex + 1 - msgCount
        /\ f \in Slot
    BY <2>1, RingType
  <2> HIDE DEF f
  <2> QED BY <1>1, <2>1, <2>2
<1> HIDE DEF f
<1>4. \A k \in 0 .. msgCount : At(f, k) = IF f + k < msgCount THEN f + k ELSE f + k - msgCount
  BY <1>3, SlotBehind
<1>5. ASSUME NEW k \in 0 .. usedCount - 2 PROVE At(f, k) = At(firstIndex, k + 1)
  <2>1. k \in 0 .. msgCount /\ k + 1 \in 0 .. msgCount /\ firstIndex \in 0 .. msgCount - 1
    BY <1>1, RingType
  <2>2. /\ At(f, k) = IF f + k < msgCount THEN f + k ELSE f + k - msgCount
        /\ At(firstIndex, k + 1) = IF firstIndex + (k + 1) < msgCount THEN firstIndex + (k + 1)
                                   ELSE firstIndex + (k + 1) - msgCount
    BY <2>1, <1>4, RingType
  <2> QED BY <1>1, <1>3, <2>1, <2>2
<1>6. Contents' = [i \in 1 .. usedCount - 1 |-> msgArray[At(f, i - 1)]]
  <2>1. \A i \in 1 .. usedCount - 1 : f + i - 1 = f + (i - 1)
    BY <1>1, <1>3 DEF Slot
  <2> QED BY <2>1, <1>2 DEF Contents, At
<1>7. \A i \in 1 .. usedCount - 1 : Contents'[i] = Contents[i + 1] /\ Contents[i + 1] \in Message
  BY <1>1, <1>5, <1>6, ContentsType
<1>8. Contents[1] = msgArray[firstIndex] /\ Contents[1] \in Message
  BY <1>1, <1>3, ContentsType
<1>9. Contents # <<>> /\ Head(Contents) = Contents[1]
  BY <1>1, ContentsType
<1>10. Contents' \in Seq(Message) /\ Len(Contents') = usedCount - 1
  <2>1. Contents' \in [1 .. usedCount - 1 -> Message]
    BY <1>6, <1>7
  <2> DEFINE n == usedCount - 1
  <2>2. n \in Nat
    BY <1>1
  <2>3. Contents' \in [1 .. n -> Message]
    BY <2>1
  <2> HIDE DEF n
  <2>4. Contents' \in Seq(Message) /\ Len(Contents') = n
    BY <2>2, <2>3
  <2> QED BY <2>4 DEF n
<1>11. Contents' = Tail(Contents)
  <2> DEFINE s == Tail(Contents)
             c == Contents'
  <2>1. s \in Seq(Message) /\ Len(s) = usedCount - 1
    BY ContentsType, <1>1, <1>9
  <2>2. \A i \in 1 .. usedCount - 1 : c[i] = s[i]
    BY <2>1, ContentsType, HeadTailProperties, <1>7, <1>9
  <2>3. c \in Seq(Message) /\ Len(c) = usedCount - 1
    BY <1>10
  <2> HIDE DEF s, c
  <2>4. c = s
    BY <2>1, <2>2, <2>3, SeqEqual
  <2> QED BY <2>4 DEF s, c
<1>12. SlotsFilled'
  BY <1>7 DEF SlotsFilled
<1> QED BY <1>2, <1>3, <1>8, <1>9, <1>11, <1>12
-----------------------------------------------------------------------------
(* The calls and the wait queues.                                           *)

\* What the types say of the calls, for the provers.
LEMMA CallTypes ==
    ASSUME IInv
    PROVE  /\ \A t \in Thread : call[t] = NoCall \/ call[t] \in Channel!Requests
           /\ \A t \in Thread : IsSend(t) => call[t].msg \in Message
           /\ \A t \in Thread : ~(IsSend(t) /\ IsReceive(t))
           /\ \A t \in Thread : call[t].op = "peek" => ~call[t].block /\ ~IsSend(t) /\ ~IsReceive(t)
           /\ \A t \in Thread : call[t] = NoCall => ~IsSend(t) /\ ~IsReceive(t)
<1>1. \A t \in Thread : call[t] = NoCall \/ call[t] \in Channel!Requests
  BY DEF IInv, TypeOK
<1>2. NoCall.op = "none"
  BY DEF NoCall, Channel!NoCall
<1>3. \A r \in Channel!Requests : /\ r.op \in {"send", "sendFront", "receive", "peek"}
                                  /\ r.op \in {"send", "sendFront"} => r.msg \in Message
                                  /\ r.op = "peek" => r.block = FALSE
  BY DEF Channel!Requests, Channel!Sends, Channel!Receives, Channel!Peeks
<1> QED BY <1>1, <1>2, <1>3 DEF IsSend, IsReceive

\* The woken threads are finitely many.
LEMMA WokenFinite ==
    ASSUME IInv
    PROVE  /\ IsFiniteSet(WokenReceivers) /\ Cardinality(WokenReceivers) \in Nat
           /\ IsFiniteSet(WokenSenders) /\ Cardinality(WokenSenders) \in Nat
<1>1. WokenReceivers \in SUBSET Thread /\ WokenSenders \in SUBSET Thread
  BY DEF IInv, TypeOK, WokenReceivers, WokenSenders
<1> QED BY <1>1, FS_Subset, FS_CardinalityType, QueueAssumption

\* The threads that are in a queue, or were woken, are those that TypeOK says.
WaitersOK ==
    /\ threadQueueReceive \in Seq(Thread) /\ threadQueueSend \in Seq(Thread)
    /\ NoDuplicates(threadQueueReceive) /\ NoDuplicates(threadQueueSend)
    /\ woken \subseteq Thread
    /\ \A t \in Threads(threadQueueReceive) : IsReceive(t) /\ call[t].block
    /\ \A t \in Threads(threadQueueSend) : IsSend(t) /\ call[t].block
    /\ \A t \in woken : (IsReceive(t) \/ IsSend(t)) /\ call[t].block /\ CanRun(t)

\* A thread that has got on with its call leaves the woken ones, and the first
\* thread of a queue may join them; the call of nobody else changes.
LEMMA WakeFirstWaiters ==
    ASSUME IInv, NEW t \in Thread, CanRun(t), NEW q, NEW wakes \in BOOLEAN,
           NEW result, Returns(t, result), WakeFirst(t, wakes, q),
           wakes => q # <<>>,
           \/ /\ q = threadQueueReceive /\ UNCHANGED threadQueueSend
              /\ threadQueueReceive' = IF wakes THEN Tail(q) ELSE q
           \/ /\ q = threadQueueSend /\ UNCHANGED threadQueueReceive
              /\ threadQueueSend' = IF wakes THEN Tail(q) ELSE q
    PROVE  WaitersOK'
<1>1. /\ WaitersOK /\ t \notin Threads(threadQueueReceive) /\ t \notin Threads(threadQueueSend)
      /\ call \in [Thread -> Channel!Requests \union {NoCall}]
  BY DEF IInv, TypeOK, WaitersOK, CanRun, Waiting
<1>2. \A u \in Thread \ {t} : call'[u] = call[u]
  BY <1>1 DEF Returns
<1>3. q \in Seq(Thread) /\ NoDuplicates(q) /\ Threads(q) \subseteq Waiting
  BY <1>1 DEF WaitersOK, Waiting
<1>4. wakes => /\ Head(q) \in Threads(q) /\ Tail(q) \in Seq(Thread) /\ NoDuplicates(Tail(q))
               /\ Threads(Tail(q)) = Threads(q) \ {Head(q)}
  BY <1>3, TakeFirstProperties
<1>5. Threads(q) \subseteq Thread /\ Waiting \subseteq Thread
  BY <1>1, <1>3 DEF Threads, Waiting, WaitersOK
<1>6. woken' = (woken \ {t}) \union (IF wakes THEN {Head(q)} ELSE {})
  BY DEF WakeFirst
<1>7. /\ threadQueueReceive' \in Seq(Thread) /\ threadQueueSend' \in Seq(Thread)
      /\ NoDuplicates(threadQueueReceive') /\ NoDuplicates(threadQueueSend')
      /\ Threads(threadQueueReceive') \subseteq Threads(threadQueueReceive)
      /\ Threads(threadQueueSend') \subseteq Threads(threadQueueSend)
  BY <1>1, <1>3, <1>4 DEF WaitersOK
<1>8. woken' \subseteq Thread
  BY <1>1, <1>4, <1>5, <1>6 DEF WaitersOK
<1>9. \A u \in Threads(threadQueueReceive') : IsReceive(u)' /\ call'[u].block
  BY <1>1, <1>2, <1>5, <1>7 DEF WaitersOK, IsReceive, Waiting
<1>10. \A u \in Threads(threadQueueSend') : IsSend(u)' /\ call'[u].block
  BY <1>1, <1>2, <1>5, <1>7 DEF WaitersOK, IsSend, Waiting
<1>11. Threads(threadQueueReceive) \intersect Threads(threadQueueSend) = {}
  BY <1>1, <1>5, CallTypes DEF WaitersOK, Waiting
<1>12. ASSUME NEW u \in woken' PROVE (IsReceive(u)' \/ IsSend(u)') /\ call'[u].block /\ CanRun(u)'
  <2>1. CASE u \in woken /\ u # t
    BY <2>1, <1>1, <1>2, <1>7, <1>8 DEF WaitersOK, IsReceive, IsSend, CanRun, Waiting
  <2>2. CASE wakes /\ u = Head(q)
    <3>1. u \in Waiting /\ u \in Thread /\ u # t
      BY <2>2, <1>1, <1>3, <1>4, <1>5 DEF Waiting
    <3>2. (IsReceive(u) \/ IsSend(u)) /\ call[u].block
      BY <3>1, <1>1 DEF WaitersOK, Waiting
    <3>3. u \notin Threads(threadQueueReceive') /\ u \notin Threads(threadQueueSend')
      BY <2>2, <1>4, <1>7, <1>11
    <3> QED BY <3>1, <3>2, <3>3, <1>2 DEF IsReceive, IsSend, CanRun, Waiting
  <2> QED BY <2>1, <2>2, <1>6
<1> QED BY <1>7, <1>8, <1>9, <1>10, <1>12 DEF WaitersOK

\* A thread that starts to wait joins the queue of its kind of call.
LEMMA QueueAndWaitWaiters ==
    ASSUME IInv, NEW t \in Thread, CanRun(t), call[t].block, UNCHANGED call,
           \/ /\ IsReceive(t) /\ QueueAndWait(t, threadQueueReceive, threadQueueReceive')
              /\ UNCHANGED threadQueueSend
           \/ /\ IsSend(t) /\ QueueAndWait(t, threadQueueSend, threadQueueSend')
              /\ UNCHANGED threadQueueReceive
    PROVE  WaitersOK' /\ woken' = woken \ {t}
<1>1. /\ WaitersOK /\ t \notin Threads(threadQueueReceive) /\ t \notin Threads(threadQueueSend)
  BY DEF IInv, TypeOK, WaitersOK, CanRun, Waiting
<1>2. woken' = woken \ {t}
  BY DEF QueueAndWait
<1>3. \A u : IsReceive(u)' = IsReceive(u) /\ IsSend(u)' = IsSend(u)
  BY DEF IsReceive, IsSend
<1>4. CASE IsReceive(t) /\ QueueAndWait(t, threadQueueReceive, threadQueueReceive')
           /\ UNCHANGED threadQueueSend
  <2>1. PICK i \in 0 .. Len(threadQueueReceive) :
           threadQueueReceive' = insertBehind(threadQueueReceive, i, t)
    BY <1>4 DEF QueueAndWait
  <2>2. /\ threadQueueReceive' \in Seq(Thread) /\ NoDuplicates(threadQueueReceive')
        /\ Threads(threadQueueReceive') = Threads(threadQueueReceive) \union {t}
    BY <2>1, <1>1, InsertBehindProperties DEF WaitersOK
  <2> QED BY <1>1, <1>2, <1>3, <1>4, <2>2 DEF WaitersOK, CanRun, Waiting
<1>5. CASE IsSend(t) /\ QueueAndWait(t, threadQueueSend, threadQueueSend')
           /\ UNCHANGED threadQueueReceive
  <2>1. PICK i \in 0 .. Len(threadQueueSend) :
           threadQueueSend' = insertBehind(threadQueueSend, i, t)
    BY <1>5 DEF QueueAndWait
  <2>2. /\ threadQueueSend' \in Seq(Thread) /\ NoDuplicates(threadQueueSend')
        /\ Threads(threadQueueSend') = Threads(threadQueueSend) \union {t}
    BY <2>1, <1>1, InsertBehindProperties DEF WaitersOK
  <2> QED BY <1>1, <1>2, <1>3, <1>5, <2>2 DEF WaitersOK, CanRun, Waiting
<1> QED BY <1>2, <1>4, <1>5

\* The first thread of a queue waits and has not been woken.
LEMMA HeadWaits ==
    ASSUME IInv
    PROVE  /\ WakesReceiver => /\ Head(threadQueueReceive) \in Thread
                               /\ IsReceive(Head(threadQueueReceive))
                               /\ ~CanRun(Head(threadQueueReceive))
           /\ WakesSender => /\ Head(threadQueueSend) \in Thread
                             /\ IsSend(Head(threadQueueSend))
                             /\ ~CanRun(Head(threadQueueSend))
<1>1. WaitersOK
  BY DEF IInv, TypeOK, WaitersOK
<1>2. WakesReceiver => Head(threadQueueReceive) \in Threads(threadQueueReceive)
  BY <1>1, TakeFirstProperties DEF WaitersOK, WakesReceiver
<1>3. WakesSender => Head(threadQueueSend) \in Threads(threadQueueSend)
  BY <1>1, TakeFirstProperties DEF WaitersOK, WakesSender
<1>4. Threads(threadQueueReceive) \subseteq Thread /\ Threads(threadQueueSend) \subseteq Thread
  BY <1>1 DEF WaitersOK, Threads
<1> QED BY <1>1, <1>2, <1>3, <1>4 DEF WaitersOK, CanRun, Waiting

\* A thread that stops calling changes nothing for the others that were woken.
LEMMA WokenWithout ==
    ASSUME IInv, NEW t \in Thread, woken' = woken \ {t},
           \A u \in Thread \ {t} : call'[u] = call[u]
    PROVE  WokenReceivers' = WokenReceivers \ {t} /\ WokenSenders' = WokenSenders \ {t}
<1>1. woken \subseteq Thread
  BY DEF IInv, TypeOK
<1>2. \A u \in woken \ {t} : IsReceive(u)' = IsReceive(u) /\ IsSend(u)' = IsSend(u)
  BY <1>1 DEF IsReceive, IsSend
<1> QED BY <1>2 DEF WokenReceivers, WokenSenders

\* A message that is sent wakes one more receiver, if one waits.
LEMMA SendCounts ==
    ASSUME IInv, NEW t \in Thread, OSSendMessage(t)
    PROVE  NoMissedMessage' /\ NoMissedSlot'
<1>1. /\ call \in [Thread -> Channel!Requests \union {NoCall}] /\ woken \subseteq Thread
      /\ usedCount \in 0 .. msgCount /\ msgCount \in Nat
  BY QueueAssumption DEF IInv, TypeOK
<1>2. \A u \in Thread \ {t} : call'[u] = call[u]
  BY <1>1 DEF OSSendMessage, Returns
<1>3. woken' = (woken \ {t}) \union (IF WakesReceiver THEN {Head(threadQueueReceive)} ELSE {})
  BY DEF OSSendMessage, WakeFirst
<1>4. IsSend(t) /\ ~IsReceive(t) /\ CanRun(t)
  BY CallTypes DEF OSSendMessage
<1>5. WakesReceiver => Head(threadQueueReceive) # t
  BY HeadWaits, <1>4
<1>6. \A u \in woken' \ {t} : IsReceive(u)' = IsReceive(u) /\ IsSend(u)' = IsSend(u)
  BY <1>1, <1>2, <1>3, HeadWaits DEF IsReceive, IsSend
<1>7. t \notin woken'
  BY <1>3, <1>5
<1>8. WokenReceivers' = WokenReceivers \union
                        (IF WakesReceiver THEN {Head(threadQueueReceive)} ELSE {})
  BY <1>3, <1>4, <1>6, <1>7, HeadWaits DEF WokenReceivers
<1>9. WokenSenders' = WokenSenders \ {t}
  BY <1>3, <1>6, <1>7, HeadWaits, CallTypes DEF WokenSenders
<1>10. NoMissedMessage'
  <2>1. CASE WakesReceiver
    <3>1. Head(threadQueueReceive) \notin WokenReceivers
      BY <2>1, HeadWaits DEF WokenReceivers, IInv, TypeOK
    <3>2. Cardinality(WokenReceivers') = Cardinality(WokenReceivers) + 1
      BY <2>1, <3>1, <1>8, WokenFinite, FS_AddElement
    <3>3. Cardinality(WokenReceivers) >= usedCount
      BY <2>1 DEF IInv, NoMissedMessage, WakesReceiver
    <3>4. usedCount' = usedCount + 1
      BY DEF OSSendMessage
    <3> HIDE DEF WokenReceivers
    <3> QED BY <1>1, <3>2, <3>3, <3>4, WokenFinite DEF NoMissedMessage
  <2>2. CASE ~WakesReceiver
    <3>1. threadQueueReceive' = <<>>
      BY <2>2 DEF OSSendMessage, WakesReceiver
    <3> QED BY <3>1 DEF NoMissedMessage
  <2> QED BY <2>1, <2>2
<1>11. NoMissedSlot'
  <2>1. threadQueueSend' = threadQueueSend /\ usedCount' = usedCount + 1
    BY DEF OSSendMessage
  <2>2. Cardinality(WokenSenders') >= Cardinality(WokenSenders) - 1
        /\ Cardinality(WokenSenders') \in Int
    BY <1>9, WokenFinite, FS_RemoveElement
  <2>3. threadQueueSend # <<>> => Cardinality(WokenSenders) >= msgCount - usedCount
    BY DEF IInv, NoMissedSlot
  <2> QED BY <1>1, <2>1, <2>2, <2>3, WokenFinite DEF NoMissedSlot
<1> QED BY <1>10, <1>11

\* A message that is received wakes one more sender, if one waits.
LEMMA ReceiveCounts ==
    ASSUME IInv, NEW t \in Thread, OSReceiveMessage(t)
    PROVE  NoMissedMessage' /\ NoMissedSlot'
<1>1. /\ call \in [Thread -> Channel!Requests \union {NoCall}] /\ woken \subseteq Thread
      /\ usedCount \in 0 .. msgCount /\ msgCount \in Nat
  BY QueueAssumption DEF IInv, TypeOK
<1>2. \A u \in Thread \ {t} : call'[u] = call[u]
  BY <1>1 DEF OSReceiveMessage, Returns
<1>3. woken' = (woken \ {t}) \union (IF WakesSender THEN {Head(threadQueueSend)} ELSE {})
  BY DEF OSReceiveMessage, WakeFirst
<1>4. IsReceive(t) /\ ~IsSend(t) /\ CanRun(t)
  BY CallTypes DEF OSReceiveMessage
<1>5. WakesSender => Head(threadQueueSend) # t
  BY HeadWaits, <1>4
<1>6. \A u \in woken' \ {t} : IsReceive(u)' = IsReceive(u) /\ IsSend(u)' = IsSend(u)
  BY <1>1, <1>2, <1>3, HeadWaits DEF IsReceive, IsSend
<1>7. t \notin woken'
  BY <1>3, <1>5
<1>8. WokenSenders' = WokenSenders \union (IF WakesSender THEN {Head(threadQueueSend)} ELSE {})
  BY <1>3, <1>4, <1>6, <1>7, HeadWaits DEF WokenSenders
<1>9. WokenReceivers' = WokenReceivers \ {t}
  BY <1>3, <1>6, <1>7, HeadWaits, CallTypes DEF WokenReceivers
<1>10. NoMissedSlot'
  <2>1. CASE WakesSender
    <3>1. Head(threadQueueSend) \notin WokenSenders
      BY <2>1, HeadWaits DEF WokenSenders, IInv, TypeOK
    <3>2. Cardinality(WokenSenders') = Cardinality(WokenSenders) + 1
      BY <2>1, <3>1, <1>8, WokenFinite, FS_AddElement
    <3>3. Cardinality(WokenSenders) >= msgCount - usedCount
      BY <2>1 DEF IInv, NoMissedSlot, WakesSender
    <3>4. usedCount' = usedCount - 1
      BY DEF OSReceiveMessage
    <3> QED BY <1>1, <3>2, <3>3, <3>4, WokenFinite DEF NoMissedSlot
  <2>2. CASE ~WakesSender
    <3>1. threadQueueSend' = <<>>
      BY <2>2 DEF OSReceiveMessage, WakesSender
    <3> QED BY <3>1 DEF NoMissedSlot
  <2> QED BY <2>1, <2>2
<1>11. NoMissedMessage'
  <2>1. threadQueueReceive' = threadQueueReceive /\ usedCount' = usedCount - 1
    BY DEF OSReceiveMessage
  <2>2. Cardinality(WokenReceivers') >= Cardinality(WokenReceivers) - 1
        /\ Cardinality(WokenReceivers') \in Int
    BY <1>9, WokenFinite, FS_RemoveElement
  <2>3. threadQueueReceive # <<>> => Cardinality(WokenReceivers) >= usedCount
    BY DEF IInv, NoMissedMessage
  <2> QED BY <1>1, <2>1, <2>2, <2>3, WokenFinite DEF NoMissedMessage
<1> QED BY <1>10, <1>11
-----------------------------------------------------------------------------
(* Each step keeps the invariant, and is a step of the channel or none.     *)

\* What is left of the invariant once the waiting threads are accounted for.
LEMMA InvariantParts ==
    ASSUME WaitersOK', SlotsFilled', NoMissedMessage', NoMissedSlot',
           msgArray' \in [Slot -> Message \union {None}],
           firstIndex' \in Slot, usedCount' \in 0 .. msgCount,
           call' \in [Thread -> Channel!Requests \union {NoCall}],
           got' \in [Thread -> Channel!Results]
    PROVE  IInv'
BY DEF IInv, TypeOK, WaitersOK

\* What a call that returns leaves of the types.
LEMMA ReturnsTypes ==
    ASSUME IInv, NEW t \in Thread, NEW result \in Channel!Results, Returns(t, result)
    PROVE  /\ call' \in [Thread -> Channel!Requests \union {NoCall}]
           /\ got' \in [Thread -> Channel!Results]
           /\ Channel!Returns(t, result)
<1>1. /\ call \in [Thread -> Channel!Requests \union {NoCall}]
      /\ got \in [Thread -> Channel!Results]
  BY DEF IInv, TypeOK
<1> QED BY <1>1 DEF Returns, Channel!Returns, NoCall

\* OSSendMessage sends at once what the channel lets it send.
LEMMA SendStep ==
    ASSUME IInv, NEW t \in Thread, OSSendMessage(t) PROVE IInv' /\ Channel!Send(t)
<1>1. /\ IsSend(t) /\ CanRun(t) /\ ~IsFull /\ call[t].msg \in Message
      /\ usedCount' = usedCount + 1
  BY CallTypes DEF OSSendMessage
<1>2. "done" \in Channel!Results /\ Returns(t, "done")
  BY DEF OSSendMessage, Channel!Results
<1>3. WaitersOK'
  <2>1. /\ WakeFirst(t, WakesReceiver, threadQueueReceive) /\ UNCHANGED threadQueueSend
        /\ threadQueueReceive' = IF WakesReceiver THEN Tail(threadQueueReceive) ELSE threadQueueReceive
        /\ WakesReceiver \in BOOLEAN /\ (WakesReceiver => threadQueueReceive # <<>>)
    BY DEF OSSendMessage, WakesReceiver
  <2> QED BY <1>1, <1>2, <2>1, WakeFirstWaiters
<1>4. /\ msgArray' \in [Slot -> Message \union {None}] /\ firstIndex' \in Slot /\ SlotsFilled'
      /\ \/ call[t].op = "send" /\ Contents' = Append(Contents, call[t].msg)
         \/ call[t].op = "sendFront" /\ Contents' = <<call[t].msg>> \o Contents
  <2>1. CASE call[t].op = "send"
    <3>1. /\ msgArray' = [msgArray EXCEPT ![(firstIndex + usedCount) % msgCount] = call[t].msg]
          /\ firstIndex' = firstIndex
      BY <2>1 DEF OSSendMessage
    <3> QED BY <2>1, <3>1, <1>1, SendBehind, RingType
  <2>2. CASE call[t].op = "sendFront"
    <3>1. /\ msgArray' = [msgArray EXCEPT ![newFirstIndex] = call[t].msg]
          /\ firstIndex' = newFirstIndex
      BY <2>2 DEF OSSendMessage
    <3> QED BY <2>2, <3>1, <1>1, SendInFront
  <2> QED BY <1>1, <2>1, <2>2 DEF IsSend
<1>5. usedCount' \in 0 .. msgCount
  BY <1>1, RingType DEF IsFull
<1>6. IInv'
  BY <1>2, <1>3, <1>4, <1>5, SendCounts, ReturnsTypes, InvariantParts
<1>7. Len(Contents) < msgCount
  BY <1>1, ContentsType, RingType DEF IsFull
<1> QED BY <1>2, <1>4, <1>6, <1>7, ReturnsTypes DEF Channel!Send

\* OSReceiveMessage takes the first message.
LEMMA ReceiveStep ==
    ASSUME IInv, NEW t \in Thread, OSReceiveMessage(t) PROVE IInv' /\ Channel!Receive(t)
<1>1. /\ IsReceive(t) /\ CanRun(t) /\ usedCount # 0 /\ UNCHANGED msgArray
      /\ firstIndex' = (firstIndex + 1) % msgCount /\ usedCount' = usedCount - 1
      /\ Returns(t, msgArray[firstIndex])
  BY DEF OSReceiveMessage
<1>2. /\ Contents # <<>> /\ Head(Contents) = msgArray[firstIndex]
      /\ msgArray[firstIndex] \in Message
      /\ Contents' = Tail(Contents) /\ SlotsFilled' /\ firstIndex' \in Slot
  BY <1>1, ReceiveFirst
<1>3. msgArray[firstIndex] \in Channel!Results
  BY <1>2 DEF Channel!Results
<1>4. WaitersOK'
  <2>1. /\ WakeFirst(t, WakesSender, threadQueueSend) /\ UNCHANGED threadQueueReceive
        /\ threadQueueSend' = IF WakesSender THEN Tail(threadQueueSend) ELSE threadQueueSend
        /\ WakesSender \in BOOLEAN /\ (WakesSender => threadQueueSend # <<>>)
    BY DEF OSReceiveMessage, WakesSender
  <2> QED BY <1>1, <2>1, WakeFirstWaiters
<1>5. usedCount' \in 0 .. msgCount /\ msgArray' \in [Slot -> Message \union {None}]
  BY <1>1, RingType
<1>6. IInv'
  BY <1>1, <1>2, <1>3, <1>4, <1>5, ReceiveCounts, ReturnsTypes, InvariantParts
<1> QED BY <1>1, <1>2, <1>3, <1>6, ReturnsTypes DEF Channel!Receive, IsReceive

\* A call that has to wait changes nothing that the channel shows.
LEMMA WaitStep ==
    ASSUME IInv, NEW t \in Thread, SendWaits(t) \/ ReceiveWaits(t)
    PROVE  IInv' /\ UNCHANGED <<Contents, call, got>>
<1>1. UNCHANGED <<ring, call, got>> /\ CanRun(t) /\ call[t].block
  BY DEF SendWaits, ReceiveWaits
<1>2. WaitersOK' /\ woken' = woken \ {t}
  BY <1>1, QueueAndWaitWaiters DEF SendWaits, ReceiveWaits
<1>3. WokenReceivers' = WokenReceivers \ {t} /\ WokenSenders' = WokenSenders \ {t}
  BY <1>1, <1>2, WokenWithout
<1>4. /\ Contents' = Contents /\ usedCount' = usedCount
  BY <1>1 DEF ring, Contents
<1>5. SlotsFilled'
  BY <1>4 DEF IInv, SlotsFilled
<1>6. /\ Cardinality(WokenReceivers') \in Nat /\ Cardinality(WokenSenders') \in Nat
  BY <1>3, WokenFinite, FS_RemoveElement, FS_CardinalityType
<1>7. NoMissedMessage' /\ NoMissedSlot'
  <2>1. CASE SendWaits(t)
    <3>1. IsFull /\ IsSend(t) /\ ~IsReceive(t) /\ UNCHANGED threadQueueReceive
      BY <2>1, CallTypes DEF SendWaits
    <3>2. WokenReceivers' = WokenReceivers
      BY <1>3, <3>1 DEF WokenReceivers
    <3>3. NoMissedMessage'
      BY <1>4, <3>1, <3>2 DEF IInv, NoMissedMessage
    <3>4. NoMissedSlot'
      BY <1>4, <1>6, <3>1, RingType DEF NoMissedSlot, IsFull
    <3> QED BY <3>3, <3>4
  <2>2. CASE ReceiveWaits(t)
    <3>1. usedCount = 0 /\ ~IsSend(t) /\ UNCHANGED threadQueueSend
      BY <2>2, CallTypes DEF ReceiveWaits
    <3>2. WokenSenders' = WokenSenders
      BY <1>3, <3>1 DEF WokenSenders
    <3>3. NoMissedSlot'
      BY <1>4, <3>1, <3>2 DEF IInv, NoMissedSlot
    <3>4. NoMissedMessage'
      BY <1>4, <1>6, <3>1 DEF NoMissedMessage
    <3> QED BY <3>3, <3>4
  <2> QED BY <2>1, <2>2
<1>8. /\ call' \in [Thread -> Channel!Requests \union {NoCall}]
      /\ got' \in [Thread -> Channel!Results]
      /\ msgArray' \in [Slot -> Message \union {None}]
      /\ firstIndex' \in Slot /\ usedCount' \in 0 .. msgCount
  BY <1>1 DEF IInv, TypeOK, ring
<1> QED BY <1>1, <1>2, <1>4, <1>5, <1>7, <1>8, InvariantParts

\* Calls that are made, that only look, or that give up leave the ring, the
\* queues and the woken threads alone.
LEMMA RingAlone ==
    ASSUME IInv, NEW t \in Thread, UNCHANGED <<ring, queues>>, t \notin woken, CanRun(t),
           call' \in [Thread -> Channel!Requests \union {NoCall}],
           got' \in [Thread -> Channel!Results],
           \A u \in Thread \ {t} : call'[u] = call[u]
    PROVE  IInv' /\ Contents' = Contents
<1>1. /\ UNCHANGED <<msgArray, firstIndex, usedCount>>
      /\ UNCHANGED <<threadQueueReceive, threadQueueSend, woken>>
  BY DEF ring, queues
<1>2. Contents' = Contents
  BY <1>1 DEF Contents
<1>3. WokenReceivers' = WokenReceivers /\ WokenSenders' = WokenSenders
  <2>1. woken' = woken \ {t}
    BY <1>1
  <2>2. WokenReceivers' = WokenReceivers \ {t} /\ WokenSenders' = WokenSenders \ {t}
    BY <2>1, WokenWithout
  <2> QED BY <2>2 DEF WokenReceivers, WokenSenders
<1>4. WaitersOK
  BY DEF IInv, TypeOK, WaitersOK
<1>5. Waiting' = Waiting /\ Waiting \subseteq Thread \ {t}
  BY <1>1, <1>4 DEF WaitersOK, Waiting, Threads, CanRun
<1>6. WaitersOK'
  <2>1. /\ \A u \in Threads(threadQueueReceive) : IsReceive(u)' /\ call'[u].block
        /\ \A u \in Threads(threadQueueSend) : IsSend(u)' /\ call'[u].block
    BY <1>4, <1>5 DEF WaitersOK, IsReceive, IsSend, Waiting
  <2>2. \A u \in woken : (IsReceive(u)' \/ IsSend(u)') /\ call'[u].block /\ CanRun(u)'
    BY <1>4, <1>5 DEF WaitersOK, IsReceive, IsSend, CanRun
  <2> QED BY <1>1, <1>4, <2>1, <2>2 DEF WaitersOK
<1>7. NoMissedMessage' /\ NoMissedSlot' /\ SlotsFilled'
  BY <1>1, <1>2, <1>3 DEF IInv, NoMissedMessage, NoMissedSlot, SlotsFilled
<1>8. /\ msgArray' \in [Slot -> Message \union {None}]
      /\ firstIndex' \in Slot /\ usedCount' \in 0 .. msgCount
  BY <1>1 DEF IInv, TypeOK
<1> QED BY <1>2, <1>6, <1>7, <1>8, InvariantParts

\* The guest makes a call.
LEMMA CallStep ==
    ASSUME IInv, NEW t \in Thread, Call(t) PROVE IInv' /\ Channel!Call(t)
<1>1. PICK request \in Channel!Requests : call' = [call EXCEPT ![t] = request]
  BY DEF Call
<1>2. /\ call[t] = NoCall /\ got' = [got EXCEPT ![t] = "no"] /\ UNCHANGED <<ring, queues>>
  BY DEF Call
<1>3. t \notin woken /\ CanRun(t)
  <2>1. WaitersOK /\ ~IsSend(t) /\ ~IsReceive(t)
    BY <1>2, CallTypes DEF IInv, TypeOK, WaitersOK
  <2> QED BY <2>1 DEF WaitersOK, CanRun, Waiting
<1>4. /\ call' \in [Thread -> Channel!Requests \union {NoCall}]
      /\ got' \in [Thread -> Channel!Results]
      /\ \A u \in Thread \ {t} : call'[u] = call[u]
  BY <1>1, <1>2 DEF IInv, TypeOK, Channel!Results
<1>5. IInv' /\ Contents' = Contents
  BY <1>2, <1>3, <1>4, RingAlone
<1> QED BY <1>1, <1>2, <1>5 DEF Channel!Call, NoCall

\* OSPeekMessage looks at the first message; a call that must not wait fails
\* only when the channel is full or empty.
LEMMA PeekOrFailStep ==
    ASSUME IInv, NEW t \in Thread, OSPeekMessage(t) \/ Fails(t)
    PROVE  IInv' /\ (Channel!Peek(t) \/ Channel!Fail(t))
<1>1. UNCHANGED <<ring, queues>> /\ ~call[t].block
  BY CallTypes DEF OSPeekMessage, Fails
<1>2. t \notin woken /\ CanRun(t)
  BY <1>1 DEF IInv, TypeOK, CanRun, Waiting
<1>3. PICK result \in Channel!Results :
         /\ Returns(t, result)
         /\ \/ OSPeekMessage(t) /\ result = msgArray[firstIndex]
            \/ Fails(t) /\ result = "no"
  <2>1. usedCount # 0 => msgArray[firstIndex] \in Message
    <3>1. usedCount # 0 => 1 \in 1 .. usedCount /\ At(firstIndex, 0) = firstIndex
      BY RingType
    <3> QED BY <3>1, ContentsType
  <2>2. "no" \in Channel!Results /\ Message \subseteq Channel!Results
    BY DEF Channel!Results
  <2> QED BY <2>1, <2>2 DEF OSPeekMessage, Fails
<1>4. \A u \in Thread \ {t} : call'[u] = call[u]
  BY <1>3 DEF IInv, TypeOK, Returns
<1>5. /\ call' \in [Thread -> Channel!Requests \union {NoCall}]
      /\ got' \in [Thread -> Channel!Results] /\ Channel!Returns(t, result)
  BY <1>3, ReturnsTypes
<1>6. IInv' /\ Contents' = Contents
  BY <1>1, <1>2, <1>4, <1>5, RingAlone
<1>7. CASE OSPeekMessage(t) /\ result = msgArray[firstIndex]
  <2>1. usedCount # 0 /\ call[t].op = "peek"
    BY <1>7 DEF OSPeekMessage
  <2>2. Contents # <<>> /\ Head(Contents) = msgArray[firstIndex]
    <3>1. 1 \in 1 .. usedCount /\ At(firstIndex, 0) = firstIndex
      BY <2>1, RingType
    <3> QED BY <3>1, ContentsType
  <2> QED BY <1>5, <1>6, <1>7, <2>1, <2>2 DEF Channel!Peek
<1>8. CASE Fails(t) /\ result = "no"
  <2>1. \/ IsSend(t) /\ usedCount = msgCount
        \/ (IsReceive(t) \/ call[t].op = "peek") /\ usedCount = 0
    BY <1>8, RingType DEF Fails, IsFull
  <2>2. Len(Contents) = usedCount /\ (usedCount = 0 => Contents = <<>>)
    BY ContentsType
  <2> QED BY <1>1, <1>5, <1>6, <1>8, <2>1, <2>2 DEF Channel!Fail, IsSend, IsReceive
<1> QED BY <1>3, <1>7, <1>8
-----------------------------------------------------------------------------
\* The empty queue satisfies the invariant and is the empty channel.
LEMMA InitStep == Init => IInv /\ Channel!Init
<1> SUFFICES ASSUME Init PROVE IInv /\ Channel!Init
  OBVIOUS
<1>1. /\ usedCount = 0 /\ firstIndex = 0 /\ threadQueueReceive = <<>> /\ threadQueueSend = <<>>
      /\ woken = {} /\ msgCount \in Nat \ {0}
  BY QueueAssumption DEF Init
<1>2. Contents = <<>>
  BY <1>1 DEF Contents
<1>3. WaitersOK
  BY <1>1 DEF WaitersOK, NoDuplicates, Threads
<1>4. SlotsFilled /\ NoMissedMessage /\ NoMissedSlot
  BY <1>1 DEF SlotsFilled, NoMissedMessage, NoMissedSlot
<1>5. /\ msgArray \in [Slot -> Message \union {None}] /\ firstIndex \in Slot
      /\ usedCount \in 0 .. msgCount
      /\ call \in [Thread -> Channel!Requests \union {NoCall}]
      /\ got \in [Thread -> Channel!Results]
  BY <1>1 DEF Init, Slot, Channel!Results
<1> QED BY <1>2, <1>3, <1>4, <1>5 DEF IInv, TypeOK, WaitersOK, Init, Channel!Init, NoCall

\* Every step keeps the invariant and is a step of the channel or none.
LEMMA NextStep ==
    ASSUME IInv, [Next]_vars PROVE IInv' /\ [Channel!Next]_(Channel!vars)
<1>1. CASE UNCHANGED vars
  <2>1. UNCHANGED <<Contents, call, got>>
    BY <1>1 DEF vars, ring, Contents
  <2>2. IInv'
    BY <1>1 DEF vars, ring, queues, IInv, TypeOK, NoMissedMessage, NoMissedSlot, SlotsFilled,
                WokenReceivers, WokenSenders, Contents, IsReceive, IsSend, CanRun, Waiting
  <2> QED BY <2>1, <2>2 DEF Channel!vars
<1>2. ASSUME NEW t \in Thread, Call(t) \/ Step(t) PROVE IInv' /\ [Channel!Next]_(Channel!vars)
  <2>1. CASE Call(t) BY <2>1, CallStep DEF Channel!Next
  <2>2. CASE OSSendMessage(t) BY <2>2, SendStep DEF Channel!Next
  <2>3. CASE OSReceiveMessage(t) BY <2>3, ReceiveStep DEF Channel!Next
  <2>4. CASE SendWaits(t) \/ ReceiveWaits(t) BY <2>4, WaitStep DEF Channel!vars
  <2>5. CASE OSPeekMessage(t) \/ Fails(t) BY <2>5, PeekOrFailStep DEF Channel!Next
  <2> QED BY <1>2, <2>1, <2>2, <2>3, <2>4, <2>5 DEF Step
<1> QED BY <1>1, <1>2 DEF Next

\* The invariant holds for every number of threads, messages and slots.
THEOREM QueueInvariant == Spec => []IInv
<1>1. Init => IInv
  BY InitStep
<1>2. IInv /\ [Next]_vars => IInv'
  BY NextStep
<1> QED BY <1>1, <1>2, PTL DEF Spec

\* Every variable keeps its type, and every waiting thread waits in the queue
\* of its kind of call.
THEOREM TypeCorrect == Spec => []TypeOK
<1>1. IInv => TypeOK
  BY DEF IInv
<1> QED BY <1>1, QueueInvariant, PTL

\* While receivers wait, a woken receiver is on its way to every message.
THEOREM NoMessageMissed == Spec => []NoMissedMessage
<1>1. IInv => NoMissedMessage
  BY DEF IInv
<1> QED BY <1>1, QueueInvariant, PTL

\* While senders wait, a woken sender is on its way to every free slot.
THEOREM NoSlotMissed == Spec => []NoMissedSlot
<1>1. IInv => NoMissedSlot
  BY DEF IInv
<1> QED BY <1>1, QueueInvariant, PTL

\* The ring buffer and its wait queues implement the bounded channel.
THEOREM QueueImplementsChannel == Spec => ImplementsChannel
<1>1. Init => Channel!Init
  BY InitStep
<1>2. IInv /\ [Next]_vars => [Channel!Next]_(Channel!vars)
  BY NextStep
<1> QED BY <1>1, <1>2, QueueInvariant, PTL DEF Spec, ImplementsChannel, Channel!Spec
-----------------------------------------------------------------------------
(* Whom a message or a slot wakes.                                          *)

QueuesSorted == Sorted(threadQueueReceive, priority) /\ Sorted(threadQueueSend, priority)

LEMMA WaitKeepsSorted ==
    ASSUME NEW q \in Seq(Thread), NEW t \in Thread, NEW after, Sorted(q, priority),
           QueueAndWait(t, q, after)
    PROVE  Sorted(after, priority)
<1>1. PICK i \in 0 .. Len(q) : IsInsertPoint(q, t, priority, i) /\ after = insertBehind(q, i, t)
  BY DEF QueueAndWait
<1>2. priority \in [Thread -> Nat] BY QueueAssumption
<1> QED BY <1>1, <1>2, InsertKeepsSorted

LEMMA StepSorted ==
    ASSUME IInv, QueuesSorted, NEW t \in Thread, Call(t) \/ Step(t) PROVE QueuesSorted'
<1>1. /\ threadQueueReceive \in Seq(Thread) /\ threadQueueSend \in Seq(Thread)
      /\ priority \in [Thread -> Nat]
  BY QueueAssumption DEF IInv, TypeOK
<1>2. Sorted(threadQueueReceive, priority) /\ Sorted(threadQueueSend, priority)
  BY DEF QueuesSorted
<1>3. Sorted(threadQueueReceive', priority)
  <2>1. \/ UNCHANGED threadQueueReceive
        \/ threadQueueReceive # <<>> /\ threadQueueReceive' = Tail(threadQueueReceive)
        \/ QueueAndWait(t, threadQueueReceive, threadQueueReceive')
    BY DEF Call, Step, OSSendMessage, SendWaits, OSReceiveMessage, ReceiveWaits, OSPeekMessage, Fails,
       queues, WakesReceiver
  <2> QED BY <1>1, <1>2, <2>1, TakeFirstKeepsSorted, WaitKeepsSorted
<1>4. Sorted(threadQueueSend', priority)
  <2>1. \/ UNCHANGED threadQueueSend
        \/ threadQueueSend # <<>> /\ threadQueueSend' = Tail(threadQueueSend)
        \/ QueueAndWait(t, threadQueueSend, threadQueueSend')
    BY DEF Call, Step, OSSendMessage, SendWaits, OSReceiveMessage, ReceiveWaits, OSPeekMessage, Fails,
       queues, WakesSender
  <2> QED BY <1>1, <1>2, <2>1, TakeFirstKeepsSorted, WaitKeepsSorted
<1> QED BY <1>3, <1>4 DEF QueuesSorted

\* The threads that WakeFirst takes are most urgent ones of those that wait.
UrgentWaiterFirst ==
    /\ \A u \in Threads(threadQueueReceive) : priority[Head(threadQueueReceive)] <= priority[u]
    /\ \A u \in Threads(threadQueueSend) : priority[Head(threadQueueSend)] <= priority[u]

\* A message wakes a most urgent receiver and a free slot a most urgent sender,
\* also when woken threads found nothing and came back to the queue.
THEOREM MessagesWakeTheMostUrgent == Spec => []UrgentWaiterFirst
<1>1. Init => QueuesSorted BY DEF Init, QueuesSorted, Sorted
<1>2. IInv /\ QueuesSorted /\ [Next]_vars => QueuesSorted'
  <2> SUFFICES ASSUME IInv, QueuesSorted, [Next]_vars PROVE QueuesSorted'
    OBVIOUS
  <2>1. CASE UNCHANGED vars BY <2>1 DEF vars, queues, QueuesSorted
  <2> QED BY <2>1, StepSorted DEF Next
<1>3. ASSUME NEW q \in Seq(Thread), NEW u \in Threads(q), Sorted(q, priority)
      PROVE  priority[Head(q)] <= priority[u]
  <2>1. q # <<>> /\ priority \in [Thread -> Nat] BY QueueAssumption DEF Threads
  <2> QED BY <1>3, <2>1, TakeFirstKeepsSorted
<1>4. IInv /\ QueuesSorted => UrgentWaiterFirst
  BY <1>3 DEF IInv, TypeOK, QueuesSorted, UrgentWaiterFirst
<1> QED BY <1>1, <1>2, <1>4, QueueInvariant, PTL DEF Spec
-----------------------------------------------------------------------------
(* Senders and receivers.                                                   *)

\* Senders and receivers do not all sleep beside each other.
NeverBothAsleep == threadQueueReceive # <<>> /\ threadQueueSend # <<>> => woken # {}

\* While both queues hold threads one of them is on its way, although every
\* call wakes one thread at most and that one may find nothing.
THEOREM SomeoneIsAwake == Spec => []NeverBothAsleep
<1>1. IInv => NeverBothAsleep
  <2> SUFFICES ASSUME IInv, threadQueueReceive # <<>>, threadQueueSend # <<>>, woken = {}
               PROVE  FALSE
    BY DEF NeverBothAsleep
  <2>1. WokenReceivers = {} /\ WokenSenders = {} BY DEF WokenReceivers, WokenSenders
  <2>2. usedCount \in Nat /\ msgCount \in Nat /\ msgCount > 0
    BY QueueAssumption DEF IInv, TypeOK
  <2>3. 0 >= usedCount /\ 0 >= msgCount - usedCount
    BY <2>1, FS_EmptySet DEF IInv, NoMissedMessage, NoMissedSlot
  <2> QED BY <2>2, <2>3
<1> QED BY <1>1, QueueInvariant, PTL
=============================================================================
