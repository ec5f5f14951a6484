---------------------------- MODULE ThreadQueue ----------------------------
(***************************************************************************)
(* OSThreadQueueInternal (coreinit_ThreadQueue.cpp): the intrusive doubly  *)
(* linked lists of OSThread_t that the kernel uses for run queues (links   *)
(* linkRun[core]) and for wait queues (link waitQueueLink).  A list is the *)
(* sequence of its threads, from head to tail.                             *)
(***************************************************************************)
EXTENDS Integers, Sequences

\* Insert after tail: the order in which run queues grow.
addThread(q, t) == Append(q, t)

\* addThreadByPriority walks from the tail past the threads of a larger
\* effectivePriority (a less urgent one) and links t behind the first thread
\* that is not: behind position i, 0 being the front.
IsInsertPoint(q, t, prio, i) ==
    /\ i # 0 => prio[q[i]] <= prio[t]
    /\ \A j \in DOMAIN q : i < j => prio[q[j]] > prio[t]

insertBehind(q, i, t) ==
    [j \in 1 .. (Len(q) + 1) |-> IF j <= i THEN q[j] ELSE IF j = i + 1 THEN t ELSE q[j - 1]]

\* Unlink t, which the caller knows to be on the list.
removeThread(q, t) ==
    LET i == CHOOSE i \in DOMAIN q : q[i] = t
    IN  [j \in 1 .. (Len(q) - 1) |-> IF j < i THEN q[j] ELSE q[j + 1]]

\* A list never holds a thread twice: its single link field would be shared.
NoDuplicates(q) == \A i, j \in DOMAIN q : q[i] = q[j] => i = j

Threads(q) == {q[i] : i \in DOMAIN q}
============================================================================
