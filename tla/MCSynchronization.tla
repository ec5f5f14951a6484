------------------------- MODULE MCSynchronization -------------------------
(* Instances of Synchronization for TLC: three threads on three cores.      *)
EXTENDS Synchronization, TLC

CONSTANTS t1, t2, t3, auto, manual, c1, c2, c3, rdvEvent

MCThread == {t1, t2, t3}
MCPriority == (t1 :> 1) @@ (t2 :> 1) @@ (t3 :> 2)
MCCoreOf == (t1 :> c1) @@ (t2 :> c2) @@ (t3 :> c3)
\* One signal only pays a debt.
MCInitialCount == -1
MCMode == (auto :> "AUTO") @@ (manual :> "MANUAL") @@ (rdvEvent :> "AUTO")

EventCalls == {"waitEvent", "waitEventWithTimeout", "signalEvent", "signalEventAll", "resetEvent"}
MutexCalls == {"lockMutex", "tryLockMutex", "unlockMutex"}

\* One kind of object at a time, and waits for an event or a unit with a mutex held.
MCPrograms == {
    EventCalls,
    {"initRendezvous", "waitRendezvous"},
    MutexCalls \union {"waitCond", "signalCond"},
    MutexCalls \union {"cancelThread", "exitThread"},
    {"lockMutex", "unlockMutex", "waitEventWithTimeout", "signalEvent"},
    {"lockMutex", "unlockMutex", "waitSemaphore", "tryWaitSemaphore", "signalSemaphore"}}
=============================================================================
