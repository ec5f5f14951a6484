------------------------- MODULE PriorityScheduler -------------------------
(***************************************************************************)
(* What the thread scheduler promises a title: strict priorities on every  *)
(* core.  A core without a thread takes one of the most urgent threads     *)
(* that may run there and that no other core has; a thread keeps its core  *)
(* until it stops by itself or its timeslice ends; one that waits, has     *)
(* exited or is suspended is not given a core.  How the scheduler finds    *)
(* the thread (run queues, counters, links, the lock, in which order it    *)
(* wakes and stores threads) is left open.                                 *)
(***************************************************************************)
EXTENDS Naturals

CONSTANTS
    Thread,          \* OSThread_t structures
    Core,            \* emulated cores
    MainCore, Boot,  \* the default thread and the core it starts on
    Priorities,      \* 0 is the most urgent
    None

VARIABLES
    state,           \* OSThread_t::state
    suspendCounter,  \* how often a thread is suspended
    affinity,        \* the cores where a thread may run
    priority,
    active,          \* the threads that exist
    running          \* the thread of each core, or None

vars == <<state, suspendCounter, affinity, priority, active, running>>

\* t may be given core c.
MayRun(t, c) ==
    state[t] = "READY" /\ suspendCounter[t] = 0 /\ c \in affinity[t]

Dispatch(c, t) ==
    /\ running[c] = None
    /\ MayRun(t, c)
    /\ \A u \in Thread : MayRun(u, c) => priority[t] <= priority[u]
    /\ state' = [state EXCEPT ![t] = "RUNNING"]
    /\ running' = [running EXCEPT ![c] = t]
    /\ UNCHANGED <<suspendCounter, affinity, priority, active>>

\* The thread of core c lets others run, waits, or exits: it is gone at once
\* or stays to be joined.
Stop(c, st) ==
    /\ running[c] # None
    /\ state' = [state EXCEPT ![running[c]] = st]
    /\ running' = [running EXCEPT ![c] = None]
    /\ active' = IF st = "NONE" THEN active \ {running[c]} ELSE active
    /\ UNCHANGED <<suspendCounter, affinity, priority>>

Wake(t) ==
    /\ state[t] = "WAITING"
    /\ state' = [state EXCEPT ![t] = "READY"]
    /\ UNCHANGED <<suspendCounter, affinity, priority, active, running>>

\* A thread that has exited is joined or detached.
Reap(t) ==
    /\ t \in active /\ state[t] = "MORIBUND"
    /\ state' = [state EXCEPT ![t] = "NONE"]
    /\ active' = active \ {t}
    /\ UNCHANGED <<suspendCounter, affinity, priority, running>>

\* A thread is created, suspended once and only when its structure is free, or
\* one that has ended runs again.
Create(t, mask, p) ==
    /\ t \notin active
    /\ state' = [state EXCEPT ![t] = "READY"]
    /\ suspendCounter' = [suspendCounter EXCEPT ![t] = 1]
    /\ affinity' = [affinity EXCEPT ![t] = mask]
    /\ priority' = [priority EXCEPT ![t] = p]
    /\ active' = active \union {t}
    /\ UNCHANGED running

Run(t) ==
    /\ t \in active => state[t] = "MORIBUND"
    /\ state' = [state EXCEPT ![t] = "READY"]
    /\ suspendCounter' = [suspendCounter EXCEPT ![t] = 0]
    /\ active' = active \union {t}
    /\ UNCHANGED <<affinity, priority, running>>

\* The count goes up by one, or down by any number.
SetSuspended(t, n) ==
    /\ suspendCounter' = [suspendCounter EXCEPT ![t] = n]
    /\ UNCHANGED <<state, affinity, priority, active, running>>

SetAffinity(t, mask) ==
    /\ affinity' = [affinity EXCEPT ![t] = mask]
    /\ UNCHANGED <<state, suspendCounter, priority, active, running>>

SetPriority(t, p) ==
    /\ priority' = [priority EXCEPT ![t] = p]
    /\ UNCHANGED <<state, suspendCounter, affinity, active, running>>

\* A title starts with its default thread ...
Starts(st, sus, aff, act, run) ==
    /\ st = [t \in Thread |-> IF t = Boot THEN "READY" ELSE "NONE"]
    /\ sus[Boot] = 0 /\ aff[Boot] = {MainCore}
    /\ act = {Boot}
    /\ run = [c \in Core |-> None]

\* ... after all threads of the one before have ended, when no core had one.
EndTitle ==
    /\ \A c \in Core : running[c] = None
    /\ state' = [t \in Thread |-> "NONE"]
    /\ active' = {}
    /\ UNCHANGED <<suspendCounter, affinity, priority, running>>

StartTitle ==
    /\ active = {}
    /\ Starts(state', suspendCounter', affinity', active', running')
-----------------------------------------------------------------------------
Init == Starts(state, suspendCounter, affinity, active, running)

CoreStep(c) ==
    \/ \E t \in Thread : Dispatch(c, t)
    \/ \E st \in {"READY", "WAITING", "MORIBUND", "NONE"} : Stop(c, st)

ThreadStep(t) ==
    \/ Wake(t) \/ Reap(t) \/ Run(t)
    \/ \E mask \in SUBSET Core, p \in Priorities : Create(t, mask, p)
    \/ \E n \in 0 .. suspendCounter[t] + 1 : SetSuspended(t, n)
    \/ \E mask \in SUBSET Core : SetAffinity(t, mask)
    \/ \E p \in Priorities : SetPriority(t, p)

Next ==
    \/ EndTitle \/ StartTitle
    \/ \E c \in Core : CoreStep(c)
    \/ \E t \in Thread : ThreadStep(t)

Spec == Init /\ [][Next]_vars
=============================================================================
