------------------------- MODULE CountingSemaphore -------------------------
(***************************************************************************)
(* What OSSemaphore promises: units are neither lost nor made up, and      *)
(* while there are units somebody who asked for one gets it.               *)
(***************************************************************************)
EXTENDS Integers

CONSTANTS
    Thread,        \* who asks for units
    initialCount   \* units at the start; a negative number is a debt

VARIABLES
    count,         \* units that nobody has taken
    waiting        \* threads that have asked for one and wait

vars == <<count, waiting>>

Init == count = initialCount /\ waiting = {}

Give == count' = count + 1 /\ UNCHANGED waiting

Ask(t) ==
    /\ t \notin waiting /\ count <= 0
    /\ waiting' = waiting \union {t}
    /\ UNCHANGED count

\* A unit goes to a thread that waits, or to one that finds it at once.
Take(t) ==
    /\ count > 0
    /\ count' = count - 1
    /\ waiting' = waiting \ {t}

Next == Give \/ \E t \in Thread : Ask(t) \/ Take(t)

UnitsAreTaken == WF_vars(\E t \in waiting : Take(t))

Spec == Init /\ [][Next]_vars /\ UnitsAreTaken
=============================================================================
