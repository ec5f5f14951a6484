----------------------------- MODULE MCFastMutex -----------------------------
(* Instances of FastMutex for TLC: three threads of two priorities on two    *)
(* cores.                                                                    *)
EXTENDS FastMutex, TLC

CONSTANTS t1, t2, t3

MCThread == {t1, t2, t3}
MCPriority == (t1 :> 1) @@ (t2 :> 1) @@ (t3 :> 2)

\* Threads of one priority are interchangeable.
Symmetry == Permutations({t1, t2})
=============================================================================
