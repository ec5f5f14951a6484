--------------------------- MODULE MCMessageQueue ---------------------------
(* An instance of MessageQueue for TLC: three threads of two priorities.     *)
EXTENDS MessageQueue, TLC

CONSTANTS t1, t2, t3

MCThread == {t1, t2, t3}
MCPriority == (t1 :> 1) @@ (t2 :> 1) @@ (t3 :> 2)

\* Threads of one priority are interchangeable, and so are messages.
Symmetry == Permutations({t1, t2}) \union Permutations(Message)
=============================================================================
