-------------------------- MODULE MCCoreScheduler --------------------------
(* Instances of CoreScheduler for TLC: two guest threads, the main core and *)
(* another one.                                                             *)
EXTENDS CoreScheduler, TLC

CONSTANTS t0, t1, c0, c1, q1
============================================================================
