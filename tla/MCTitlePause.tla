---------------------------- MODULE MCTitlePause ----------------------------
(* Instances of TitlePause for TLC.  The threads other than the boot thread *)
(* are interchangeable.                                                      *)
EXTENDS TitlePause, TLC

Symmetry == Permutations(Thread \ {Boot})
============================================================================
