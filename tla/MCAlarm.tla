------------------------------ MODULE MCAlarm ------------------------------
(* An instance of Alarm for TLC: one alarm of the title beside one ticker,  *)
(* one thread that waits, ticks of three bits.                              *)
EXTENDS Alarm, TLC

CONSTANTS t, ticker, alarm1

MCWord == 8
MCDelays == {1, MCWord - 1}
MCMemory == (ticker :> {1}) @@ (alarm1 :> {2, 3}) @@ (t :> {4, 5})
MCStarts == {0, 6}
=============================================================================
