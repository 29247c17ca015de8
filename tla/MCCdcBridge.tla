---------------------------- MODULE MCCdcBridge ----------------------------
(* Instances of CdcBridge for TLC: long streams in either direction, with   *)
(* little in the other, which only shares the task and the interrupt.       *)
EXTENDS CdcBridge

MCLimits == {[host |-> 5, uart |-> 0, resets |-> 1],
             [host |-> 3, uart |-> 1, resets |-> 0],
             [host |-> 0, uart |-> 5, resets |-> 1],
             [host |-> 1, uart |-> 4, resets |-> 0]}
=============================================================================
