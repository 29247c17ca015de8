--------------------------- MODULE MCDapTwoCores ---------------------------
(* DapPackets as shipped, one slot, with the task on the other core. *)
EXTENDS DapPackets
=============================================================================
