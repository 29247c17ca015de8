----------------------------- MODULE MCTransfer -----------------------------
(* Instances of DapTransfer for TLC: SWD commands of up to two requests.    *)
EXTENDS DapTransfer

MCCommands ==
  [type : {"transfer"}, port : {"swd"}, byte : {"dpRead"}, stamps : {FALSE},
   requests : UNION {[1 .. n -> Kinds] : n \in 1 .. 2}]

=============================================================================
