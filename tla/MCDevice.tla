------------------------------ MODULE MCDevice ------------------------------
(* An access point is given a password of fewer than eight characters.       *)
EXTENDS Device

ShortLimits ==
  {[requests |-> {[mode |-> "AP", ssid |-> "own", pass |-> "short", ports |-> "own"]},
    saves |-> 1, losses |-> 0, leaves |-> 0]}
=============================================================================
