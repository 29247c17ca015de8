--------------------------- MODULE MCDapPackets ---------------------------
(* Two instances of DapPackets in one run: the task on another core than   *)
(* the interrupt, with aborts and long sequences of packets; and the task  *)
(* on the interrupt's core, with a host that may reset the bus, where what *)
(* must eventually happen is checked too.                                  *)
EXTENDS DapPackets

VARIABLE oneCore

Live == INSTANCE DapPackets WITH
  OneCore <- TRUE, MaxPackets <- 3, MaxAborts <- 1, MaxResets <- 1

MCInit == Init /\ oneCore \in BOOLEAN

TwoCores == ~oneCore /\ Next /\ UNCHANGED oneCore
OnOneCore == oneCore /\ Live!Next /\ UNCHANGED oneCore
MCNext == TwoCores \/ OnOneCore

MCSpec == /\ MCInit /\ [][MCNext]_<<vars, oneCore>>
          /\ oneCore => Live!Fairness

\* On one core the endpoint is armed again after every packet, whatever the
\* order in which the callbacks and the task test and set USB_RequestIdle.
ReceptionResumesOnOneCore == oneCore => Live!ReceptionResumes

\* On one core every request is answered, unless the bus has been reset. On two, a
\* response may be left behind (dap_main.c, lines 286 and 417), but only until the
\* next one is published: the hand-over itself is never lost.
RequestsAnswered ==
  /\ oneCore => Live!EveryRequestAnswered
  /\ []HandOverKept
=============================================================================
