------------------------------ MODULE MCUartWs ------------------------------
(* Instances of UartWs for TLC: two terminals and data, two terminals and a *)
(* log monitor, one terminal with both, messages to the UART.               *)
EXTENDS UartWs

MCLimits == {[sockets |-> 2, chunks |-> 2, messages |-> 0, logs |-> FALSE],
             [sockets |-> 2, chunks |-> 0, messages |-> 0, logs |-> TRUE],
             [sockets |-> 1, chunks |-> 1, messages |-> 0, logs |-> TRUE],
             [sockets |-> 1, chunks |-> 0, messages |-> 4, logs |-> FALSE]}
=============================================================================
