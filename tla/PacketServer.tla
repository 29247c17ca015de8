---------------------------- MODULE PacketServer ----------------------------
(***************************************************************************)
(* What the CMSIS-DAP pipeline promises a host: each request is answered   *)
(* once, in the order of the requests, with its own answer, and an abort   *)
(* ends only transfers requested before it.  A bus reset ends the promise: *)
(* what the device held may still be answered after it.                    *)
(***************************************************************************)
EXTENDS Naturals

CONSTANT Window    \* requests the host keeps unanswered

VARIABLES sent,    \* requests so far; their numbers are 1..sent
          got,     \* answers so far
          last,    \* the last answer: whose it is, and whether it was aborted
          aborted, \* the number of requests when the host last sent an abort
          resets   \* bus resets so far

vars == <<sent, got, last, aborted, resets>>

Init == /\ sent = 0 /\ got = 0 /\ aborted = 0 /\ resets = 0
        /\ last = [no |-> 0, aborted |-> FALSE]

Ask == /\ sent - got < Window
       /\ sent' = sent + 1
       /\ UNCHANGED <<got, last, aborted, resets>>

Abort == /\ aborted' = sent
         /\ UNCHANGED <<sent, got, last, resets>>

\* The oldest unanswered request is answered.
Reply == /\ resets = 0 /\ got < sent
         /\ \E ended \in BOOLEAN : /\ ended => got + 1 <= aborted
                                   /\ last' = [no |-> got + 1, aborted |-> ended]
         /\ got' = got + 1
         /\ UNCHANGED <<sent, aborted, resets>>

\* After a reset an answer may be that of any request.
ReplyLate == /\ resets > 0
             /\ last' \in [no : Nat, aborted : BOOLEAN]
             /\ got' = got + 1
             /\ UNCHANGED <<sent, aborted, resets>>

\* The host gives up what it waits for.
Reset == /\ resets' = resets + 1
         /\ got' = sent /\ last' = [no |-> sent, aborted |-> FALSE]
         /\ UNCHANGED <<sent, aborted>>

Next == Ask \/ Abort \/ Reply \/ ReplyLate \/ Reset

Spec == Init /\ [][Next]_vars
=============================================================================
