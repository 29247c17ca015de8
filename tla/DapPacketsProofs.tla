-------------------------- MODULE DapPacketsProofs --------------------------
(***************************************************************************)
(* The CMSIS-DAP pipeline for any number of slots, any width of the        *)
(* counters, and whether or not the interrupt and the task share a core:   *)
(* as long as the bus is not reset no pending request is overwritten,      *)
(* every request is answered in order with its own answer, queue packets   *)
(* are converted and an abort ends no later transfer.                      *)
(***************************************************************************)
EXTENDS DapPackets, TLAPS

\* Facts about the constants, in the form the provers like.
LEMMA Constants ==
  /\ Count \in Nat /\ Count >= 1 /\ Wrap \in Nat /\ Wrap > Count
  /\ 0 \in Slots /\ 0 \in 0..Wrap-1
  BY CountAssumption, WrapAssumption DEF Slots

\* Slots and counters stay in range.
LEMMA Ranges ==
  /\ \A s \in Slots : NextSlot(s) \in Slots
  /\ \A c \in 0..Wrap-1 : NextCount(c) \in 0..Wrap-1
  BY Constants DEF Slots, NextSlot, NextCount

LEMMA RecordTypes ==
  /\ NoPacket \in Packet /\ NoAnswer \in Answer
  /\ \A k \in {"command", "queue", "execute", "abort"}, n \in Nat :
        [kind |-> k, no |-> n] \in Packet
  /\ \A n \in Nat, b \in BOOLEAN : [no |-> n, aborted |-> b] \in Answer
  BY DEF NoPacket, NoAnswer, Packet, Answer

LEMMA TypeInit == Init => TypeOK
<1> SUFFICES ASSUME Init PROVE TypeOK
  OBVIOUS
<1>1. request \in [Slots -> Packet] /\ response \in [Slots -> Answer]
  BY RecordTypes DEF Init
<1>2. inData \in Answer /\ last \in Answer
  BY RecordTypes DEF Init
<1>3. QED BY <1>1, <1>2, Constants DEF Init, TypeOK

\* An endpoint that is started gets a slot.
LEMMA StartTypes ==
  ASSUME TypeOK, NEW s \in Slots
  PROVE  /\ StartRead(s) => outEp' \in {"off", "armed", "done"} /\ outSlot' \in Slots
         /\ StartWrite(s) => /\ inEp' \in {"off", "armed", "loaded", "done"}
                             /\ inSlot' \in Slots /\ inData' \in Answer
  BY DEF TypeOK, StartRead, StartWrite, outVars

LEMMA TypeIsr == ASSUME TypeOK, Isr PROVE TypeOK'
<1>1. CASE OutCallback
  BY <1>1, Ranges DEF TypeOK, OutCallback, respVars, inVars, hostVars
<1>2. CASE OutCheck
  BY <1>2 DEF TypeOK, OutCheck, reqVars, respVars, outVars, inVars, hostVars
<1>3. CASE OutArm
  <2>1. StartRead(reqIn)
    BY <1>3 DEF OutArm
  <2>2. outEp' \in {"off", "armed", "done"} /\ outSlot' \in Slots
    BY <2>1, StartTypes DEF TypeOK
  <2>3. QED BY <1>3, <2>2 DEF TypeOK, OutArm, reqVars, respVars, inVars, hostVars
<1>4. CASE OutIdle
  BY <1>4 DEF TypeOK, OutIdle, respVars, outVars, inVars, hostVars
<1>5. CASE InCallback
  BY <1>5 DEF TypeOK, InCallback, reqVars, respVars, outVars, hostVars
<1>6. CASE InSend
  <2>1. StartWrite(respOut) /\ respOut' = NextSlot(respOut)
        /\ respCountO' = NextCount(respCountO)
    BY <1>6 DEF InSend, SendResponse
  <2>2. /\ inEp' \in {"off", "armed", "loaded", "done"}
        /\ inSlot' \in Slots /\ inData' \in Answer
    BY <2>1, StartTypes DEF TypeOK
  <2>3. QED BY <1>6, <2>1, <2>2, Ranges DEF TypeOK, InSend, reqVars, outVars, hostVars
<1>7. CASE InIdle
  BY <1>7 DEF TypeOK, InIdle, reqVars, outVars, inVars, hostVars
<1>8. CASE LoadFifo
  BY <1>8 DEF TypeOK, LoadFifo, reqVars, respVars, outVars, hostVars
<1>9. QED BY <1>1, <1>2, <1>3, <1>4, <1>5, <1>6, <1>7, <1>8 DEF Isr

LEMMA TypeTask == ASSUME TypeOK, Task PROVE TypeOK'
<1>1. CASE TaskLook
  BY <1>1 DEF TypeOK, TaskLook, reqVars, respVars, outVars, inVars, hostVars
<1>2. CASE TaskConvert
  <2>1. request' \in [Slots -> Packet]
    <3>1. request[scan] \in Packet
      BY DEF TypeOK
    <3>2. [request[scan] EXCEPT !.kind = "execute"] \in Packet
      BY <3>1 DEF Packet
    <3>3. QED BY <1>2, <3>2 DEF TaskConvert, TypeOK
  <2>2. QED BY <1>2, <2>1, Ranges DEF TypeOK, TaskConvert, reqVars, respVars, outVars,
                                      inVars, hostVars
<1>3. CASE TaskExecute
  BY <1>3 DEF TypeOK, TaskExecute, reqVars, respVars, outVars, inVars, hostVars
<1>4. CASE TaskAnswer
  <2>1. request[reqOut].no \in Nat
    BY DEF TypeOK, Packet
  <2>2. [no |-> request[reqOut].no, aborted |-> abort] \in Answer
    BY <2>1 DEF TypeOK, Answer
  <2>3. QED BY <1>4, <2>2 DEF TypeOK, TaskAnswer, reqVars, respVars, outVars, inVars,
                              hostVars
<1>5. CASE TaskPop
  BY <1>5, Ranges DEF TypeOK, TaskPop, respVars, outVars, inVars, hostVars
<1>6. CASE TaskRequestIdle
  BY <1>6 DEF TypeOK, TaskRequestIdle, reqVars, respVars, outVars, inVars, hostVars
<1>7. CASE TaskRearm
  <2>1. /\ outEp' \in {"off", "armed", "done"} /\ outSlot' \in Slots
        /\ reqIdle' \in BOOLEAN
    <3>1. reqIn \in Slots
      BY DEF TypeOK
    <3>2. CASE Pending # Count
      BY <1>7, <3>1, <3>2, StartTypes DEF TaskRearm
    <3>3. CASE Pending = Count
      BY <1>7, <3>3 DEF TaskRearm, TypeOK, outVars
    <3>4. QED BY <3>2, <3>3
  <2>2. QED BY <1>7, <2>1 DEF TypeOK, TaskRearm, respVars, inVars, hostVars
<1>8. CASE TaskPublish
  BY <1>8, Ranges DEF TypeOK, TaskPublish, reqVars, outVars, inVars, hostVars
<1>9. CASE TaskResponseIdle
  BY <1>9 DEF TypeOK, TaskResponseIdle, reqVars, respVars, outVars, inVars, hostVars
<1>10. CASE TaskSend
  <2>1. /\ inEp' \in {"off", "armed", "loaded", "done"}
        /\ inSlot' \in Slots /\ inData' \in Answer
        /\ respOut' \in Slots /\ respCountO' \in 0..Wrap-1 /\ respIdle' \in BOOLEAN
    <3>1. respOut \in Slots
      BY DEF TypeOK
    <3>2. CASE respCountI # respCountO
      BY <1>10, <3>1, <3>2, StartTypes, Ranges DEF TaskSend, SendResponse, TypeOK
    <3>3. CASE respCountI = respCountO
      BY <1>10, <3>3 DEF TaskSend, TypeOK, inVars
    <3>4. QED BY <3>2, <3>3
  <2>2. QED BY <1>10, <2>1 DEF TypeOK, TaskSend, reqVars, outVars, hostVars
<1>11. QED BY <1>1, <1>2, <1>3, <1>4, <1>5, <1>6, <1>7, <1>8, <1>9, <1>10 DEF Task

LEMMA TypeHost == ASSUME TypeOK, Host PROVE TypeOK'
<1>1. CASE HostSend
  <2>1. request' \in [Slots -> Packet]
    <3>1. PICK k \in {"command", "queue"} :
            request' = [request EXCEPT ![outSlot] = [kind |-> k, no |-> sent + 1]]
      BY <1>1 DEF HostSend
    <3>2. sent + 1 \in Nat
      BY DEF TypeOK
    <3>3. [kind |-> k, no |-> sent + 1] \in Packet
      BY <3>2, RecordTypes
    <3>4. QED BY <3>1, <3>3 DEF TypeOK
  <2>2. QED BY <1>1, <2>1 DEF TypeOK, HostSend, reqVars, respVars, inVars
<1>2. CASE HostAbort
  <2>1. request' \in [Slots -> Packet]
    BY <1>2, RecordTypes DEF HostAbort, TypeOK
  <2>2. aborts' \in Nat /\ aborted' \in Nat
    BY <1>2 DEF TypeOK, HostAbort
  <2>3. QED BY <1>2, <2>1, <2>2 DEF TypeOK, HostAbort, reqVars, respVars, inVars
<1>3. CASE HostReceive
  BY <1>3 DEF TypeOK, HostReceive, reqVars, respVars, outVars
<1>4. CASE BusReset
  <2>1. last' \in Answer
    BY <1>4, RecordTypes DEF BusReset, TypeOK
  <2>2. got' \in Nat /\ resets' \in Nat /\ configured' \in BOOLEAN
    <3>1. got' = sent /\ resets' = resets + 1 /\ configured' = FALSE
      BY <1>4 DEF BusReset
    <3>2. sent \in Nat /\ resets \in Nat
      BY DEF TypeOK
    <3>3. got' \in Nat /\ resets' \in Nat
      BY <3>1, <3>2
    <3>4. configured' \in BOOLEAN
      BY <3>1, Zenon
    <3>5. QED BY <3>3, <3>4
  <2>3. outEp' \in {"off", "armed", "done"} /\ inEp' \in {"off", "armed", "loaded", "done"}
    BY <1>4 DEF BusReset
  <2>4. UNCHANGED <<reqVars, respVars, request, response, abort, outSlot, inSlot, inData,
                    isr, task, scan, sent, aborted, aborts>>
    BY <1>4 DEF BusReset
  <2>5. QED BY <2>1, <2>2, <2>3, <2>4 DEF TypeOK, reqVars, respVars
<1>5. CASE Configured
  BY <1>5, Constants DEF TypeOK, Configured, respVars, inVars, hostVars
<1>6. QED BY <1>1, <1>2, <1>3, <1>4, <1>5 DEF Host

LEMMA TypeNext == ASSUME TypeOK, [Next]_vars PROVE TypeOK'
<1>1. CASE UNCHANGED vars
  BY <1>1 DEF TypeOK, vars, reqVars, respVars, outVars, inVars, hostVars
<1>2. QED BY <1>1, TypeIsr, TypeTask, TypeHost DEF Next

\* dap_main.c: indices stay inside USB_Request and USB_Response, counters
\* inside their width, whatever the host sends and whenever the bus is reset.
THEOREM TypeCorrect == Spec => []TypeOK
  BY TypeInit, TypeNext, PTL DEF Spec

-----------------------------------------------------------------------------
(* The request side.                                                       *)

ReqInv == TypeOK /\ Exclusion

\* The arithmetic of one packet arriving, and of one being done with.
LEMMA Arrive ==
  ASSUME NEW i \in 0..Wrap-1, NEW o \in 0..Wrap-1, NEW s \in Slots, NEW p \in Nat,
         p = (IF i >= o THEN i - o ELSE i - o + Wrap), p < Count
  PROVE  /\ (IF NextCount(i) >= o THEN NextCount(i) - o ELSE NextCount(i) - o + Wrap) = p + 1
         /\ NextSlot(Ahead(s, p)) = Ahead(s, p + 1)
  BY Constants DEF Slots, NextSlot, NextCount, Ahead

LEMMA Leave ==
  ASSUME NEW i \in 0..Wrap-1, NEW o \in 0..Wrap-1, NEW s \in Slots, NEW p \in Nat,
         p = (IF i >= o THEN i - o ELSE i - o + Wrap), p >= 1, p <= Count
  PROVE  /\ (IF i >= NextCount(o) THEN i - NextCount(o) ELSE i - NextCount(o) + Wrap) = p - 1
         /\ Ahead(NextSlot(s), p - 1) = Ahead(s, p)
  BY Constants DEF Slots, NextSlot, NextCount, Ahead

LEMMA PendingIs == ASSUME TypeOK PROVE Pending \in 0..Wrap-1 /\ Pending \in Nat
  BY Constants DEF TypeOK, Pending

\* Different counters: something is pending.
LEMMA PendingSome == ASSUME TypeOK, reqCountI # reqCountO PROVE Pending >= 1
<1>1. reqCountI \in 0..Wrap-1 /\ reqCountO \in 0..Wrap-1 /\ Wrap \in Nat
  BY Constants DEF TypeOK
<1>2. QED BY <1>1 DEF Pending

LEMMA RequestInit == Init => Exclusion
  BY Constants DEF Init, Exclusion, Pending, Ahead, OutHandler

\* Steps that leave the request side's state alone.
LEMMA RequestKept ==
  ASSUME Exclusion, UNCHANGED <<reqVars, outVars, configured, isr, task>>,
         configured \/ inEp' = inEp
  PROVE  Exclusion'
  BY DEF Exclusion, Pending, Ahead, reqVars, outVars, OutHandler

LEMMA RequestIsr == ASSUME ReqInv, Isr PROVE Exclusion'
<1> USE DEF ReqInv
<1>1. CASE OutCallback
  <2>1. /\ outEp = "done" /\ outEp' = "off" /\ isr' = "outCheck" /\ configured
        /\ Pending < Count /\ ~reqIdle
        /\ UNCHANGED <<reqOut, reqCountO, reqIdle, configured, task>>
    BY <1>1 DEF OutCallback, Exclusion
  <2>2. CASE UNCHANGED <<reqIn, reqCountI>>
    <3>1. Pending' = Pending /\ Ahead(reqOut, Pending)' = Ahead(reqOut, Pending)
      BY <2>1, <2>2 DEF Pending, Ahead
    <3>2. QED BY <2>1, <2>2, <3>1 DEF Exclusion, OutHandler
  <2>3. CASE reqIn' = NextSlot(reqIn) /\ reqCountI' = NextCount(reqCountI)
    <3>1. Pending' = Pending + 1
      BY <2>1, <2>3, PendingIs, Arrive DEF TypeOK, Pending
    <3>2. reqIn' = Ahead(reqOut, Pending + 1)
      BY <2>1, <2>3, PendingIs, Arrive DEF TypeOK, Pending, Exclusion
    <3>3. reqIn' = Ahead(reqOut', Pending')
      BY <2>1, <3>1, <3>2
    <3>4. QED BY <2>1, <3>1, <3>3, PendingIs, Constants DEF Exclusion, OutHandler
  <2>4. QED BY <1>1, <2>2, <2>3 DEF OutCallback
<1>2. CASE OutCheck
  <2>1. /\ isr = "outCheck" /\ isr' \in {"outArm", "outIdle"}
        /\ isr' = "outArm" => Pending # Count
        /\ UNCHANGED <<reqVars, outVars, configured, task>>
    BY <1>2 DEF OutCheck
  <2>2. Pending' = Pending /\ Ahead(reqOut, Pending)' = Ahead(reqOut, Pending)
    BY <2>1 DEF Pending, Ahead, reqVars
  <2>3. QED BY <2>1, <2>2, PendingIs, Constants DEF Exclusion, OutHandler, reqVars, outVars
<1>3. CASE OutArm
  <2>1. /\ isr = "outArm" /\ isr' = "none" /\ StartRead(reqIn) /\ configured
        /\ UNCHANGED <<reqVars, configured, task>>
    BY <1>3 DEF OutArm, Exclusion
  <2>2. Pending' = Pending /\ Ahead(reqOut, Pending)' = Ahead(reqOut, Pending)
    BY <2>1 DEF Pending, Ahead, reqVars
  <2>3. outEp' = "armed" /\ outSlot' = reqIn
    BY <2>1 DEF StartRead
  <2>4. QED BY <2>1, <2>2, <2>3 DEF Exclusion, OutHandler, reqVars
<1>4. CASE OutIdle
  <2>1. /\ isr = "outIdle" /\ isr' = "none" /\ reqIdle' = TRUE
        /\ UNCHANGED <<reqIn, reqOut, reqCountI, reqCountO, outVars, configured, task>>
    BY <1>4 DEF OutIdle
  <2>2. Pending' = Pending /\ Ahead(reqOut, Pending)' = Ahead(reqOut, Pending)
    BY <2>1 DEF Pending, Ahead
  <2>3. QED BY <2>1, <2>2 DEF Exclusion, OutHandler, outVars
<1>5. CASE InCallback \/ InSend \/ InIdle \/ LoadFifo
  <2>1. /\ isr \notin OutHandler /\ isr' \notin OutHandler /\ configured
        /\ UNCHANGED <<reqVars, outVars, configured, task>>
    BY <1>5 DEF InCallback, InSend, InIdle, LoadFifo, OutHandler, Exclusion
  <2>2. Pending' = Pending /\ Ahead(reqOut, Pending)' = Ahead(reqOut, Pending)
    BY <2>1 DEF Pending, Ahead, reqVars
  <2>3. QED BY <2>1, <2>2 DEF Exclusion, OutHandler, reqVars, outVars
<1>6. QED BY <1>1, <1>2, <1>3, <1>4, <1>5 DEF Isr

\* Only a configured device has work for the task.
LEMMA TaskConfigured == ASSUME ReqInv, Task PROVE configured
<1> SUFFICES ASSUME ~configured PROVE FALSE
  OBVIOUS
<1>1. task = "look" /\ Pending = 0
  BY DEF ReqInv, Exclusion
<1>2. TaskLook
  BY <1>1 DEF Task, TaskAt, TaskConvert, TaskExecute, TaskAnswer, TaskPop,
     TaskRequestIdle, TaskRearm, TaskPublish, TaskResponseIdle, TaskSend
<1>3. QED BY <1>1, <1>2, PendingSome DEF ReqInv, TaskLook

LEMMA RequestTask == ASSUME ReqInv, Task PROVE Exclusion'
<1> USE DEF ReqInv
<1>0. configured
  BY TaskConfigured
<1>1. CASE TaskLook
  <2>1. /\ task' = "scan" /\ reqCountI # reqCountO
        /\ UNCHANGED <<reqVars, outVars, configured, isr>>
    BY <1>1 DEF TaskLook
  <2>2. Pending' = Pending /\ Ahead(reqOut, Pending)' = Ahead(reqOut, Pending)
    BY <2>1 DEF Pending, Ahead, reqVars
  <2>3. Pending >= 1
    BY <2>1, PendingSome
  <2>4. QED BY <1>0, <2>1, <2>2, <2>3 DEF Exclusion, OutHandler, reqVars, outVars
<1>2. CASE TaskConvert \/ TaskExecute \/ TaskAnswer
  <2>1. /\ task \in {"scan", "execute"} /\ task' \in {"scan", "execute", "pop"}
        /\ UNCHANGED <<reqVars, outVars, configured, isr>>
    BY <1>2 DEF TaskConvert, TaskExecute, TaskAnswer, TaskAt
  <2>2. Pending' = Pending /\ Ahead(reqOut, Pending)' = Ahead(reqOut, Pending)
    BY <2>1 DEF Pending, Ahead, reqVars
  <2>3. QED BY <1>0, <2>1, <2>2 DEF Exclusion, OutHandler, reqVars, outVars
<1>3. CASE TaskPop
  <2>1. /\ task = "pop" /\ task' = "requestIdle" /\ Pending >= 1 /\ Pending <= Count
        /\ reqOut' = NextSlot(reqOut) /\ reqCountO' = NextCount(reqCountO)
        /\ UNCHANGED <<reqIn, reqCountI, reqIdle, outVars, configured, isr>>
    BY <1>3 DEF TaskPop, TaskAt, Exclusion
  <2>2. Pending' = Pending - 1 /\ Ahead(reqOut', Pending - 1) = Ahead(reqOut, Pending)
    BY <2>1, PendingIs, Leave DEF TypeOK, Pending
  <2>3. reqIn' = Ahead(reqOut', Pending')
    BY <2>1, <2>2 DEF Exclusion
  <2>4. Pending' <= Count /\ Pending' < Count
    BY <2>1, <2>2, PendingIs, Constants
  <2> DEFINE q == Pending'
  <2>5. q <= Count /\ q < Count /\ Pending' = q
    BY <2>4
  <2>6. configured' /\ outEp' = outEp /\ outSlot' = outSlot
    BY <1>0, <2>1 DEF outVars
  <2> HIDE DEF q
  <2>7. QED BY <2>1, <2>3, <2>5, <2>6 DEF Exclusion, OutHandler
<1>4. CASE TaskRequestIdle
  <2>1. /\ task' \in {"rearm", "publish"}
        /\ task' = "rearm" => reqIdle
        /\ UNCHANGED <<reqVars, outVars, configured, isr>>
    BY <1>4 DEF TaskRequestIdle
  <2>2. Pending' = Pending /\ Ahead(reqOut, Pending)' = Ahead(reqOut, Pending)
    BY <2>1 DEF Pending, Ahead, reqVars
  <2>3. QED BY <1>0, <2>1, <2>2 DEF Exclusion, OutHandler, reqVars, outVars
<1>5. CASE TaskRearm
  <2>1. /\ task = "rearm" /\ task' = "publish" /\ reqIdle
        /\ UNCHANGED <<reqIn, reqOut, reqCountI, reqCountO, configured, isr>>
    BY <1>5 DEF TaskRearm, TaskAt, Exclusion
  <2>2. Pending' = Pending /\ Ahead(reqOut, Pending)' = Ahead(reqOut, Pending)
    BY <2>1 DEF Pending, Ahead
  <2>3. CASE Pending # Count
    <3>1. outEp' = "armed" /\ outSlot' = reqIn /\ reqIdle' = FALSE
      BY <1>0, <1>5, <2>3 DEF TaskRearm, StartRead
    <3>2. Pending < Count
      BY <2>3, PendingIs, Constants DEF Exclusion
    <3>3. QED BY <1>0, <2>1, <2>2, <3>1, <3>2 DEF Exclusion, OutHandler
  <2>4. CASE Pending = Count
    <3>1. UNCHANGED <<reqIdle, outVars>>
      BY <1>5, <2>4 DEF TaskRearm
    <3>2. QED BY <1>0, <2>1, <2>2, <3>1 DEF Exclusion, OutHandler, outVars
  <2>5. QED BY <2>3, <2>4
<1>6. CASE TaskPublish \/ TaskResponseIdle \/ TaskSend
  <2>1. /\ task' \in {"responseIdle", "send", "look"}
        /\ UNCHANGED <<reqVars, outVars, configured, isr>>
    BY <1>6 DEF TaskPublish, TaskResponseIdle, TaskSend
  <2>2. Pending' = Pending /\ Ahead(reqOut, Pending)' = Ahead(reqOut, Pending)
    BY <2>1 DEF Pending, Ahead, reqVars
  <2>3. QED BY <1>0, <2>1, <2>2 DEF Exclusion, OutHandler, reqVars, outVars
<1>7. QED BY <1>1, <1>2, <1>3, <1>4, <1>5, <1>6 DEF Task

LEMMA RequestHost == ASSUME ReqInv, Host, ~BusReset PROVE Exclusion'
<1> USE DEF ReqInv
<1>1. CASE HostSend \/ HostAbort
  <2>1. /\ outEp # "off" /\ outEp' # "off" /\ configured
        /\ UNCHANGED <<reqVars, outSlot, configured, isr, task>>
    BY <1>1 DEF HostSend, HostAbort, Exclusion
  <2>2. Pending' = Pending /\ Ahead(reqOut, Pending)' = Ahead(reqOut, Pending)
    BY <2>1 DEF Pending, Ahead, reqVars
  <2>3. QED BY <2>1, <2>2 DEF Exclusion, OutHandler, reqVars
<1>2. CASE HostReceive
  <2>1. UNCHANGED <<reqVars, outVars, configured, isr, task>> /\ configured
    BY <1>2 DEF HostReceive, Exclusion
  <2>2. QED BY <2>1, RequestKept
<1>3. CASE Configured
  <2>1. /\ ~configured /\ configured' = TRUE /\ reqIdle' = FALSE /\ isr = "none"
        /\ outEp' = "armed" /\ outSlot' = 0
        /\ UNCHANGED <<reqIn, reqOut, reqCountI, reqCountO, isr, task>>
    BY <1>3 DEF Configured
  <2>2. Pending' = Pending /\ Ahead(reqOut, Pending)' = Ahead(reqOut, Pending)
    BY <2>1 DEF Pending, Ahead
  <2>3. QED BY <2>1, <2>2, Constants DEF Exclusion, OutHandler
<1>4. QED BY <1>1, <1>2, <1>3 DEF Host

\* A step that leaves no reset counted is none, and none was counted before.
LEMMA NoResets ==
  ASSUME TypeOK, [Next]_vars, resets' = 0 PROVE resets = 0 /\ ~BusReset
<1>1. CASE UNCHANGED vars \/ Isr \/ Task
  <2>1. resets' = resets
    BY <1>1 DEF vars, hostVars, Isr, OutCallback, OutCheck, OutArm, OutIdle, InCallback, InSend,
       InIdle, SendResponse, StartWrite, LoadFifo, Task, TaskLook, TaskConvert, TaskExecute,
       TaskAnswer, TaskPop, TaskRequestIdle, TaskRearm, TaskPublish, TaskResponseIdle, TaskSend,
       TaskAt, StartRead
  <2>2. QED BY <2>1 DEF BusReset, TypeOK
<1>2. CASE Host /\ ~BusReset
  BY <1>2 DEF Host, HostSend, HostAbort, HostReceive, Configured, hostVars
<1>3. CASE BusReset
  BY <1>3 DEF BusReset, TypeOK
<1>4. QED BY <1>1, <1>2, <1>3 DEF Next

LEMMA RequestNext ==
  ASSUME ReqInv, [Next]_vars, resets' = 0 PROVE Exclusion'
<1>1. CASE UNCHANGED vars
  BY <1>1, RequestKept DEF ReqInv, vars, inVars
<1>2. QED BY <1>1, RequestIsr, RequestTask, RequestHost, NoResets DEF Next, ReqInv

\* dap_main.c 253-272, 403-408: the OUT transfer, the handler about to start
\* one and the idle flag exclude each other, whatever cores the two run on.
THEOREM RequestSide == Spec => []RequestInv
<1>1. Init => RequestInv
  BY RequestInit DEF RequestInv
<1>2. TypeOK /\ RequestInv /\ [Next]_vars => RequestInv'
  BY RequestNext, NoResets DEF ReqInv, RequestInv
<1>3. QED BY <1>1, <1>2, TypeCorrect, PTL DEF Spec

\* The slot after p pending ones is none of them.
LEMMA FreeSlot ==
  ASSUME NEW s \in Slots, NEW p \in Nat, p < Count, NEW k \in 0..p-1
  PROVE  Ahead(s, p) # Ahead(s, k)
  BY Constants DEF Slots, Ahead

\* USB_Request: no pending request is overwritten by a packet being received.
THEOREM NoOverwrite == Spec => []ReceivesIntoFreeSlot
<1>1. TypeOK /\ RequestInv => ReceivesIntoFreeSlot
  BY PendingIs, FreeSlot DEF RequestInv, Exclusion, ReceivesIntoFreeSlot, TypeOK
<1>2. QED BY <1>1, TypeCorrect, RequestSide, PTL

\* DAP_PACKET_COUNT bounds the requests held.
THEOREM Bounded == Spec => []BufferBound
<1>1. RequestInv => BufferBound
  BY DEF RequestInv, Exclusion, BufferBound
<1>2. QED BY <1>1, RequestSide, PTL

-----------------------------------------------------------------------------
(* The abort flag, with one slot.                                          *)

Quiet == /\ task = "execute" => ~abort
         /\ \A s \in Slots : ~response[s].aborted
         /\ ~inData.aborted /\ ~last.aborted

LEMMA QuietNext ==
  ASSUME Count = 1, ReqInv, Quiet, [Next]_vars PROVE Quiet'
<1>1. CASE OutCallback
  <2>1. Pending < 1 /\ task' = task /\ UNCHANGED <<response, inData, last>>
    BY <1>1 DEF OutCallback, ReqInv, Exclusion, inVars, hostVars
  <2>2. task # "execute"
    BY <2>1, PendingIs DEF ReqInv, Exclusion
  <2>3. QED BY <2>1, <2>2 DEF Quiet
<1>2. CASE TaskExecute
  BY <1>2 DEF TaskExecute, Quiet, inVars, hostVars
<1>3. CASE TaskAnswer
  <2>1. /\ ~abort /\ task' = "pop" /\ UNCHANGED <<inData, last>>
        /\ response' = [response EXCEPT ![respIn] =
                          [no |-> request[reqOut].no, aborted |-> abort]]
    BY <1>3 DEF TaskAnswer, TaskAt, Quiet, inVars, hostVars
  <2>2. ASSUME NEW s \in Slots PROVE ~response'[s].aborted
    BY <2>1 DEF Quiet, ReqInv, TypeOK
  <2>3. QED BY <2>1, <2>2 DEF Quiet
<1>4. CASE LoadFifo
  <2>1. inData' = response[inSlot] /\ UNCHANGED <<response, last, task, abort>>
    BY <1>4 DEF LoadFifo, hostVars
  <2>2. inSlot \in Slots
    BY DEF ReqInv, TypeOK
  <2>3. QED BY <2>1, <2>2 DEF Quiet
<1>5. CASE HostReceive
  BY <1>5 DEF HostReceive, Quiet
<1>6. CASE BusReset
  <2>1. last' = [no |-> sent, aborted |-> FALSE]
        /\ UNCHANGED <<response, inData, task, abort>>
    BY <1>6 DEF BusReset
  <2>2. ~last'.aborted
    BY <2>1
  <2>3. QED BY <2>1, <2>2 DEF Quiet
<1>7. CASE UNCHANGED vars
  BY <1>7 DEF vars, Quiet, inVars, hostVars
<1>8. CASE \/ OutCheck \/ OutArm \/ OutIdle \/ InCallback \/ InSend \/ InIdle
           \/ TaskLook \/ TaskConvert \/ TaskPop \/ TaskRequestIdle \/ TaskRearm
           \/ TaskPublish \/ TaskResponseIdle \/ TaskSend
           \/ HostSend \/ HostAbort \/ Configured
  <2>1. UNCHANGED <<response, abort, inData, last>> /\ (task' = "execute" => task = "execute")
    BY <1>8 DEF OutCheck, OutArm, OutIdle, InCallback, InSend, InIdle, SendResponse,
       StartWrite, TaskLook, TaskConvert, TaskPop, TaskRequestIdle, TaskRearm,
       TaskPublish, TaskResponseIdle, TaskSend, TaskAt, HostSend, HostAbort,
       Configured, inVars, hostVars
  <2>2. QED BY <2>1 DEF Quiet
<1>9. QED BY <1>1, <1>2, <1>3, <1>4, <1>5, <1>6, <1>7, <1>8 DEF Next, Isr, Task, Host

\* DAP_TransferAbort is a dead letter with one packet buffer: no command ever
\* sees it, because nothing is received while a command runs.
THEOREM NeverAborts == Spec => []OneSlotNeverAborts
<1>1. ASSUME Count = 1 PROVE Spec => [](resets = 0 => Quiet)
  <2>1. Init => (resets = 0 => Quiet)
    BY DEF Init, Quiet, NoAnswer
  <2>2. TypeOK /\ RequestInv /\ (resets = 0 => Quiet) /\ [Next]_vars => (resets = 0 => Quiet)'
    BY <1>1, QuietNext, NoResets DEF ReqInv, RequestInv
  <2>3. QED BY <2>1, <2>2, TypeCorrect, RequestSide, PTL DEF Spec
<1>2. (resets = 0 => Quiet) => OneSlotNeverAborts
  BY DEF Quiet, OneSlotNeverAborts
<1>3. CASE Count = 1
  BY <1>1, <1>2, <1>3, PTL
<1>4. CASE Count # 1
  <2>1. OneSlotNeverAborts
    BY <1>4 DEF OneSlotNeverAborts
  <2>2. QED BY <2>1, PTL
<1>5. QED BY <1>3, <1>4

-----------------------------------------------------------------------------
(* The response side: answers leave in the order of the requests.          *)

AnsweredInv == TypeOK /\ Exclusion /\ Answering /\ Numbered

LEMMA ReadyIs == ASSUME TypeOK PROVE Ready \in 0..Wrap-1 /\ Ready \in Nat
  BY Constants DEF TypeOK, Ready

LEMMA Places ==
  ASSUME TypeOK
  PROVE  /\ Arrived \in {0, 1} /\ Popped \in {0, 1} /\ Flying \in {0, 1}
         /\ Handed \in Nat /\ Published \in Nat /\ Executed \in Nat
<1>1. Arrived \in {0, 1} /\ Popped \in {0, 1} /\ Flying \in {0, 1}
  BY DEF Arrived, Popped, Flying
<1>2. Handed \in Nat
  BY <1>1 DEF Handed, TypeOK
<1>3. Published \in Nat
  BY <1>2, ReadyIs DEF Published
<1>4. QED BY <1>1, <1>2, <1>3 DEF Executed

\* The k-th slot after s is a slot, and the next slot's k-th is the (k+1)-th.
LEMMA AheadIs ==
  ASSUME NEW s \in Slots, NEW k \in Nat, k < Count
  PROVE  /\ Ahead(s, k) \in Slots
         /\ Ahead(NextSlot(s), k) = Ahead(s, k + 1)
         /\ Ahead(s, 0) = s
  BY Constants DEF Slots, Ahead, NextSlot

\* The slot in the endpoint is none of the Count - 1 that follow it.
LEMMA SlotBehind ==
  ASSUME NEW s \in Slots, NEW k \in Nat, k < Count - 1
  PROVE  Ahead(NextSlot(s), k) # s
  BY Constants DEF Slots, Ahead, NextSlot

\* The requests a host keeps unanswered bound the sum of all places.
LEMMA Room ==
  ASSUME Window <= Count, TypeOK, Numbered
  PROVE  Flying + Ready + Popped + Pending + Arrived <= Count
<1>1. sent = got + Flying + Ready + Popped + Pending + Arrived
  BY Places, ReadyIs, PendingIs DEF Numbered, Executed, Published, Handed, TypeOK
<1>2. QED BY <1>1, Places, ReadyIs, PendingIs, Constants, HostAssumption DEF Numbered, TypeOK

\* The task holds an answer that is not published.
HasAnswer == {"pop", "requestIdle", "rearm", "publish"}

\* Steps that move no request to another place.
LEMMA NumbersKept ==
  ASSUME TypeOK, Pending <= Count, Numbered,
         UNCHANGED <<reqOut, reqCountI, reqCountO, respIn, respOut, respCountI, respCountO,
                     response, inSlot, inData, sent, got, last>>,
         inEp' = inEp \/ (inEp = "done" /\ inEp' = "off"),
         Arrived' = Arrived, Popped' = Popped,
         outSlot' = outSlot \/ Arrived = 0,
         \A s \in Slots : request'[s].no = request[s].no,
         task' \in HasAnswer => task \in HasAnswer
  PROVE  Numbered'
<1>1. Pending' = Pending /\ Ready' = Ready
  BY DEF Pending, Ready
<1>2. Flying' = Flying
  BY DEF Flying
<1>3. Handed' = Handed
  BY <1>2 DEF Handed
<1>4. Published' = Published
  BY <1>1, <1>3 DEF Published
<1>5. Executed' = Executed
  BY <1>4 DEF Executed
<1>6. sent' = Executed' + Pending' + Arrived' /\ sent' - got' <= Window
  BY <1>1, <1>5 DEF Numbered
<1>7. Arrived' = 1 => request'[outSlot'].no = sent'
  BY DEF Numbered, TypeOK
<1>8. ASSUME NEW k \in 0..Pending'-1
      PROVE  request'[Ahead(reqOut', k)].no = Executed' + k + 1
  <2>1. k \in 0..Pending-1 /\ k \in Nat /\ k < Count /\ reqOut \in Slots
    BY <1>1, PendingIs, Constants DEF TypeOK
  <2>2. Ahead(reqOut, k) \in Slots /\ Ahead(reqOut', k) = Ahead(reqOut, k)
    BY <2>1, AheadIs
  <2>3. request[Ahead(reqOut, k)].no = Executed + k + 1
    BY <2>1 DEF Numbered
  <2>4. QED BY <1>5, <2>2, <2>3
<1>9. task' \in HasAnswer => response'[respIn'].no = Published' + 1
  BY <1>4 DEF Numbered, HasAnswer
<1>10. ASSUME NEW k \in 0..Ready'-1
       PROVE  response'[Ahead(respOut', k)].no = Handed' + k + 1
  <2>1. response[Ahead(respOut, k)].no = Handed + k + 1
    BY <1>1 DEF Numbered
  <2>2. Ahead(respOut', k) = Ahead(respOut, k)
    BY DEF Ahead
  <2>3. QED BY <1>3, <2>1, <2>2
<1>11. /\ inEp' = "armed" => response'[inSlot'].no = got' + 1
       /\ inEp' = "loaded" => inData'.no = got' + 1
       /\ last'.no = got'
  BY DEF Numbered
<1>12. QED BY <1>6, <1>7, <1>8, <1>9, <1>10, <1>11 DEF Numbered, HasAnswer

\* Steps that leave the IN endpoint and its counters alone.
LEMMA AnsweringKept ==
  ASSUME Answering, UNCHANGED <<respVars, inEp, inSlot>>,
         isr' \in {"inSend", "inIdle"} => isr' = isr,
         task' = "send" => respIdle
  PROVE  Answering'
<1>1. Ready' = Ready /\ Ahead(respOut, Ready)' = Ahead(respOut, Ready)
  BY DEF Ready, Ahead, respVars
<1>2. QED BY <1>1 DEF Answering, ResponseToken, respVars

LEMMA BothKept ==
  ASSUME AnsweredInv,
         UNCHANGED <<reqOut, reqCountI, reqCountO, respVars, response, inVars, sent, got, last>>,
         Arrived' = Arrived, Popped' = Popped,
         outSlot' = outSlot \/ Arrived = 0,
         \A s \in Slots : request'[s].no = request[s].no,
         task' \in HasAnswer => task \in HasAnswer,
         isr' \in {"inSend", "inIdle"} => isr' = isr,
         task' = "send" => respIdle
  PROVE  Answering' /\ Numbered'
<1>1. Answering'
  BY AnsweringKept DEF AnsweredInv, inVars
<1>2. Numbered'
  BY NumbersKept DEF AnsweredInv, Exclusion, respVars, inVars
<1>3. QED BY <1>1, <1>2

LEMMA AnswersQuiet ==
  ASSUME AnsweredInv,
         \/ OutCheck \/ OutArm \/ OutIdle \/ TaskLook \/ TaskConvert \/ TaskExecute
         \/ TaskRequestIdle \/ TaskRearm \/ TaskResponseIdle \/ Configured
         \/ UNCHANGED vars
  PROVE  Answering' /\ Numbered'
<1>1. CASE OutCheck \/ OutArm \/ OutIdle
  <2>1. /\ UNCHANGED <<reqOut, reqCountI, reqCountO, respVars, response, inVars, sent, got,
                       last, request, task>>
        /\ isr' \notin {"inSend", "inIdle"}
        /\ outEp = "off"
    BY <1>1 DEF OutCheck, OutArm, OutIdle, reqVars, hostVars, AnsweredInv, Exclusion, OutHandler
  <2>2. outEp' # "done"
    BY <1>1, <2>1 DEF OutCheck, OutArm, OutIdle, StartRead, outVars
  <2>3. Arrived = 0 /\ Arrived' = 0 /\ Popped' = Popped
    BY <2>1, <2>2 DEF Arrived, Popped
  <2>4. task' = "send" => respIdle
    BY <2>1 DEF AnsweredInv, Answering, ResponseToken
  <2>5. QED BY <2>1, <2>3, <2>4, BothKept
<1>2. CASE TaskLook \/ TaskExecute \/ TaskRequestIdle \/ TaskResponseIdle
  <2>1. /\ UNCHANGED <<reqOut, reqCountI, reqCountO, respVars, response, inVars, sent, got,
                       last, request, outEp, outSlot, isr>>
        /\ task' \in HasAnswer => task \in HasAnswer
        /\ task' = "send" => respIdle
    BY <1>2 DEF TaskLook, TaskExecute, TaskRequestIdle, TaskResponseIdle, TaskAt, reqVars,
       outVars, hostVars, HasAnswer
  <2>2. Popped' = Popped
    BY <1>2 DEF TaskLook, TaskExecute, TaskRequestIdle, TaskResponseIdle, TaskAt, Popped
  <2>3. Arrived' = Arrived
    BY <2>1 DEF Arrived
  <2>4. QED BY <2>1, <2>2, <2>3, BothKept
<1>3. CASE TaskConvert
  <2>1. /\ UNCHANGED <<reqOut, reqCountI, reqCountO, respVars, response, inVars, sent, got,
                       last, outEp, outSlot, isr, task>>
        /\ task = "scan" /\ request[scan].kind = "queue"
        /\ request' = [request EXCEPT ![scan].kind = "execute"]
    BY <1>3 DEF TaskConvert, TaskAt, reqVars, outVars, hostVars
  <2>2. \A s \in Slots : /\ request'[s].no = request[s].no
                         /\ request'[s].kind = "abort" <=> request[s].kind = "abort"
    BY <2>1 DEF AnsweredInv, TypeOK, Packet
  <2>3. Arrived' = Arrived
    BY <2>1, <2>2 DEF Arrived, AnsweredInv, TypeOK
  <2>4. Popped' = Popped
    BY <2>1 DEF Popped
  <2>5. QED BY <2>1, <2>2, <2>3, <2>4, BothKept
<1>4. CASE TaskRearm
  <2>1. /\ UNCHANGED <<reqOut, reqCountI, reqCountO, respVars, response, inVars, sent, got,
                       last, request, isr>>
        /\ task = "rearm" /\ task' = "publish" /\ outEp = "off"
    BY <1>4 DEF TaskRearm, TaskAt, hostVars, AnsweredInv, Exclusion
  <2>2. outEp' # "done"
    BY <1>4, <2>1 DEF TaskRearm, StartRead, outVars
  <2>3. Arrived = 0 /\ Arrived' = 0 /\ Popped' = Popped
    BY <2>1, <2>2 DEF Arrived, Popped
  <2>4. task \in HasAnswer
    BY <2>1 DEF HasAnswer
  <2>5. QED BY <2>1, <2>3, <2>4, BothKept
<1>5. CASE Configured
  <2>1. /\ UNCHANGED <<reqOut, reqCountI, reqCountO, respVars, response, inVars, sent, got,
                       last, request, isr, task>>
        /\ outEp = "off" /\ outEp' = "armed" /\ task = "look"
    BY <1>5 DEF Configured, hostVars, AnsweredInv, Exclusion
  <2>2. Arrived = 0 /\ Arrived' = 0 /\ Popped' = Popped
    BY <2>1 DEF Arrived, Popped
  <2>3. QED BY <2>1, <2>2, BothKept
<1>6. CASE UNCHANGED vars
  <2>1. /\ UNCHANGED <<reqOut, reqCountI, reqCountO, respVars, response, inVars, sent, got,
                       last, request, outEp, outSlot, isr, task>>
    BY <1>6 DEF vars, reqVars, outVars, hostVars
  <2>2. Arrived' = Arrived /\ Popped' = Popped
    BY <2>1 DEF Arrived, Popped
  <2>3. task' = "send" => respIdle
    BY <2>1 DEF AnsweredInv, Answering, ResponseToken
  <2>4. QED BY <2>1, <2>2, <2>3, BothKept
<1>7. QED BY <1>1, <1>2, <1>3, <1>4, <1>5, <1>6

\* Steps of the response side leave the numbers of the requests alone ...
LEMMA RequestNumbers ==
  ASSUME Numbered, UNCHANGED <<reqOut, reqCountI, reqCountO, request, outEp, outSlot, sent>>,
         Executed' = Executed
  PROVE  /\ sent' = Executed' + Pending' + Arrived'
         /\ Arrived' = 1 => request'[outSlot'].no = sent'
         /\ \A k \in 0..Pending'-1 : request'[Ahead(reqOut', k)].no = Executed' + k + 1
<1>1. Pending' = Pending /\ Arrived' = Arrived
  BY DEF Pending, Arrived
<1>2. \A k \in Int : Ahead(reqOut', k) = Ahead(reqOut, k)
  BY DEF Ahead
<1>3. QED BY <1>1, <1>2 DEF Numbered

\* ... and those of the request side the numbers of the responses.
LEMMA ResponseNumbers ==
  ASSUME Numbered, UNCHANGED <<respOut, respCountI, respCountO, response>>, Handed' = Handed
  PROVE  \A k \in 0..Ready'-1 : response'[Ahead(respOut', k)].no = Handed' + k + 1
<1>1. Ready' = Ready
  BY DEF Ready
<1>2. \A k \in Int : Ahead(respOut', k) = Ahead(respOut, k)
  BY DEF Ahead
<1>3. QED BY <1>1, <1>2 DEF Numbered

\* The oldest ready response is handed to the endpoint.
LEMMA HandOver ==
  ASSUME AnsweredInv, configured, inEp = "off", Ready >= 1, SendResponse,
         UNCHANGED <<reqVars, respIn, respCountI, request, response, outVars, sent, got, last>>,
         Popped' = Popped,
         task' \in HasAnswer => task \in HasAnswer
  PROVE  /\ Numbered' /\ Ready' <= Count /\ respIn' = Ahead(respOut', Ready')
         /\ inEp' = "armed" /\ respOut' = NextSlot(inSlot')
<1> USE DEF AnsweredInv
<1>1. /\ inEp' = "armed" /\ inSlot' = respOut /\ respOut' = NextSlot(respOut)
      /\ respCountO' = NextCount(respCountO) /\ UNCHANGED inData
  BY DEF SendResponse, StartWrite
<1>2. Ready' = Ready - 1 /\ Ahead(respOut', Ready - 1) = Ahead(respOut, Ready)
  BY <1>1, ReadyIs, Leave DEF TypeOK, Ready, Answering
<1>3. Flying = 0 /\ Flying' = 1
  BY <1>1 DEF Flying
<1>4. Handed' = Handed + 1 /\ Handed = got /\ got \in Nat
  BY <1>3 DEF Handed, TypeOK
<1>5. Published' = Published
  BY <1>2, <1>4, ReadyIs DEF Published
<1>6. Executed' = Executed
  BY <1>5 DEF Executed
<1>7. ASSUME NEW k \in 0..Ready'-1
      PROVE  response'[Ahead(respOut', k)].no = Handed' + k + 1
  <2>1. k \in Nat /\ k + 1 \in 0..Ready-1 /\ k < Count /\ respOut \in Slots
    BY <1>2, ReadyIs, Constants DEF Answering, TypeOK
  <2>2. Ahead(respOut', k) = Ahead(respOut, k + 1)
    BY <1>1, <2>1, AheadIs
  <2>3. response[Ahead(respOut, k + 1)].no = Handed + (k + 1) + 1
    BY <2>1 DEF Numbered
  <2>4. QED BY <1>4, <2>1, <2>2, <2>3
<1>8. response'[inSlot'].no = got' + 1
  <2>1. 0 \in 0..Ready-1 /\ Ahead(respOut, 0) = respOut
    BY ReadyIs, AheadIs, Constants DEF TypeOK
  <2>2. QED BY <1>1, <1>4, <2>1 DEF Numbered
<1>9. /\ sent' = Executed' + Pending' + Arrived'
      /\ Arrived' = 1 => request'[outSlot'].no = sent'
      /\ \A k \in 0..Pending'-1 : request'[Ahead(reqOut', k)].no = Executed' + k + 1
  BY <1>6, RequestNumbers DEF reqVars, outVars
<1>10. /\ task' \in HasAnswer => response'[respIn'].no = Published' + 1
       /\ sent' - got' <= Window /\ last'.no = got'
  BY <1>5 DEF Numbered, HasAnswer
<1>11. Numbered'
  BY <1>1, <1>7, <1>8, <1>9, <1>10 DEF Numbered, HasAnswer
<1>12. Ready' <= Count /\ respIn' = Ahead(respOut', Ready')
  BY <1>2, ReadyIs, Constants DEF Answering
<1>13. QED BY <1>1, <1>11, <1>12

LEMMA AnswersIsr ==
  ASSUME AnsweredInv, InCallback \/ InSend \/ InIdle \/ LoadFifo
  PROVE  Answering' /\ Numbered'
<1> USE DEF AnsweredInv
<1>1. CASE InCallback
  <2>1. /\ inEp = "done" /\ inEp' = "off"
        /\ isr' = "inSend" => respCountI # respCountO
        /\ UNCHANGED <<reqVars, respVars, request, response, outVars, inSlot, inData,
                       task, sent, got, last>>
    BY <1>1 DEF InCallback, hostVars
  <2>2. Ready' = Ready /\ Ahead(respOut, Ready)' = Ahead(respOut, Ready)
    BY <2>1 DEF Ready, Ahead, respVars
  <2>3. respCountI # respCountO => Ready >= 1
    BY Constants DEF Ready, TypeOK
  <2>4. Answering'
    BY <2>1, <2>2, <2>3 DEF Answering, ResponseToken, respVars
  <2>5. Arrived' = Arrived /\ Popped' = Popped
    BY <2>1 DEF Arrived, Popped, outVars
  <2>6. Numbered'
    BY <2>1, <2>5, NumbersKept DEF Exclusion, reqVars, respVars, outVars
  <2>7. QED BY <2>4, <2>6
<1>2. CASE InSend
  <2>1. /\ isr = "inSend" /\ isr' = "none" /\ SendResponse
        /\ UNCHANGED <<reqVars, respIn, respCountI, respIdle, request, response, outVars,
                       task, sent, got, last>>
    BY <1>2 DEF InSend, hostVars
  <2>2. configured /\ inEp = "off" /\ ~respIdle /\ Ready >= 1
    BY <2>1 DEF Exclusion, Answering, ResponseToken
  <2>3. Popped' = Popped
    BY <2>1 DEF Popped
  <2>4. /\ Numbered' /\ Ready' <= Count /\ respIn' = Ahead(respOut', Ready')
        /\ inEp' = "armed" /\ respOut' = NextSlot(inSlot')
    BY <2>1, <2>2, <2>3, HandOver
  <2>5. Answering'
    BY <2>1, <2>2, <2>4 DEF Answering, ResponseToken
  <2>6. QED BY <2>4, <2>5
<1>3. CASE InIdle
  <2>1. /\ isr = "inIdle" /\ isr' = "none" /\ respIdle' = TRUE
        /\ UNCHANGED <<reqVars, respIn, respOut, respCountI, respCountO, request, response,
                       outVars, inVars, task, sent, got, last>>
    BY <1>3 DEF InIdle, hostVars
  <2>2. Ready' = Ready /\ Ahead(respOut, Ready)' = Ahead(respOut, Ready)
    BY <2>1 DEF Ready, Ahead
  <2>3. Answering'
    BY <2>1, <2>2 DEF Answering, ResponseToken, inVars
  <2>4. Arrived' = Arrived /\ Popped' = Popped
    BY <2>1 DEF Arrived, Popped, outVars
  <2>5. Numbered'
    BY <2>1, <2>4, NumbersKept DEF Exclusion, reqVars, outVars, inVars
  <2>6. QED BY <2>3, <2>5
<1>4. CASE LoadFifo
  <2>1. /\ inEp = "armed" /\ inEp' = "loaded" /\ isr = "none" /\ inData' = response[inSlot]
        /\ UNCHANGED <<reqVars, respVars, request, response, outVars, inSlot, isr, task,
                       sent, got, last>>
    BY <1>4 DEF LoadFifo, hostVars
  <2>2. Ready' = Ready /\ Ahead(respOut, Ready)' = Ahead(respOut, Ready)
    BY <2>1 DEF Ready, Ahead, respVars
  <2>3. Answering'
    BY <2>1, <2>2 DEF Answering, ResponseToken, respVars
  <2>4. Flying' = Flying /\ Popped' = Popped
    BY <2>1 DEF Flying, Popped
  <2>5. Handed' = Handed
    BY <2>1, <2>4 DEF Handed
  <2>6. Published' = Published
    BY <2>2, <2>5 DEF Published
  <2>7. Executed' = Executed
    BY <2>4, <2>6 DEF Executed
  <2>8. /\ sent' = Executed' + Pending' + Arrived'
        /\ Arrived' = 1 => request'[outSlot'].no = sent'
        /\ \A k \in 0..Pending'-1 : request'[Ahead(reqOut', k)].no = Executed' + k + 1
    BY <2>1, <2>7, RequestNumbers DEF reqVars, outVars
  <2>9. \A k \in 0..Ready'-1 : response'[Ahead(respOut', k)].no = Handed' + k + 1
    BY <2>1, <2>5, ResponseNumbers DEF respVars
  <2>10. /\ task' \in HasAnswer => response'[respIn'].no = Published' + 1
         /\ inData'.no = got' + 1 /\ sent' - got' <= Window /\ last'.no = got'
    BY <2>1, <2>6 DEF Numbered, HasAnswer, respVars
  <2>11. Numbered'
    BY <2>1, <2>8, <2>9, <2>10 DEF Numbered, HasAnswer
  <2>12. QED BY <2>3, <2>11
<1>5. QED BY <1>1, <1>2, <1>3, <1>4

LEMMA AnswersHost ==
  ASSUME AnsweredInv, HostSend \/ HostAbort \/ HostReceive
  PROVE  Answering' /\ Numbered'
<1> USE DEF AnsweredInv
<1>1. CASE HostReceive
  <2>1. /\ inEp = "loaded" /\ inEp' = "done" /\ got' = got + 1 /\ last' = inData
        /\ UNCHANGED <<reqVars, respVars, request, response, outVars, inSlot, isr, task, sent>>
    BY <1>1 DEF HostReceive
  <2>2. Ready' = Ready /\ Ahead(respOut, Ready)' = Ahead(respOut, Ready)
    BY <2>1 DEF Ready, Ahead, respVars
  <2>3. Answering'
    BY <2>1, <2>2 DEF Answering, ResponseToken, respVars
  <2>4. Flying = 1 /\ Flying' = 0 /\ Popped' = Popped /\ got \in Nat
    BY <2>1 DEF Flying, Popped, TypeOK
  <2>5. Handed' = Handed
    BY <2>1, <2>4 DEF Handed
  <2>6. Published' = Published
    BY <2>2, <2>5 DEF Published
  <2>7. Executed' = Executed
    BY <2>4, <2>6 DEF Executed
  <2>8. /\ sent' = Executed' + Pending' + Arrived'
        /\ Arrived' = 1 => request'[outSlot'].no = sent'
        /\ \A k \in 0..Pending'-1 : request'[Ahead(reqOut', k)].no = Executed' + k + 1
    BY <2>1, <2>7, RequestNumbers DEF reqVars, outVars
  <2>9. \A k \in 0..Ready'-1 : response'[Ahead(respOut', k)].no = Handed' + k + 1
    BY <2>1, <2>5, ResponseNumbers DEF respVars
  <2>10. task' \in HasAnswer => response'[respIn'].no = Published' + 1
    BY <2>1, <2>6 DEF Numbered, HasAnswer, respVars
  <2>11. sent' - got' <= Window
    BY <2>1, HostAssumption DEF Numbered, TypeOK
  <2>12. last'.no = got'
    BY <2>1 DEF Numbered
  <2>13. Numbered'
    BY <2>1, <2>8, <2>9, <2>10, <2>11, <2>12 DEF Numbered, HasAnswer
  <2>14. QED BY <2>3, <2>13
<1>2. CASE HostSend \/ HostAbort
  <2>1. /\ outEp = "armed" /\ outEp' = "done" /\ outSlot' = outSlot
        /\ UNCHANGED <<reqVars, respVars, response, inVars, isr, task, got, last>>
    BY <1>2 DEF HostSend, HostAbort
  <2>2. PICK p \in Packet : /\ request' = [request EXCEPT ![outSlot] = p]
                            /\ \/ p.kind = "abort" /\ sent' = sent
                               \/ /\ p.kind # "abort" /\ p.no = sent + 1
                                  /\ sent' = sent + 1 /\ sent - got < Window
    <3>1. CASE HostSend
      <4>1. PICK k \in {"command", "queue"} :
              request' = [request EXCEPT ![outSlot] = [kind |-> k, no |-> sent + 1]]
        BY <3>1 DEF HostSend
      <4>2. sent + 1 \in Nat /\ sent' = sent + 1 /\ sent - got < Window
        BY <3>1 DEF HostSend, TypeOK
      <4>3. [kind |-> k, no |-> sent + 1] \in Packet
        BY <4>2, RecordTypes
      <4>4. QED BY <4>1, <4>2, <4>3
    <3>2. CASE HostAbort
      <4>1. [kind |-> "abort", no |-> 0] \in Packet
        BY RecordTypes
      <4>2. QED BY <3>2, <4>1 DEF HostAbort
    <3>3. QED BY <1>2, <3>1, <3>2
  <2>3. Answering'
    BY <2>1, AnsweringKept DEF inVars, Answering, ResponseToken
  <2>4. /\ Ready' = Ready /\ Pending' = Pending /\ Flying' = Flying /\ Popped' = Popped
        /\ Arrived = 0
    BY <2>1 DEF Ready, Pending, Flying, Popped, Arrived, reqVars, respVars, inVars
  <2>5. Handed' = Handed
    BY <2>1, <2>4 DEF Handed
  <2>6. Published' = Published
    BY <2>4, <2>5 DEF Published
  <2>7. Executed' = Executed
    BY <2>4, <2>6 DEF Executed
  <2>8. request'[outSlot'] = p /\ outSlot = Ahead(reqOut, Pending) /\ Pending < Count
    BY <2>1, <2>2 DEF Exclusion, TypeOK
  <2>9. Arrived' = sent' - sent
    BY <2>1, <2>2, <2>8 DEF Arrived, TypeOK
  <2>10. sent' = Executed' + Pending' + Arrived'
    BY <2>4, <2>7, <2>9, <2>2, Places, PendingIs DEF Numbered, TypeOK
  <2>11. Arrived' = 1 => request'[outSlot'].no = sent'
    BY <2>2, <2>8, <2>9 DEF TypeOK
  <2>12. ASSUME NEW k \in 0..Pending'-1
         PROVE  request'[Ahead(reqOut', k)].no = Executed' + k + 1
    <3>1. k \in 0..Pending-1 /\ reqOut' = reqOut /\ reqOut \in Slots
      BY <2>1, <2>4 DEF reqVars, TypeOK
    <3>2. Ahead(reqOut, k) # outSlot
      BY <2>8, <3>1, FreeSlot, PendingIs
    <3>3. request'[Ahead(reqOut, k)] = request[Ahead(reqOut, k)]
      <4>1. Ahead(reqOut, k) \in Slots
        BY <2>8, <3>1, AheadIs, PendingIs, Constants
      <4>2. QED BY <2>2, <3>2, <4>1 DEF TypeOK
    <3>4. QED BY <2>7, <3>1, <3>3 DEF Numbered
  <2>13. \A k \in 0..Ready'-1 : response'[Ahead(respOut', k)].no = Handed' + k + 1
    BY <2>1, <2>5, ResponseNumbers DEF respVars
  <2>14. task' \in HasAnswer => response'[respIn'].no = Published' + 1
    BY <2>1, <2>6 DEF Numbered, HasAnswer, respVars
  <2>15. sent' - got' <= Window
    BY <2>1, <2>2, HostAssumption DEF Numbered, TypeOK
  <2>16. /\ inEp' = "armed" => response'[inSlot'].no = got' + 1
         /\ inEp' = "loaded" => inData'.no = got' + 1
         /\ last'.no = got'
    BY <2>1 DEF Numbered, inVars
  <2>17. Numbered'
    BY <2>10, <2>11, <2>12, <2>13, <2>14, <2>15, <2>16 DEF Numbered, HasAnswer
  <2>18. QED BY <2>3, <2>17
<1>3. QED BY <1>1, <1>2

\* A packet received is counted: what had arrived becomes the last pending one.
LEMMA AnswersOut ==
  ASSUME AnsweredInv, OutCallback
  PROVE  Answering' /\ Numbered'
<1> USE DEF AnsweredInv
<1>1. /\ outEp = "done" /\ outEp' = "off" /\ outSlot = reqIn /\ outSlot' = outSlot
      /\ isr' = "outCheck" /\ Pending < Count
      /\ UNCHANGED <<reqOut, reqCountO, respVars, request, response, inVars, task,
                     sent, got, last>>
  BY DEF OutCallback, Exclusion, hostVars
<1>2. Answering'
  BY <1>1, AnsweringKept DEF inVars, Answering, ResponseToken
<1>3. Popped' = Popped /\ Arrived' = 0
  BY <1>1 DEF Popped, Arrived
<1>4. CASE request[reqIn].kind = "abort"
  <2>1. UNCHANGED <<reqIn, reqCountI>> /\ Arrived = 0
    BY <1>1, <1>4 DEF OutCallback, Arrived
  <2>2. Numbered'
    BY <1>1, <1>3, <2>1, NumbersKept DEF Exclusion, respVars, inVars
  <2>3. QED BY <1>2, <2>2
<1>5. CASE request[reqIn].kind # "abort"
  <2>1. reqIn' = NextSlot(reqIn) /\ reqCountI' = NextCount(reqCountI) /\ Arrived = 1
    BY <1>1, <1>5 DEF OutCallback, Arrived
  <2>2. Pending' = Pending + 1
    BY <1>1, <2>1, PendingIs, Arrive DEF TypeOK, Pending
  <2>3. Ready' = Ready /\ Flying' = Flying
    BY <1>1 DEF Ready, Flying, respVars, inVars
  <2>4. Handed' = Handed
    BY <1>1, <2>3 DEF Handed
  <2>5. Published' = Published
    BY <2>3, <2>4 DEF Published
  <2>6. Executed' = Executed
    BY <1>3, <2>5 DEF Executed
  <2>7. sent' = Executed' + Pending' + Arrived'
    BY <1>1, <1>3, <2>1, <2>2, <2>6, Places, PendingIs DEF Numbered
  <2>8. ASSUME NEW k \in 0..Pending'-1
        PROVE  request'[Ahead(reqOut', k)].no = Executed' + k + 1
    <3>1. Ahead(reqOut', k) = Ahead(reqOut, k) /\ request' = request
      BY <1>1 DEF Ahead
    <3>2. CASE k \in 0..Pending-1
      BY <2>6, <3>1, <3>2 DEF Numbered
    <3>3. CASE k = Pending
      <4>1. request[Ahead(reqOut, k)].no = sent
        BY <1>1, <2>1, <3>3 DEF Numbered, Exclusion
      <4>2. sent = Executed + k + 1
        BY <2>1, <3>3, Places, PendingIs DEF Numbered
      <4>3. QED BY <2>6, <3>1, <4>1, <4>2
    <3>4. k \in 0..Pending-1 \/ k = Pending
      BY <2>2, PendingIs
    <3>5. QED BY <3>2, <3>3, <3>4
  <2>9. \A k \in 0..Ready'-1 : response'[Ahead(respOut', k)].no = Handed' + k + 1
    BY <1>1, <2>4, ResponseNumbers DEF respVars
  <2>10. /\ task' \in HasAnswer => response'[respIn'].no = Published' + 1
         /\ sent' - got' <= Window /\ last'.no = got'
         /\ inEp' = "armed" => response'[inSlot'].no = got' + 1
         /\ inEp' = "loaded" => inData'.no = got' + 1
    BY <1>1, <2>5 DEF Numbered, HasAnswer, respVars, inVars
  <2>11. Numbered'
    BY <1>3, <2>7, <2>8, <2>9, <2>10 DEF Numbered, HasAnswer
  <2>12. QED BY <1>2, <2>11
<1>6. QED BY <1>4, <1>5

\* The answer goes to a slot that holds no response the host has not had.
LEMMA AnswerWritten ==
  ASSUME Window <= Count, AnsweredInv, TaskAnswer
  PROVE  Answering' /\ Numbered'
<1> USE DEF AnsweredInv
<1>1. /\ task = "execute" /\ task' = "pop" /\ Pending >= 1
      /\ response' = [response EXCEPT ![respIn] = [no |-> request[reqOut].no, aborted |-> abort]]
      /\ UNCHANGED <<reqVars, respVars, request, outVars, inVars, isr, sent, got, last>>
  BY DEF TaskAnswer, TaskAt, Exclusion, hostVars
<1>2. Answering'
  BY <1>1, AnsweringKept DEF inVars
<1>3. Flying + Ready < Count
  BY <1>1, Room, Places, ReadyIs, PendingIs, Constants
<1>4. /\ Ready' = Ready /\ Flying' = Flying /\ Popped' = Popped
  BY <1>1 DEF Ready, Flying, Popped, respVars, inVars
<1>5. Handed' = Handed
  BY <1>1, <1>4 DEF Handed
<1>6. Published' = Published
  BY <1>4, <1>5 DEF Published
<1>7. Executed' = Executed
  BY <1>4, <1>6 DEF Executed
<1>8. /\ sent' = Executed' + Pending' + Arrived'
      /\ Arrived' = 1 => request'[outSlot'].no = sent'
      /\ \A k \in 0..Pending'-1 : request'[Ahead(reqOut', k)].no = Executed' + k + 1
  BY <1>1, <1>7, RequestNumbers DEF reqVars, outVars
<1>9. response'[respIn'].no = Published' + 1
  <2>1. Ahead(reqOut, 0) = reqOut /\ 0 \in 0..Pending-1
    BY <1>1, PendingIs, AheadIs, Constants DEF TypeOK
  <2>2. request[reqOut].no = Executed + 0 + 1
    BY <2>1 DEF Numbered
  <2>3. Executed = Published
    BY <1>1, Places DEF Executed, Popped
  <2>4. response'[respIn'].no = request[reqOut].no
    BY <1>1 DEF respVars, TypeOK
  <2>5. QED BY <1>6, <2>2, <2>3, <2>4, Places
<1>10. ASSUME NEW k \in 0..Ready'-1
       PROVE  response'[Ahead(respOut', k)].no = Handed' + k + 1
  <2>1. k \in 0..Ready-1 /\ respOut \in Slots /\ respOut' = respOut /\ Ready < Count
    BY <1>1, <1>3, <1>4, Places, ReadyIs, Constants DEF respVars, TypeOK
  <2>2. Ahead(respOut, k) # respIn
    BY <2>1, FreeSlot, ReadyIs DEF Answering
  <2>3. Ahead(respOut, k) \in Slots
    BY <2>1, AheadIs, ReadyIs, Constants
  <2>4. response'[Ahead(respOut, k)] = response[Ahead(respOut, k)]
    BY <1>1, <2>2, <2>3 DEF TypeOK
  <2>5. QED BY <1>5, <2>1, <2>4 DEF Numbered
<1>11. inEp' = "armed" => response'[inSlot'].no = got' + 1
  <2> SUFFICES ASSUME inEp = "armed" PROVE response'[inSlot].no = got + 1
    BY <1>1 DEF inVars
  <2>1. Ready \in Nat /\ Ready < Count - 1 /\ inSlot \in Slots /\ respOut = NextSlot(inSlot)
    BY <1>3, ReadyIs, Constants DEF Flying, Answering, TypeOK
  <2>2. respIn # inSlot
    BY <2>1, SlotBehind DEF Answering
  <2>3. response'[inSlot] = response[inSlot]
    BY <1>1, <2>1, <2>2 DEF TypeOK
  <2>4. QED BY <2>3 DEF Numbered
<1>12. /\ sent' - got' <= Window /\ last'.no = got'
       /\ inEp' = "loaded" => inData'.no = got' + 1
  BY <1>1 DEF Numbered, inVars
<1>13. Numbered'
  BY <1>8, <1>9, <1>10, <1>11, <1>12 DEF Numbered
<1>14. QED BY <1>2, <1>13

\* The request leaves its slot; its answer waits, written and not published.
LEMMA AnswersPop ==
  ASSUME AnsweredInv, TaskPop
  PROVE  Answering' /\ Numbered'
<1> USE DEF AnsweredInv
<1>1. /\ task = "pop" /\ task' = "requestIdle" /\ Pending >= 1 /\ Pending <= Count
      /\ reqOut' = NextSlot(reqOut) /\ reqCountO' = NextCount(reqCountO)
      /\ UNCHANGED <<reqIn, reqCountI, respVars, request, response, outVars, inVars, isr,
                     sent, got, last>>
  BY DEF TaskPop, TaskAt, Exclusion, hostVars
<1>2. Answering'
  BY <1>1, AnsweringKept DEF inVars
<1>3. Pending' = Pending - 1
  BY <1>1, PendingIs, Leave DEF TypeOK, Pending
<1>4. /\ Ready' = Ready /\ Flying' = Flying /\ Arrived' = Arrived
      /\ Popped = 0 /\ Popped' = 1
  BY <1>1 DEF Ready, Flying, Arrived, Popped, respVars, inVars, outVars
<1>5. Handed' = Handed
  BY <1>1, <1>4 DEF Handed
<1>6. Published' = Published
  BY <1>4, <1>5 DEF Published
<1>7. Executed' = Executed + 1
  BY <1>4, <1>6, Places DEF Executed
<1>8. sent' = Executed' + Pending' + Arrived'
  BY <1>1, <1>3, <1>4, <1>7, Places, PendingIs DEF Numbered
<1>9. Arrived' = 1 => request'[outSlot'].no = sent'
  BY <1>1, <1>4 DEF Numbered, outVars
<1>10. ASSUME NEW k \in 0..Pending'-1
       PROVE  request'[Ahead(reqOut', k)].no = Executed' + k + 1
  <2>1. k \in Nat /\ k < Count /\ k + 1 \in 0..Pending-1 /\ reqOut \in Slots
    BY <1>1, <1>3, PendingIs, Constants DEF TypeOK
  <2>2. Ahead(reqOut', k) = Ahead(reqOut, k + 1)
    BY <1>1, <2>1, AheadIs
  <2>3. request[Ahead(reqOut, k + 1)].no = Executed + (k + 1) + 1
    BY <2>1 DEF Numbered
  <2>4. Executed + (k + 1) + 1 = Executed' + k + 1
    BY <1>7, <2>1, Places
  <2>5. QED BY <1>1, <2>2, <2>3, <2>4
<1>11. \A k \in 0..Ready'-1 : response'[Ahead(respOut', k)].no = Handed' + k + 1
  BY <1>1, <1>5, ResponseNumbers DEF respVars
<1>12. /\ response'[respIn'].no = Published' + 1
       /\ sent' - got' <= Window /\ last'.no = got'
       /\ inEp' = "armed" => response'[inSlot'].no = got' + 1
       /\ inEp' = "loaded" => inData'.no = got' + 1
  BY <1>1, <1>6 DEF Numbered, respVars, inVars
<1>13. Numbered'
  BY <1>8, <1>9, <1>10, <1>11, <1>12 DEF Numbered
<1>14. QED BY <1>2, <1>13

\* The answer is published: the last ready response is the one just written.
LEMMA AnswersPublish ==
  ASSUME Window <= Count, AnsweredInv, TaskPublish
  PROVE  Answering' /\ Numbered'
<1> USE DEF AnsweredInv
<1>1. /\ task = "publish" /\ task' = "responseIdle"
      /\ respIn' = NextSlot(respIn) /\ respCountI' = NextCount(respCountI)
      /\ UNCHANGED <<reqVars, respOut, respCountO, respIdle, request, response, outVars,
                     inVars, isr, sent, got, last>>
  BY DEF TaskPublish, TaskAt, hostVars
<1>2. Popped = 1 /\ Popped' = 0
  BY <1>1 DEF Popped
<1>3. Ready < Count
  BY <1>2, Room, Places, ReadyIs, PendingIs, Constants
<1>4. Ready' = Ready + 1 /\ respIn' = Ahead(respOut, Ready + 1)
  BY <1>1, <1>3, ReadyIs, Arrive DEF TypeOK, Ready, Answering
<1>5. respIn' = Ahead(respOut', Ready') /\ Ready' <= Count
  BY <1>1, <1>3, <1>4, ReadyIs, Constants
<1>6. Answering'
  <2>1. isr' = "inSend" => Ready' >= 1
    BY <1>4, ReadyIs
  <2>2. QED BY <1>1, <1>5, <2>1 DEF Answering, ResponseToken, inVars
<1>7. Flying' = Flying
  BY <1>1 DEF Flying, inVars
<1>8. Handed' = Handed
  BY <1>1, <1>7 DEF Handed
<1>9. Published' = Published + 1
  BY <1>4, <1>8, Places, ReadyIs DEF Published
<1>10. Executed' = Executed
  BY <1>2, <1>9, Places DEF Executed
<1>11. /\ sent' = Executed' + Pending' + Arrived'
       /\ Arrived' = 1 => request'[outSlot'].no = sent'
       /\ \A k \in 0..Pending'-1 : request'[Ahead(reqOut', k)].no = Executed' + k + 1
  BY <1>1, <1>10, RequestNumbers DEF reqVars, outVars
<1>12. ASSUME NEW k \in 0..Ready'-1
       PROVE  response'[Ahead(respOut', k)].no = Handed' + k + 1
  <2>1. Ahead(respOut', k) = Ahead(respOut, k) /\ response' = response
    BY <1>1 DEF Ahead
  <2>2. CASE k \in 0..Ready-1
    BY <1>8, <2>1, <2>2 DEF Numbered
  <2>3. CASE k = Ready
    BY <1>1, <1>8, <2>1, <2>3 DEF Numbered, Answering, Published
  <2>4. k \in 0..Ready-1 \/ k = Ready
    BY <1>4, ReadyIs
  <2>5. QED BY <2>2, <2>3, <2>4
<1>13. /\ sent' - got' <= Window /\ last'.no = got'
       /\ inEp' = "armed" => response'[inSlot'].no = got' + 1
       /\ inEp' = "loaded" => inData'.no = got' + 1
  BY <1>1 DEF Numbered, inVars
<1>14. Numbered'
  BY <1>1, <1>11, <1>12, <1>13 DEF Numbered
<1>15. QED BY <1>6, <1>14

LEMMA AnswersSend ==
  ASSUME AnsweredInv, TaskSend
  PROVE  Answering' /\ Numbered'
<1> USE DEF AnsweredInv
<1>1. /\ task = "send" /\ task' = "look" /\ respIdle /\ inEp = "off" /\ configured
      /\ isr \notin {"inSend", "inIdle"}
      /\ UNCHANGED <<reqVars, respIn, respCountI, request, response, outVars, isr,
                     sent, got, last>>
  <2>1. task = "send" /\ respIdle
    BY DEF TaskSend, TaskAt, Answering, ResponseToken
  <2>2. configured
    BY TaskConfigured DEF Task, ReqInv
  <2>3. QED BY <2>1, <2>2 DEF TaskSend, Answering, ResponseToken, hostVars
<1>2. Popped' = Popped
  BY <1>1 DEF Popped
<1>3. CASE respCountI # respCountO
  <2>1. respIdle' = FALSE /\ SendResponse
    BY <1>3 DEF TaskSend
  <2>2. Ready >= 1
    BY <1>3, Constants DEF Ready, TypeOK
  <2>3. task' \in HasAnswer => task \in HasAnswer
    BY <1>1 DEF HasAnswer
  <2>4. /\ Numbered' /\ Ready' <= Count /\ respIn' = Ahead(respOut', Ready')
        /\ inEp' = "armed" /\ respOut' = NextSlot(inSlot')
    BY <1>1, <1>2, <2>1, <2>2, <2>3, HandOver
  <2>5. Answering'
    BY <1>1, <2>1, <2>4 DEF Answering, ResponseToken
  <2>6. QED BY <2>4, <2>5
<1>4. CASE respCountI = respCountO
  <2>1. UNCHANGED <<respVars, inVars>>
    BY <1>1, <1>4 DEF TaskSend, respVars
  <2>2. Arrived' = Arrived
    BY <1>1 DEF Arrived, outVars
  <2>3. task' # "send" /\ task' \notin HasAnswer
    BY <1>1 DEF HasAnswer
  <2>4. QED BY <1>1, <1>2, <2>1, <2>2, <2>3, BothKept DEF reqVars, outVars
<1>5. QED BY <1>3, <1>4

LEMMA AnswersInit == Init => Answering /\ Numbered
<1> SUFFICES ASSUME Init PROVE Answering /\ Numbered
  OBVIOUS
<1>1. Ready = 0 /\ Pending = 0 /\ Flying = 0 /\ Popped = 0 /\ Arrived = 0
  BY DEF Init, Ready, Pending, Flying, Popped, Arrived
<1>2. Executed = 0
  BY <1>1 DEF Init, Executed, Published, Handed
<1>3. Answering
  BY <1>1, Constants DEF Init, Answering, ResponseToken, Ahead
<1>4. Numbered
  BY <1>1, <1>2, HostAssumption DEF Init, Numbered, NoAnswer
<1>5. QED BY <1>3, <1>4

LEMMA AnswersNext ==
  ASSUME Window <= Count, AnsweredInv, [Next]_vars, resets' = 0
  PROVE  Answering' /\ Numbered'
<1>1. ~BusReset
  BY NoResets DEF AnsweredInv
<1>2. CASE Isr
  BY <1>2, AnswersQuiet, AnswersIsr, AnswersOut DEF Isr
<1>3. CASE Task
  BY <1>3, AnswersQuiet, AnswerWritten, AnswersPop, AnswersPublish, AnswersSend DEF Task
<1>4. CASE Host
  BY <1>1, <1>4, AnswersQuiet, AnswersHost DEF Host
<1>5. CASE UNCHANGED vars
  BY <1>5, AnswersQuiet
<1>6. QED BY <1>2, <1>3, <1>4, <1>5 DEF Next

\* dap_main.c 274-287, 410-428: a response is in the endpoint, or a handler looks
\* for the next, or the idle flag is set, and each place a request passes
\* through holds the numbers that follow those further on; the host keeps at
\* most DAP_PACKET_COUNT requests unanswered, as DAP_Info tells it.
THEOREM ResponseSide ==
  ASSUME Window <= Count
  PROVE  Spec => []AnswerInv
<1>1. Init => AnswerInv
  BY AnswersInit DEF AnswerInv
<1>2. TypeOK /\ RequestInv /\ AnswerInv /\ [Next]_vars => AnswerInv'
  BY AnswersNext, NoResets DEF AnsweredInv, RequestInv, AnswerInv
<1>3. QED BY <1>1, <1>2, TypeCorrect, RequestSide, PTL DEF Spec

\* The host is answered in the order of its requests, once each, with the answer
\* to that request, for any number of slots, any width of the counters and
\* whatever cores the interrupt and the task run on, as long as the bus is not reset.
THEOREM InOrder ==
  ASSUME Window <= Count
  PROVE  Spec => []AnswersInOrder
<1>1. TypeOK /\ AnswerInv => AnswersInOrder
  <2> SUFFICES ASSUME TypeOK, Numbered PROVE last.no = got /\ got <= sent
    BY DEF AnswerInv, AnswersInOrder
  <2>1. sent = got + Flying + Ready + Popped + Pending + Arrived
    BY Places, ReadyIs, PendingIs DEF Numbered, Executed, Published, Handed, TypeOK
  <2>2. QED BY <2>1, Places, ReadyIs, PendingIs DEF Numbered, TypeOK
<1>2. QED BY <1>1, TypeCorrect, ResponseSide, PTL

LEMMA TokenNext == ASSUME ResponseToken, [Next]_vars PROVE ResponseToken'
<1> USE DEF ResponseToken
<1>1. CASE \/ OutCallback \/ OutCheck \/ OutArm \/ OutIdle
           \/ TaskLook \/ TaskConvert \/ TaskExecute \/ TaskAnswer \/ TaskPop
           \/ TaskRequestIdle \/ TaskRearm \/ TaskPublish \/ TaskResponseIdle
           \/ HostSend \/ HostAbort \/ Configured \/ UNCHANGED vars
  <2>1. /\ UNCHANGED <<respIdle, inEp>>
        /\ isr' \in {"inSend", "inIdle"} => isr' = isr
        /\ task' = "send" => respIdle
    BY <1>1 DEF OutCallback, OutCheck, OutArm, OutIdle, TaskLook, TaskConvert, TaskExecute,
       TaskAnswer, TaskPop, TaskRequestIdle, TaskRearm, TaskPublish, TaskResponseIdle, HostSend,
       HostAbort, Configured, vars, respVars, inVars
  <2>2. QED BY <2>1
<1>2. CASE LoadFifo \/ HostReceive \/ InCallback
  <2>1. UNCHANGED <<respIdle, task>> /\ inEp # "off"
    BY <1>2 DEF LoadFifo, HostReceive, InCallback, respVars
  <2>2. (isr' = isr /\ ~InCallback) \/ inEp' = "off"
    BY <1>2 DEF LoadFifo, HostReceive, InCallback
  <2>3. QED BY <2>1, <2>2
<1>3. CASE InSend
  BY <1>3 DEF InSend
<1>4. CASE InIdle
  BY <1>4 DEF InIdle, inVars
<1>5. CASE TaskSend
  <2>1. /\ task = "send" /\ task' = "look" /\ isr' = isr
        /\ respIdle' = FALSE \/ UNCHANGED <<respIdle, inEp>>
    BY <1>5 DEF TaskSend, TaskAt, inVars
  <2>2. QED BY <2>1
<1>6. CASE BusReset
  BY <1>6 DEF BusReset, respVars
<1>7. QED BY <1>1, <1>2, <1>3, <1>4, <1>5, <1>6 DEF Next, Isr, Task, Host

\* A response is handed to the IN endpoint only when it is free: no transfer
\* under way is started anew, whatever the host sends and whenever it resets the bus.
THEOREM OneWrite == Spec => OneWriteAtATime
<1>1. Init => ResponseToken
  BY DEF Init, ResponseToken
<1>2. ResponseToken /\ [Next]_vars => [respCountO' # respCountO => inEp = "off"]_vars
  <2> SUFFICES ASSUME ResponseToken, [Next]_vars, respCountO' # respCountO
               PROVE  inEp = "off"
    OBVIOUS
  <2>1. InSend \/ TaskSend
    BY DEF Next, Isr, Task, Host, OutCallback, OutCheck, OutArm, OutIdle, InCallback, InIdle,
       LoadFifo, TaskLook, TaskConvert, TaskExecute, TaskAnswer, TaskPop, TaskRequestIdle,
       TaskRearm, TaskPublish, TaskResponseIdle, HostSend, HostAbort, HostReceive, BusReset,
       Configured, respVars, vars
  <2>2. QED BY <2>1 DEF InSend, TaskSend, TaskAt, ResponseToken
<1>3. QED BY <1>1, <1>2, TokenNext, PTL DEF Spec, OneWriteAtATime

-----------------------------------------------------------------------------
(* QueueCommands packets are converted before they are executed.           *)

\* The request at hand is not a queue packet once the scan has passed it.
Converted == /\ task = "scan" => scan = reqOut \/ request[reqOut].kind # "queue"
             /\ task = "execute" => request[reqOut].kind # "queue"

LEMMA ConvertedNext == ASSUME ReqInv, Converted, [Next]_vars PROVE Converted'
<1> USE DEF ReqInv
<1>1. CASE HostSend \/ HostAbort
  <2>1. UNCHANGED <<task, scan, reqOut>> /\ outEp # "off"
    BY <1>1 DEF HostSend, HostAbort, reqVars
  <2>2. PICK p : request' = [request EXCEPT ![outSlot] = p]
    BY <1>1 DEF HostSend, HostAbort
  <2>3. ASSUME task \in {"scan", "execute"} PROVE request'[reqOut] = request[reqOut]
    <3>1. Pending >= 1 /\ outSlot = Ahead(reqOut, Pending) /\ Pending < Count
      BY <2>1, <2>3 DEF Exclusion
    <3>2. reqOut \in Slots /\ 0 \in 0..Pending-1 /\ Ahead(reqOut, 0) = reqOut
      BY <3>1, PendingIs, AheadIs, Constants DEF TypeOK
    <3>3. outSlot # reqOut
      BY <3>1, <3>2, FreeSlot, PendingIs
    <3>4. QED BY <2>2, <3>2, <3>3 DEF TypeOK
  <2>4. QED BY <2>1, <2>3 DEF Converted
<1>2. CASE TaskConvert
  <2>1. /\ task = "scan" /\ task' = "scan" /\ reqOut' = reqOut
        /\ request' = [request EXCEPT ![scan].kind = "execute"]
    BY <1>2 DEF TaskConvert, TaskAt, reqVars
  <2>2. request'[reqOut].kind # "queue"
    <3>1. reqOut \in Slots /\ scan \in Slots /\ request[scan] \in Packet
      BY DEF TypeOK
    <3>2. CASE scan = reqOut
      BY <2>1, <3>1, <3>2 DEF TypeOK, Packet
    <3>3. CASE scan # reqOut
      BY <2>1, <3>1, <3>3 DEF TypeOK, Converted
    <3>4. QED BY <3>2, <3>3
  <2>3. QED BY <2>1, <2>2 DEF Converted
<1>3. CASE TaskLook
  BY <1>3 DEF TaskLook, Converted, reqVars
<1>4. CASE TaskExecute
  BY <1>4 DEF TaskExecute, TaskAt, Converted, reqVars
<1>5. CASE \/ OutCallback \/ OutCheck \/ OutArm \/ OutIdle \/ InCallback \/ InSend \/ InIdle
           \/ LoadFifo \/ HostReceive \/ BusReset \/ Configured \/ UNCHANGED vars
  <2>1. UNCHANGED <<task, scan, reqOut, request>>
    BY <1>5 DEF OutCallback, OutCheck, OutArm, OutIdle, InCallback, InSend, InIdle, LoadFifo,
       HostReceive, BusReset, Configured, vars, reqVars
  <2>2. QED BY <2>1 DEF Converted
<1>6. CASE \/ TaskAnswer \/ TaskPop \/ TaskRequestIdle \/ TaskRearm \/ TaskPublish
           \/ TaskResponseIdle \/ TaskSend
  <2>1. task' \notin {"scan", "execute"}
    BY <1>6 DEF TaskAnswer, TaskPop, TaskRequestIdle, TaskRearm, TaskPublish,
       TaskResponseIdle, TaskSend
  <2>2. QED BY <2>1 DEF Converted
<1>7. QED BY <1>1, <1>2, <1>3, <1>4, <1>5, <1>6 DEF Next, Isr, Task, Host

\* dap_main.c 379-390: ID_DAP_QueueCommands never reaches DAP_ExecuteCommand, not
\* even when every slot holds such a packet and the scan comes round, or the
\* next one arrives meanwhile, as long as the bus is not reset.
THEOREM AllConverted == Spec => []QueueConverted
<1>1. Init => (resets = 0 => Converted)
  BY DEF Init, Converted
<1>2. TypeOK /\ RequestInv /\ (resets = 0 => Converted) /\ [Next]_vars
        => (resets = 0 => Converted)'
  BY ConvertedNext, NoResets DEF ReqInv, RequestInv
<1>3. (resets = 0 => Converted) => QueueConverted
  BY DEF Converted, QueueConverted
<1>4. QED BY <1>1, <1>2, <1>3, TypeCorrect, RequestSide, PTL DEF Spec

-----------------------------------------------------------------------------
(* An abort never ends a transfer sent after it.                           *)

\* Every answer that says it was aborted is that of a request sent before.
Timely ==
  /\ aborted <= sent
  /\ outEp = "done" /\ request[outSlot].kind = "abort" => aborted = sent
  /\ task = "execute" /\ abort => request[reqOut].no <= aborted
  /\ \A s \in Slots : response[s].aborted => response[s].no <= aborted
  /\ inData.aborted => inData.no <= aborted
  /\ last.aborted => last.no <= aborted

\* The request being executed has been sent, and no packet overwrites it.
LEMMA AtHand ==
  ASSUME AnsweredInv, task = "execute"
  PROVE  /\ reqOut \in Slots /\ request[reqOut].no <= sent
         /\ outEp # "off" => outSlot # reqOut
<1> USE DEF AnsweredInv
<1>1. Pending >= 1 /\ Pending <= Count
  BY DEF Exclusion
<1>2. reqOut \in Slots /\ 0 \in 0..Pending-1 /\ Ahead(reqOut, 0) = reqOut
  BY <1>1, PendingIs, AheadIs, Constants DEF TypeOK
<1>3. request[reqOut].no = Executed + 0 + 1
  BY <1>2 DEF Numbered
<1>4. request[reqOut].no <= sent
  BY <1>1, <1>3, Places, PendingIs DEF Numbered
<1>5. ASSUME outEp # "off" PROVE outSlot # reqOut
  <2>1. outSlot = Ahead(reqOut, Pending) /\ Pending < Count
    BY <1>5 DEF Exclusion
  <2>2. QED BY <1>2, <2>1, FreeSlot, PendingIs
<1>6. QED BY <1>2, <1>4, <1>5

LEMMA TimelyNext ==
  ASSUME AnsweredInv, Timely, [Next]_vars, ~BusReset PROVE Timely'
<1> USE DEF AnsweredInv
<1>1. CASE HostSend
  <2>1. /\ outEp = "armed" /\ outSlot' = outSlot /\ sent' = sent + 1
        /\ UNCHANGED <<reqOut, task, abort, response, inData, last, aborted>>
    BY <1>1 DEF HostSend, reqVars, inVars
  <2>2. PICK k \in {"command", "queue"} :
          request' = [request EXCEPT ![outSlot] = [kind |-> k, no |-> sent + 1]]
    BY <1>1 DEF HostSend
  <2>3. request'[outSlot'].kind # "abort"
    BY <2>1, <2>2 DEF TypeOK
  <2>4. task = "execute" => request'[reqOut] = request[reqOut]
    BY <2>1, <2>2, AtHand DEF TypeOK
  <2>5. aborted' <= sent'
    BY <2>1 DEF Timely, TypeOK
  <2>6. QED BY <2>1, <2>3, <2>4, <2>5 DEF Timely
<1>2. CASE HostAbort
  <2>1. /\ outEp = "armed" /\ outSlot' = outSlot /\ aborted' = sent
        /\ request' = [request EXCEPT ![outSlot] = [kind |-> "abort", no |-> 0]]
        /\ UNCHANGED <<reqOut, task, abort, response, inData, last, sent>>
    BY <1>2 DEF HostAbort, reqVars, inVars
  <2>2. task = "execute" => request'[reqOut] = request[reqOut]
    BY <2>1, AtHand DEF TypeOK
  <2>3. task' = "execute" => request'[reqOut'].no <= aborted'
    BY <2>1, <2>2, AtHand
  <2>4. aborted <= aborted' /\ aborted \in Nat /\ aborted' \in Nat
    BY <2>1 DEF Timely, TypeOK
  <2>5. ASSUME NEW a \in Answer, a.aborted => a.no <= aborted
        PROVE  a.aborted => a.no <= aborted'
    BY <2>4, <2>5 DEF Answer
  <2>6. \A s \in Slots : response'[s].aborted => response'[s].no <= aborted'
    BY <2>1, <2>5 DEF Timely, TypeOK
  <2>7. /\ inData'.aborted => inData'.no <= aborted'
        /\ last'.aborted => last'.no <= aborted'
    BY <2>1, <2>5 DEF Timely, TypeOK
  <2>8. aborted' <= sent'
    BY <2>1 DEF TypeOK
  <2>9. QED BY <2>1, <2>3, <2>6, <2>7, <2>8 DEF Timely
<1>3. CASE OutCallback
  <2>1. /\ outEp = "done" /\ outEp' = "off" /\ outSlot = reqIn
        /\ UNCHANGED <<reqOut, task, request, response, inData, last, sent, aborted>>
    BY <1>3 DEF OutCallback, inVars, hostVars, Exclusion
  <2>2. CASE request[reqIn].kind = "abort"
    <3>1. aborted = sent
      BY <2>1, <2>2 DEF Timely
    <3>2. QED BY <2>1, <3>1, AtHand DEF Timely
  <2>3. CASE request[reqIn].kind # "abort"
    <3>1. UNCHANGED abort
      BY <1>3, <2>3 DEF OutCallback
    <3>2. QED BY <2>1, <3>1 DEF Timely
  <2>4. QED BY <2>2, <2>3
<1>4. CASE TaskConvert
  <2>1. /\ task = "scan" /\ task' = "scan"
        /\ request' = [request EXCEPT ![scan].kind = "execute"]
        /\ UNCHANGED <<outEp, outSlot, response, inData, last, sent, aborted>>
    BY <1>4 DEF TaskConvert, TaskAt, outVars, inVars, hostVars
  <2>2. request'[outSlot].kind = "abort" => request[outSlot].kind = "abort"
    BY <2>1 DEF TypeOK, Packet
  <2>3. QED BY <2>1, <2>2 DEF Timely
<1>5. CASE TaskAnswer
  <2>1. /\ task = "execute" /\ task' = "pop"
        /\ response' = [response EXCEPT ![respIn] =
                          [no |-> request[reqOut].no, aborted |-> abort]]
        /\ UNCHANGED <<request, outEp, outSlot, inData, last, sent, aborted>>
    BY <1>5 DEF TaskAnswer, TaskAt, outVars, inVars, hostVars
  <2>2. ASSUME NEW s \in Slots PROVE response'[s].aborted => response'[s].no <= aborted
    <3>1. CASE s = respIn
      BY <2>1, <3>1 DEF Timely, TypeOK
    <3>2. CASE s # respIn
      BY <2>1, <3>2 DEF Timely, TypeOK
    <3>3. QED BY <3>1, <3>2
  <2>3. QED BY <2>1, <2>2 DEF Timely
<1>6. CASE TaskExecute
  <2>1. /\ abort' = FALSE
        /\ UNCHANGED <<request, outEp, outSlot, response, inData, last, sent, aborted>>
    BY <1>6 DEF TaskExecute, outVars, inVars, hostVars
  <2>2. QED BY <2>1 DEF Timely
<1>7. CASE LoadFifo
  <2>1. /\ inData' = response[inSlot] /\ inSlot \in Slots
        /\ UNCHANGED <<reqOut, task, abort, request, outEp, outSlot, response, last, sent,
                       aborted>>
    BY <1>7 DEF LoadFifo, reqVars, outVars, hostVars, TypeOK
  <2>2. QED BY <2>1 DEF Timely
<1>8. CASE HostReceive
  <2>1. /\ last' = inData
        /\ UNCHANGED <<reqOut, task, abort, request, outEp, outSlot, response, inData, sent,
                       aborted>>
    BY <1>8 DEF HostReceive, reqVars, outVars
  <2>2. QED BY <2>1 DEF Timely
<1>9. CASE \/ OutCheck \/ OutArm \/ OutIdle \/ InCallback \/ InSend \/ InIdle
           \/ TaskLook \/ TaskPop \/ TaskRequestIdle \/ TaskRearm \/ TaskPublish
           \/ TaskResponseIdle \/ TaskSend \/ Configured \/ UNCHANGED vars
  <2>1. UNCHANGED <<request, abort, response, inData, last, sent, aborted>>
    BY <1>9 DEF OutCheck, OutArm, OutIdle, InCallback, InSend, InIdle, SendResponse,
       StartWrite, TaskLook, TaskPop, TaskRequestIdle, TaskRearm, TaskPublish,
       TaskResponseIdle, TaskSend, Configured, vars, inVars, hostVars
  <2>2. outEp' = "done" => UNCHANGED <<outEp, outSlot>>
    BY <1>9 DEF OutCheck, OutArm, OutIdle, InCallback, InSend, InIdle, TaskLook, TaskPop,
       TaskRequestIdle, TaskRearm, TaskPublish, TaskResponseIdle, TaskSend, Configured,
       StartRead, vars, outVars
  <2>3. task' = "execute" => UNCHANGED <<task, reqOut>>
    BY <1>9 DEF OutCheck, OutArm, OutIdle, InCallback, InSend, InIdle, TaskLook, TaskPop,
       TaskRequestIdle, TaskRearm, TaskPublish, TaskResponseIdle, TaskSend, Configured,
       vars, reqVars
  <2>4. QED BY <2>1, <2>2, <2>3 DEF Timely
<1>10. QED BY <1>1, <1>2, <1>3, <1>4, <1>5, <1>6, <1>7, <1>8, <1>9 DEF Next, Isr, Task, Host

LEMMA AlwaysTimely ==
  ASSUME Window <= Count
  PROVE  Spec => [](resets = 0 => Timely)
<1>1. Init => (resets = 0 => Timely)
  BY DEF Init, Timely, NoAnswer, NoPacket
<1>2. TypeOK /\ RequestInv /\ AnswerInv /\ (resets = 0 => Timely) /\ [Next]_vars
        => (resets = 0 => Timely)'
  BY TimelyNext, NoResets DEF AnsweredInv, RequestInv, AnswerInv
<1>3. QED BY <1>1, <1>2, TypeCorrect, RequestSide, ResponseSide, PTL DEF Spec

\* dap_main.c 257-258, DAP.c: an abort ends at most a transfer the host sent
\* before it, whatever the interrupt and the task interleave: the flag is cleared
\* when a transfer starts, and a set flag belongs to a request already sent.
THEOREM AbortsEarlier ==
  ASSUME Window <= Count
  PROVE  Spec => []AbortsOnlyEarlier
<1>1. (resets = 0 => Timely) => AbortsOnlyEarlier
  BY DEF Timely, AbortsOnlyEarlier
<1>2. QED BY <1>1, AlwaysTimely, PTL

-----------------------------------------------------------------------------
(* What the host sees.                                                     *)

\* The handlers and the task do nothing the host sees before it has the answer.
LEMMA Invisible ==
  ASSUME Isr \/ Task \/ Configured \/ UNCHANGED vars
  PROVE  UNCHANGED <<sent, got, last, aborted, resets>>
  BY DEF Isr, OutCallback, OutCheck, OutArm, OutIdle, InCallback, InSend, InIdle, LoadFifo,
     Task, TaskLook, TaskConvert, TaskExecute, TaskAnswer, TaskPop, TaskRequestIdle,
     TaskRearm, TaskPublish, TaskResponseIdle, TaskSend, Configured, vars, hostVars

\* The answer in the FIFO is that of the oldest unanswered request.
LEMMA ReceiveReplies ==
  ASSUME TypeOK, Numbered, Timely, resets = 0, HostReceive PROVE Server!Reply
<1>1. /\ inEp = "loaded" /\ got' = got + 1 /\ last' = inData
      /\ UNCHANGED <<sent, aborted, resets>>
  BY DEF HostReceive
<1>2. inData.no = got + 1 /\ inData \in Answer /\ got \in Nat
  BY <1>1 DEF Numbered, TypeOK
<1>3. got < sent
  <2>1. sent = got + Flying + Ready + Popped + Pending + Arrived
    BY Places, ReadyIs, PendingIs DEF Numbered, Executed, Published, Handed, TypeOK
  <2>2. QED BY <1>1, <1>2, <2>1, Places, ReadyIs, PendingIs DEF Flying
<1>4. /\ inData.aborted \in BOOLEAN
      /\ last' = [no |-> got + 1, aborted |-> inData.aborted]
  BY <1>1, <1>2 DEF Answer
<1>5. inData.aborted => got + 1 <= aborted
  BY <1>2 DEF Timely
<1>6. QED BY <1>1, <1>3, <1>4, <1>5 DEF Server!Reply

LEMMA StepServes ==
  ASSUME TypeOK, resets = 0 => Numbered /\ Timely, [Next]_vars
  PROVE  [Server!Next]_(Server!vars)
<1>1. CASE Isr \/ Task \/ Configured \/ UNCHANGED vars
  BY <1>1, Invisible DEF Server!vars
<1>2. CASE HostSend
  <2>1. Server!Ask
    BY <1>2 DEF HostSend, Server!Ask
  <2>2. QED BY <2>1 DEF Server!Next
<1>3. CASE HostAbort
  <2>1. Server!Abort
    BY <1>3 DEF HostAbort, Server!Abort
  <2>2. QED BY <2>1 DEF Server!Next
<1>4. CASE HostReceive
  <2>1. CASE resets = 0
    BY <1>4, <2>1, ReceiveReplies DEF Server!Next
  <2>2. CASE resets # 0
    <3>1. /\ got' = got + 1 /\ last' \in [no : Nat, aborted : BOOLEAN] /\ resets > 0
          /\ UNCHANGED <<sent, aborted, resets>>
      BY <1>4, <2>2 DEF HostReceive, TypeOK, Answer
    <3>2. Server!ReplyLate
      BY <3>1 DEF Server!ReplyLate
    <3>3. QED BY <3>2 DEF Server!Next
  <2>3. QED BY <2>1, <2>2
<1>5. CASE BusReset
  <2>1. Server!Reset
    BY <1>5 DEF BusReset, Server!Reset
  <2>2. QED BY <2>1 DEF Server!Next
<1>6. QED BY <1>1, <1>2, <1>3, <1>4, <1>5 DEF Next, Host

\* dap_main.c: for any number of slots, any width of the counters, on one core
\* or two, the pipeline is to its host a server that answers each request once,
\* in order and with its own answer, until the bus is reset.
THEOREM Serves ==
  ASSUME Window <= Count
  PROVE  Spec => ServerSpec
<1>1. Init => Server!Init
  BY DEF Init, Server!Init, NoAnswer
<1>2. /\ TypeOK /\ RequestInv /\ AnswerInv /\ (resets = 0 => Timely) /\ [Next]_vars
      => [Server!Next]_(Server!vars)
  BY StepServes DEF AnswerInv
<1>3. Spec => [](resets = 0 => Timely)
  BY AlwaysTimely
<1>4. QED BY <1>1, <1>2, <1>3, TypeCorrect, RequestSide, ResponseSide,
             PTL DEF Spec, ServerSpec, Server!Spec
=============================================================================
