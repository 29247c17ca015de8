----------------------------- MODULE DapPackets -----------------------------
(***************************************************************************)
(* The CMSIS-DAP packet pipeline of dap_main.c.  The USB interrupt fills   *)
(* request slots and sends response slots; cherry_dap_task executes the    *)
(* requests.  The two share free-running counters and two idle flags,      *)
(* without a lock.  An interrupt handler is split where it reads or writes *)
(* what the task writes, and so is the task: with OneCore the task stands  *)
(* still during a handler, otherwise the two run on different cores.       *)
(*                                                                         *)
(* The host and the endpoint hardware behave as usb_dc_dwc2.c drives them: *)
(* a packet goes to the armed slot, a response is copied out of its slot   *)
(* when the FIFO is empty, each completion is one callback.                *)
(***************************************************************************)
EXTENDS Integers

CONSTANTS Count,      \* DAP_PACKET_COUNT
          Wrap,       \* the counters are uint16_t: 2^16
          Window,     \* requests a host keeps unanswered (DAP_Info reports Count)
          OneCore,    \* TRUE: the task never runs during an interrupt handler
          MaxPackets, MaxAborts, MaxResets   \* bounds on what the host does

ASSUME CountAssumption == Count \in Nat /\ Count >= 1
ASSUME WrapAssumption == Wrap \in Nat /\ Wrap > Count
ASSUME HostAssumption == /\ OneCore \in BOOLEAN
                         /\ Window \in Nat
                         /\ MaxPackets \in Nat /\ MaxAborts \in Nat /\ MaxResets \in Nat

Slots == 0..Count-1

Packet == [kind : {"command", "queue", "execute", "abort"}, no : Nat]
Answer == [no : Nat, aborted : BOOLEAN]

VARIABLES
  reqIn, reqOut, reqCountI, reqCountO, reqIdle,        \* USB_Request...
  respIn, respOut, respCountI, respCountO, respIdle,   \* USB_Response...
  request, response,     \* the slots
  abort,                 \* DAP_TransferAbort
  configured,            \* the endpoints are open
  outEp, outSlot,        \* the OUT endpoint: off, armed, done; where it stores
  inEp, inSlot, inData,  \* the IN endpoint: off, armed, loaded, done; its FIFO
  isr,                   \* where the interrupt handler stands
  task, scan,            \* where the task stands; its local n
  sent, got, last,       \* the host: packets sent, answered, the last answer
  aborted,               \* the packets sent when it last sent an abort
  aborts, resets         \* counted against their bounds

reqVars  == <<reqIn, reqOut, reqCountI, reqCountO, reqIdle>>
respVars == <<respIn, respOut, respCountI, respCountO, respIdle>>
outVars  == <<outEp, outSlot>>
inVars   == <<inEp, inSlot, inData>>
hostVars == <<sent, got, last, aborted, aborts, resets>>
vars == <<reqVars, respVars, request, response, abort, configured, outVars, inVars,
          isr, task, scan, hostVars>>

NoPacket == [kind |-> "command", no |-> 0]
NoAnswer == [no |-> 0, aborted |-> FALSE]

Init ==
  /\ reqIn = 0 /\ reqOut = 0 /\ reqCountI = 0 /\ reqCountO = 0 /\ reqIdle = TRUE
  /\ respIn = 0 /\ respOut = 0 /\ respCountI = 0 /\ respCountO = 0 /\ respIdle = TRUE
  /\ request = [s \in Slots |-> NoPacket] /\ response = [s \in Slots |-> NoAnswer]
  /\ abort = FALSE /\ configured = FALSE
  /\ outEp = "off" /\ outSlot = 0
  /\ inEp = "off" /\ inSlot = 0 /\ inData = NoAnswer
  /\ isr = "none" /\ task = "look" /\ scan = 0
  /\ sent = 0 /\ got = 0 /\ last = NoAnswer /\ aborted = 0 /\ aborts = 0 /\ resets = 0

-----------------------------------------------------------------------------
NextSlot(s)  == IF s + 1 = Count THEN 0 ELSE s + 1
NextCount(c) == IF c + 1 = Wrap THEN 0 ELSE c + 1

\* (uint16_t)(CountI - CountO)
Pending == IF reqCountI >= reqCountO THEN reqCountI - reqCountO
                                     ELSE reqCountI - reqCountO + Wrap
Ready   == IF respCountI >= respCountO THEN respCountI - respCountO
                                       ELSE respCountI - respCountO + Wrap

\* The slot k places after s.
Ahead(s, k) == IF s + k >= Count THEN s + k - Count ELSE s + k

\* usbd_ep_start_read, usbd_ep_start_write: refused while the endpoint is closed.
StartRead(s) == IF configured THEN outEp' = "armed" /\ outSlot' = s
                              ELSE UNCHANGED outVars
StartWrite(s) == /\ IF configured THEN inEp' = "armed" /\ inSlot' = s
                                  ELSE UNCHANGED <<inEp, inSlot>>
                 /\ UNCHANGED inData

\* Hand the oldest unsent response to the IN endpoint.
SendResponse == /\ StartWrite(respOut)
                /\ respOut' = NextSlot(respOut)
                /\ respCountO' = NextCount(respCountO)

-----------------------------------------------------------------------------
(* The host and the hardware.                                              *)

HostSend ==
  /\ outEp = "armed" /\ sent < MaxPackets /\ sent - got < Window
  /\ \E k \in {"command", "queue"} :
       request' = [request EXCEPT ![outSlot] = [kind |-> k, no |-> sent + 1]]
  /\ sent' = sent + 1 /\ outEp' = "done"
  /\ UNCHANGED <<reqVars, respVars, response, abort, configured, outSlot, inVars,
                 isr, task, scan, got, last, aborted, aborts, resets>>

HostAbort ==
  /\ outEp = "armed" /\ aborts < MaxAborts
  /\ request' = [request EXCEPT ![outSlot] = [kind |-> "abort", no |-> 0]]
  /\ aborts' = aborts + 1 /\ aborted' = sent /\ outEp' = "done"
  /\ UNCHANGED <<reqVars, respVars, response, abort, configured, outSlot, inVars,
                 isr, task, scan, sent, got, last, resets>>

\* TXFE: the interrupt copies the slot into the FIFO.
LoadFifo ==
  /\ inEp = "armed" /\ isr = "none"
  /\ inData' = response[inSlot] /\ inEp' = "loaded"
  /\ UNCHANGED <<reqVars, respVars, request, response, abort, configured, outVars,
                 inSlot, isr, task, scan, hostVars>>

HostReceive ==
  /\ inEp = "loaded"
  /\ got' = got + 1 /\ last' = inData /\ inEp' = "done"
  /\ UNCHANGED <<reqVars, respVars, request, response, abort, configured, outVars,
                 inSlot, inData, isr, task, scan, sent, aborted, aborts, resets>>

-----------------------------------------------------------------------------
(* The interrupt: dap_out_callback, dap_in_callback, usbd_event_handler.   *)

OutCallback ==
  /\ isr = "none" /\ outEp = "done"
  /\ outEp' = "off" /\ isr' = "outCheck"
  /\ IF request[reqIn].kind = "abort"
     THEN abort' = TRUE /\ UNCHANGED <<reqIn, reqCountI>>
     ELSE reqIn' = NextSlot(reqIn) /\ reqCountI' = NextCount(reqCountI) /\ UNCHANGED abort
  /\ UNCHANGED <<reqOut, reqCountO, reqIdle, respVars, request, response, configured,
                 outSlot, inVars, task, scan, hostVars>>

\* Mutant: the next read is started without looking for a free slot.
OutCheckNothing ==
  /\ isr = "outCheck"
  /\ isr' = "outArm"
  /\ UNCHANGED <<reqVars, respVars, request, response, abort, configured, outVars,
                 inVars, task, scan, hostVars>>

OutCheck ==
  /\ isr = "outCheck"
  /\ isr' = IF Pending # Count THEN "outArm" ELSE "outIdle"
  /\ UNCHANGED <<reqVars, respVars, request, response, abort, configured, outVars,
                 inVars, task, scan, hostVars>>

OutArm ==
  /\ isr = "outArm" /\ isr' = "none"
  /\ StartRead(reqIn)
  /\ UNCHANGED <<reqVars, respVars, request, response, abort, configured, inVars,
                 task, scan, hostVars>>

OutIdle ==
  /\ isr = "outIdle" /\ isr' = "none"
  /\ reqIdle' = TRUE
  /\ UNCHANGED <<reqIn, reqOut, reqCountI, reqCountO, respVars, request, response,
                 abort, configured, outVars, inVars, task, scan, hostVars>>

\* Mutant: a response that became ready during the transfer is not looked for.
InCallbackIdle ==
  /\ isr = "none" /\ inEp = "done"
  /\ inEp' = "off"
  /\ isr' = "inIdle"
  /\ UNCHANGED <<reqVars, respVars, request, response, abort, configured, outVars,
                 inSlot, inData, task, scan, hostVars>>

InCallback ==
  /\ isr = "none" /\ inEp = "done"
  /\ inEp' = "off"
  /\ isr' = IF respCountI # respCountO THEN "inSend" ELSE "inIdle"
  /\ UNCHANGED <<reqVars, respVars, request, response, abort, configured, outVars,
                 inSlot, inData, task, scan, hostVars>>

InSend ==
  /\ isr = "inSend" /\ isr' = "none"
  /\ SendResponse
  /\ UNCHANGED <<reqVars, respIn, respCountI, respIdle, request, response, abort,
                 configured, outVars, task, scan, hostVars>>

InIdle ==
  /\ isr = "inIdle" /\ isr' = "none"
  /\ respIdle' = TRUE
  /\ UNCHANGED <<reqVars, respIn, respOut, respCountI, respCountO, request, response,
                 abort, configured, outVars, inVars, task, scan, hostVars>>

\* USBD_EVENT_RESET: the endpoints are closed, what they held is lost, and the
\* host starts over.  None of the packet variables is touched.
BusReset ==
  /\ isr = "none" /\ configured /\ resets < MaxResets
  /\ configured' = FALSE /\ outEp' = "off" /\ inEp' = "off"
  /\ resets' = resets + 1 /\ got' = sent /\ last' = [no |-> sent, aborted |-> FALSE]
  /\ UNCHANGED <<reqVars, respVars, request, response, abort, outSlot, inSlot, inData,
                 isr, task, scan, sent, aborted, aborts>>

\* USBD_EVENT_CONFIGURED
Configured ==
  /\ isr = "none" /\ ~configured
  /\ configured' = TRUE /\ reqIdle' = FALSE
  /\ outEp' = "armed" /\ outSlot' = 0
  /\ UNCHANGED <<reqIn, reqOut, reqCountI, reqCountO, respVars, request, response,
                 abort, inVars, isr, task, scan, hostVars>>

-----------------------------------------------------------------------------
(* The task: one pass of the outer loop of chry_dap_handle.                *)

TaskAt(pc) == task = pc /\ (OneCore => isr = "none")

TaskLook ==
  /\ TaskAt("look")
  /\ reqCountI # reqCountO
  /\ scan' = reqOut /\ task' = "scan"
  /\ UNCHANGED <<reqVars, respVars, request, response, abort, configured, outVars,
                 inVars, isr, hostVars>>

\* QueueCommands packets become ExecuteCommands, from slot n on.
TaskConvert ==
  /\ TaskAt("scan") /\ request[scan].kind = "queue"
  /\ request' = [request EXCEPT ![scan].kind = "execute"]
  /\ scan' = NextSlot(scan)
  /\ UNCHANGED <<reqVars, respVars, response, abort, configured, outVars, inVars,
                 isr, task, hostVars>>

\* DAP_ExecuteCommand starts: a transfer clears the abort flag first.
\* Mutant: a transfer does not clear the abort flag when it starts.
TaskExecuteKeepAbort ==
  /\ TaskAt("scan") /\ request[scan].kind # "queue"
  /\ task' = "execute"
  /\ UNCHANGED <<reqVars, respVars, request, response, abort, configured, outVars,
                 inVars, isr, scan, hostVars>>

\* Mutant: the requests are not looked at before the first is executed.
TaskExecuteUnconverted ==
  /\ TaskAt("scan")
  /\ abort' = FALSE /\ task' = "execute"
  /\ UNCHANGED <<reqVars, respVars, request, response, configured, outVars, inVars,
                 isr, scan, hostVars>>

TaskExecute ==
  /\ TaskAt("scan") /\ request[scan].kind # "queue"
  /\ abort' = FALSE /\ task' = "execute"
  /\ UNCHANGED <<reqVars, respVars, request, response, configured, outVars, inVars,
                 isr, scan, hostVars>>

\* ... and ends, having polled the flag, with its answer in the response slot.
\* Mutant: the answer goes to the slot that is sent next.
TaskAnswerWrongSlot ==
  /\ TaskAt("execute")
  /\ response' = [response EXCEPT ![respOut] =
                    [no |-> request[reqOut].no, aborted |-> abort]]
  /\ task' = "pop"
  /\ UNCHANGED <<reqVars, respVars, request, abort, configured, outVars, inVars,
                 isr, scan, hostVars>>

TaskAnswer ==
  /\ TaskAt("execute")
  /\ response' = [response EXCEPT ![respIn] =
                    [no |-> request[reqOut].no, aborted |-> abort]]
  /\ task' = "pop"
  /\ UNCHANGED <<reqVars, respVars, request, abort, configured, outVars, inVars,
                 isr, scan, hostVars>>

TaskPop ==
  /\ TaskAt("pop")
  /\ reqOut' = NextSlot(reqOut) /\ reqCountO' = NextCount(reqCountO)
  /\ task' = "requestIdle"
  /\ UNCHANGED <<reqIn, reqCountI, reqIdle, respVars, request, response, abort,
                 configured, outVars, inVars, isr, scan, hostVars>>

TaskRequestIdle ==
  /\ TaskAt("requestIdle")
  /\ task' = IF reqIdle THEN "rearm" ELSE "publish"
  /\ UNCHANGED <<reqVars, respVars, request, response, abort, configured, outVars,
                 inVars, isr, scan, hostVars>>

\* Mutant: the task leaves the next read to the interrupt.
TaskRearmNever ==
  /\ TaskAt("rearm") /\ task' = "publish"
  /\ UNCHANGED <<reqVars, respVars, request, response, abort, configured, outVars,
                 inVars, isr, scan, hostVars>>

TaskRearm ==
  /\ TaskAt("rearm") /\ task' = "publish"
  /\ IF Pending # Count THEN reqIdle' = FALSE /\ StartRead(reqIn)
                        ELSE UNCHANGED <<reqIdle, outVars>>
  /\ UNCHANGED <<reqIn, reqOut, reqCountI, reqCountO, respVars, request, response,
                 abort, configured, inVars, isr, scan, hostVars>>

TaskPublish ==
  /\ TaskAt("publish")
  /\ respIn' = NextSlot(respIn) /\ respCountI' = NextCount(respCountI)
  /\ task' = "responseIdle"
  /\ UNCHANGED <<reqVars, respOut, respCountO, respIdle, request, response, abort,
                 configured, outVars, inVars, isr, scan, hostVars>>

\* Mutant: a response is sent whether or not one is in flight.
TaskResponseAlways ==
  /\ TaskAt("responseIdle")
  /\ task' = "send"
  /\ UNCHANGED <<reqVars, respVars, request, response, abort, configured, outVars,
                 inVars, isr, scan, hostVars>>

TaskResponseIdle ==
  /\ TaskAt("responseIdle")
  /\ task' = IF respIdle THEN "send" ELSE "look"
  /\ UNCHANGED <<reqVars, respVars, request, response, abort, configured, outVars,
                 inVars, isr, scan, hostVars>>

TaskSend ==
  /\ TaskAt("send") /\ task' = "look"
  /\ IF respCountI # respCountO THEN respIdle' = FALSE /\ SendResponse
     ELSE UNCHANGED <<respIdle, respOut, respCountO, inVars>>
  /\ UNCHANGED <<reqVars, respIn, respCountI, request, response, abort, configured,
                 outVars, isr, scan, hostVars>>

-----------------------------------------------------------------------------
Isr == \/ OutCallback \/ OutCheck \/ OutArm \/ OutIdle
       \/ InCallback \/ InSend \/ InIdle \/ LoadFifo

Task == \/ TaskLook \/ TaskConvert \/ TaskExecute \/ TaskAnswer \/ TaskPop
        \/ TaskRequestIdle \/ TaskRearm \/ TaskPublish \/ TaskResponseIdle \/ TaskSend

Host == HostSend \/ HostAbort \/ HostReceive \/ BusReset \/ Configured

Next == Isr \/ Task \/ Host

Spec == Init /\ [][Next]_vars

\* Interrupts are served, the task's loop never stops, and a host that waits
\* for an answer keeps polling the endpoint and configures a device it reset.
Fairness == /\ WF_vars(Isr) /\ WF_vars(Task)
            /\ WF_vars(HostReceive) /\ WF_vars(Configured)

FairSpec == Spec /\ Fairness

-----------------------------------------------------------------------------
TypeOK ==
  /\ reqIn \in Slots /\ reqOut \in Slots /\ respIn \in Slots /\ respOut \in Slots
  /\ reqCountI \in 0..Wrap-1 /\ reqCountO \in 0..Wrap-1
  /\ respCountI \in 0..Wrap-1 /\ respCountO \in 0..Wrap-1
  /\ reqIdle \in BOOLEAN /\ respIdle \in BOOLEAN
  /\ request \in [Slots -> Packet] /\ response \in [Slots -> Answer]
  /\ abort \in BOOLEAN /\ configured \in BOOLEAN
  /\ outEp \in {"off", "armed", "done"} /\ outSlot \in Slots
  /\ inEp \in {"off", "armed", "loaded", "done"} /\ inSlot \in Slots /\ inData \in Answer
  /\ isr \in {"none", "outCheck", "outArm", "outIdle", "inSend", "inIdle"}
  /\ task \in {"look", "scan", "execute", "pop", "requestIdle", "rearm", "publish",
               "responseIdle", "send"}
  /\ scan \in Slots
  /\ sent \in Nat /\ got \in Nat /\ last \in Answer
  /\ aborted \in Nat /\ aborts \in Nat /\ resets \in Nat

\* dap_main.c never holds more requests than it has slots, unless the bus is
\* reset with requests pending.
BufferBound == resets = 0 => Pending <= Count

\* The slot the endpoint may write to is none of the pending ones, so a request
\* that waits or is being executed is never overwritten by the next packet,
\* unless the bus has been reset.
ReceivesIntoFreeSlot ==
  resets = 0 /\ outEp # "off" => \A k \in 0..Pending-1 : outSlot # Ahead(reqOut, k)

\* The host is answered in the order of its requests, once each, with the
\* answer to that request: no response slot is overwritten before it is sent.
\* After a bus reset the answer to a request from before it may still arrive.
AnswersInOrder == resets = 0 => last.no = got /\ got <= sent

\* An abort ends a transfer the host had already sent, never a later one, unless
\* the bus has been reset: dap_out_callback then looks at slot USB_RequestIndexI
\* while the endpoint stores into slot 0, and may take an old packet for an abort.
AbortsOnlyEarlier == resets = 0 /\ last.aborted => last.no <= aborted

\* A packet of kind QueueCommands never reaches the interpreter, which would
\* answer that it does not know the command, unless the bus has been reset while
\* a request was pending, when the next packet may overwrite it.
QueueConverted == resets = 0 /\ task = "execute" => request[reqOut].kind # "queue"

\* A response is handed to the IN endpoint only when it is free.
OneWriteAtATime == [][respCountO' # respCountO => inEp = "off"]_vars

\* With one slot, as shipped, reception is stopped while a command runs: an
\* abort cannot arrive in time to stop it.
OneSlotNeverAborts == Count = 1 /\ resets = 0 => ~last.aborted

\* Why the request side works: with no bus reset, an OUT transfer, an interrupt
\* handler about to start one and the idle flag exclude each other, and who has
\* that token has seen a free slot.
OutHandler == {"outCheck", "outArm", "outIdle"}

Exclusion ==
  /\ Pending <= Count /\ reqIn = Ahead(reqOut, Pending)
  /\ outEp # "off" => outSlot = reqIn /\ Pending < Count
  /\ isr = "outArm" => Pending < Count
  /\ isr \in OutHandler => outEp = "off" /\ ~reqIdle
  /\ reqIdle /\ configured => outEp = "off"
  /\ task = "rearm" => reqIdle /\ configured
  /\ task \in {"scan", "execute", "pop"} => Pending >= 1
  /\ ~configured => /\ Pending = 0 /\ reqIn = 0 /\ outEp = "off" /\ inEp = "off"
                    /\ isr = "none" /\ task = "look"

\* The request side keeps its order for as long as the bus is not reset.
RequestInv == resets = 0 => Exclusion

\* Why the response side works: a response in the IN endpoint, an interrupt
\* handler that looks for the next one, and the idle flag exclude each other,
\* also across a bus reset; the ready responses are the slots before respIn.
ResponseToken ==
  /\ isr \in {"inSend", "inIdle"} => inEp = "off" /\ ~respIdle
  /\ respIdle => inEp = "off"
  /\ task = "send" => respIdle

Answering ==
  /\ ResponseToken
  /\ Ready <= Count /\ respIn = Ahead(respOut, Ready)
  /\ isr = "inSend" => Ready >= 1
  /\ inEp # "off" => respOut = NextSlot(inSlot)

\* Where a request is, from the host's hand back to it: received but not
\* counted, pending, done but its answer not published, ready, in the endpoint.
Arrived   == IF outEp = "done" /\ request[outSlot].kind # "abort" THEN 1 ELSE 0
Popped    == IF task \in {"requestIdle", "rearm", "publish"} THEN 1 ELSE 0
Flying    == IF inEp \in {"armed", "loaded"} THEN 1 ELSE 0
Handed    == got + Flying
Published == Handed + Ready
Executed  == Published + Popped

\* Each place holds the numbers that follow those of the places after it.
Numbered ==
  /\ sent = Executed + Pending + Arrived /\ sent - got <= Window
  /\ Arrived = 1 => request[outSlot].no = sent
  /\ \A k \in 0..Pending-1 : request[Ahead(reqOut, k)].no = Executed + k + 1
  /\ task \in {"pop", "requestIdle", "rearm", "publish"} => response[respIn].no = Published + 1
  /\ \A k \in 0..Ready-1 : response[Ahead(respOut, k)].no = Handed + k + 1
  /\ inEp = "armed" => response[inSlot].no = got + 1
  /\ inEp = "loaded" => inData.no = got + 1
  /\ last.no = got

\* The response side keeps its order for as long as the bus is not reset.
AnswerInv == resets = 0 => Answering /\ Numbered

\* What the host sees of USB_Request, USB_Response and the task is a server that
\* answers in order, each request once; for a host that keeps no more requests
\* unanswered than there are slots.
Server == INSTANCE PacketServer
ServerSpec == Server!Spec

\* The endpoint is armed again after every packet.
ReceptionResumes == (configured /\ outEp = "off") ~> (outEp = "armed")

\* The callback and the task leave the next response to each other, by a flag. With
\* the task on the other core both may leave it (lines 277 to 286 and 417), but the
\* flag is not lost: with the endpoint free and no handler at work on it, the flag
\* is up, so that the next response to be published takes the one left with it.
HandOverKept ==
  resets = 0 /\ inEp = "off" /\ isr \notin {"inSend", "inIdle"} => respIdle

\* Every request is answered, unless the bus has been reset meanwhile or before:
\* a reset that drops a response in the endpoint leaves respIdle FALSE, and no
\* response leaves after it.
EveryRequestAnswered ==
  \A k \in 1..MaxPackets : (sent >= k) ~> (got >= k \/ resets > 0)
=============================================================================
