------------------------------ MODULE CdcBridge ------------------------------
(***************************************************************************)
(* The serial port on USB: dap_main.c and usb2uart.c.                      *)
(*                                                                         *)
(* From the host: the USB interrupt stores each packet in the ring g_usbrx *)
(* (a queue here: RingBufferProofs shows that it is one) and arms the      *)
(* next read when another packet fits, or raises usbrx_idle_flag; the task *)
(* empties the ring into the UART and arms the read again.                 *)
(*                                                                         *)
(* From the target: the task moves what the UART driver holds into one     *)
(* buffer, dtmp, and starts a USB write from it; the interrupt loads the   *)
(* endpoint's FIFO from that buffer packet by packet.  The driver may hold *)
(* more than the buffer: the rest is written, and sent, from the memory    *)
(* behind it, which is somebody else's.  g_uartrx is never written in this *)
(* build and usbtx_idle_flag guards nothing else.                          *)
(*                                                                         *)
(* Bytes are numbered in the order they were sent, 0 is a cleared byte.    *)
(***************************************************************************)
EXTENDS Integers, Sequences

CONSTANTS
  Mps,        \* DAP_PACKET_SIZE, the endpoints' packet size (64)
  Cap,        \* CONFIG_USBRX_RINGBUF_SIZE, a power of two
  RxCap,      \* CONFIG_UARTRX_RINGBUF_SIZE, what the UART driver holds (8192)
  BufSize,    \* RD_BUF_SIZE, the size of dtmp (1024)
  OneCore,    \* TRUE: the task never runs during an interrupt handler
  Limits      \* bounds: bytes of the host, bytes of the UART, bus resets

ASSUME SizesAssumption ==
  Mps \in Nat \ {0} /\ Cap \in Nat /\ Cap >= Mps /\ RxCap \in Nat /\ BufSize \in Nat
ASSUME BoundsAssumption ==
  OneCore \in BOOLEAN /\ Limits \subseteq [host : Nat, uart : Nat, resets : Nat]

VARIABLES
  configured,   \* the endpoints are open
  transferOn,   \* config_uart_transfer
  uartIdle,     \* uarttx_idle_flag
  rxIdle,       \* usbrx_idle_flag
  ring,         \* g_usbrx: the bytes in it
  outPos,       \* where in the pool its first byte is
  outEp, tmp,   \* CDC OUT: off, armed, done; usb_tmpbuffer
  rx, events,   \* the UART driver: bytes received, its event queue
  dtmp,         \* RxCap bytes of memory, of which the first BufSize are the
                \*   buffer of the writes and the rest is somebody else's
  inEp, xferLen, loaded, fifo,   \* CDC IN: off, armed, done; the transfer; its FIFO
  isr,          \* where the interrupt handler stands
  task, size,   \* where the task stands; the length of its chunk
  sent, resets, \* bytes the host has sent; bus resets
  written,      \* the last byte of the host that went to the UART
  uartIn,       \* bytes the UART has received
  got,          \* the last byte of the UART that the host has read
  overlapped,   \* observation: a write was started while one was in progress
  torn,         \* observation: dtmp was changed while it was being sent
  dropped,      \* observation: bytes of the UART were flushed or refused
  overrun,      \* observation: more was read from the UART than dtmp holds
  limit         \* the bounds of this behaviour

outVars == <<ring, outPos, outEp, tmp, rxIdle, uartIdle, sent, written>>
inVars  == <<rx, events, dtmp, inEp, xferLen, loaded, fifo, uartIn, got, overlapped,
             torn, dropped, overrun>>
busVars == <<configured, transferOn, resets, limit>>
vars == <<outVars, inVars, busVars, isr, task, size>>

Least(a, b) == IF a <= b THEN a ELSE b
Upto(s, n) == SubSeq(s, 1, Least(n, Len(s)))
After(s, n) == SubSeq(s, n + 1, Len(s))
\* The bytes from a + 1 to b.
Bytes(a, b) == [i \in 1 .. b - a |-> a + i]

Room == Cap - Len(ring)

Init ==
  /\ limit \in Limits
  /\ configured = FALSE /\ transferOn = FALSE
  /\ uartIdle = FALSE /\ rxIdle = FALSE
  /\ ring = <<>> /\ outPos = 0 /\ outEp = "off" /\ tmp = <<>>
  /\ rx = <<>> /\ events = [data |-> 0, full |-> FALSE]
  /\ dtmp = [i \in 1 .. RxCap |-> 0]
  /\ inEp = "off" /\ xferLen = 0 /\ loaded = 0 /\ fifo = <<>>
  /\ isr = "none" /\ task = "events" /\ size = 0
  /\ sent = 0 /\ resets = 0 /\ written = 0
  /\ uartIn = 0 /\ got = 0
  /\ overlapped = FALSE /\ torn = FALSE /\ dropped = FALSE /\ overrun = FALSE

\* usbd_ep_start_read, usbd_ep_start_write: refused while the endpoint is
\* closed, and not refused while a transfer is in progress.
StartRead == outEp' = IF configured THEN "armed" ELSE outEp

StartWrite(n) ==
  IF configured
  THEN /\ inEp' = "armed" /\ xferLen' = n /\ loaded' = 0
       /\ overlapped' = (overlapped \/ inEp # "off")
       /\ fifo' \in {fifo, <<>>} /\ UNCHANGED dropped
  ELSE /\ dropped' = (dropped \/ n > 0)
       /\ UNCHANGED <<inEp, xferLen, loaded, fifo, overlapped>>

-----------------------------------------------------------------------------
(* The host, the endpoints' hardware, the UART. *)

HostSend ==
  /\ outEp = "armed"
  /\ \E n \in 1 .. Least(Mps, limit.host - sent) :
       tmp' = Bytes(sent, sent + n) /\ sent' = sent + n
  /\ outEp' = "done"
  /\ UNCHANGED <<ring, outPos, rxIdle, uartIdle, written, inVars, busVars,
                 isr, task, size>>

\* TXFE: the next packet of the transfer, from the buffer as it is now.
LoadFifo ==
  /\ inEp = "armed" /\ isr = "none" /\ fifo = <<>> /\ loaded < xferLen
  /\ LET n == Least(Mps, xferLen - loaded)
     IN  fifo' = SubSeq(dtmp, loaded + 1, loaded + n) /\ loaded' = loaded + n
  /\ UNCHANGED <<outVars, rx, events, dtmp, inEp, xferLen, uartIn, got, overlapped,
                 torn, dropped, overrun, busVars, isr, task, size>>

HostRead ==
  /\ inEp = "armed" /\ (fifo # <<>> \/ loaded = xferLen)
  /\ got' = IF fifo = <<>> THEN got ELSE fifo[Len(fifo)]
  /\ fifo' = <<>>
  /\ inEp' = IF loaded = xferLen THEN "done" ELSE "armed"
  /\ UNCHANGED <<outVars, rx, events, dtmp, xferLen, loaded, uartIn, overlapped,
                 torn, dropped, overrun, busVars, isr, task, size>>

\* A burst is received: one event.  When the driver's buffer is full, bytes
\* are lost in the UART's FIFO, with another event.
UartReceive ==
  \E n \in 1 .. limit.uart - uartIn :
    /\ uartIn' = uartIn + n
    /\ IF Len(rx) + n <= RxCap
       THEN /\ rx' = rx \o Bytes(uartIn, uartIn + n)
            /\ events' = [events EXCEPT !.data = @ + 1]
            /\ UNCHANGED dropped
       ELSE events' = [events EXCEPT !.full = TRUE] /\ dropped' = TRUE /\ UNCHANGED rx
    /\ UNCHANGED <<outVars, dtmp, inEp, xferLen, loaded, fifo, got, overlapped, torn,
                   overrun, busVars, isr, task, size>>

\* Whoever owns the memory behind dtmp writes to it; 0 stands for any value that is
\* not one of the UART's.  What the overrun does to the owner is not followed.
OwnerWrites ==
  /\ \E i \in DOMAIN dtmp : i > BufSize /\ dtmp[i] # 0 /\ dtmp' = [dtmp EXCEPT ![i] = 0]
  /\ UNCHANGED <<outVars, rx, events, inEp, xferLen, loaded, fifo, uartIn, got, overlapped,
                 torn, dropped, overrun, busVars, isr, task, size>>

-----------------------------------------------------------------------------
(* The interrupt. *)

\* usbd_cdc_acm_bulk_out: chry_ringbuffer_write takes what fits.
BulkOut ==
  /\ isr = "none" /\ outEp = "done"
  /\ outEp' = "off" /\ isr' = "outCheck"
  /\ ring' = ring \o Upto(tmp, Room)
  /\ UNCHANGED <<outPos, tmp, rxIdle, uartIdle, sent, written, inVars, busVars, task, size>>

\* Mutant: one byte of room is enough.
OutCheckAnyRoom ==
  /\ isr = "outCheck"
  /\ isr' = IF Room > 0 THEN "outArm" ELSE "outIdle"
  /\ UNCHANGED <<outVars, inVars, busVars, task, size>>

OutCheck ==
  /\ isr = "outCheck"
  /\ isr' = IF Room >= Mps THEN "outArm" ELSE "outIdle"
  /\ UNCHANGED <<outVars, inVars, busVars, task, size>>

OutArm ==
  /\ isr = "outArm" /\ isr' = "none"
  /\ StartRead
  /\ UNCHANGED <<ring, outPos, tmp, rxIdle, uartIdle, sent, written, inVars,
                 busVars, task, size>>

\* Mutant: the flag is not raised.
OutIdleSilent ==
  /\ isr = "outIdle" /\ isr' = "none"
  /\ UNCHANGED <<outVars, inVars, busVars, task, size>>

OutIdle ==
  /\ isr = "outIdle" /\ isr' = "none"
  /\ rxIdle' = TRUE
  /\ UNCHANGED <<ring, outPos, outEp, tmp, uartIdle, sent, written, inVars,
                 busVars, task, size>>

\* usbd_cdc_acm_bulk_in: a transfer of whole packets is ended by an empty one.
BulkIn ==
  /\ isr = "none" /\ inEp = "done"
  /\ inEp' = "off"
  /\ isr' = IF xferLen > 0 /\ xferLen % Mps = 0 THEN "zlp" ELSE "none"
  /\ UNCHANGED <<outVars, rx, events, dtmp, xferLen, loaded, fifo, uartIn, got,
                 overlapped, torn, dropped, overrun, busVars, task, size>>

SendZlp ==
  /\ isr = "zlp" /\ isr' = "none"
  /\ StartWrite(0)
  /\ UNCHANGED <<outVars, rx, events, dtmp, uartIn, got, torn, overrun, busVars, task, size>>

\* USBD_EVENT_RESET: the ring keeps its bytes, what the endpoints held is lost.
BusReset ==
  /\ isr = "none" /\ configured /\ resets < limit.resets
  /\ configured' = FALSE /\ transferOn' = FALSE /\ resets' = resets + 1
  /\ uartIdle' = FALSE /\ rxIdle' = FALSE
  /\ outEp' = "off" /\ inEp' = "off" /\ fifo' = <<>>
  /\ dropped' = (dropped \/ inEp = "armed")
  /\ UNCHANGED <<ring, outPos, tmp, sent, written, rx, events, dtmp, xferLen, loaded,
                 uartIn, got, overlapped, torn, overrun, limit, isr, task, size>>

\* USBD_EVENT_CONFIGURED: reception starts without looking for room.
Configured ==
  /\ isr = "none" /\ ~configured
  /\ configured' = TRUE /\ transferOn' = TRUE /\ uartIdle' = TRUE
  /\ outEp' = "armed"
  /\ UNCHANGED <<ring, outPos, tmp, rxIdle, sent, written, inVars, resets, limit,
                 isr, task, size>>

-----------------------------------------------------------------------------
(* The task: uart_event_task, then chry_dap_usb2uart_handle. *)

\* On one core an interrupt that is pending is served first.
Pending == \/ isr # "none" \/ outEp = "done" \/ inEp = "done"
           \/ inEp = "armed" /\ fifo = <<>> /\ loaded < xferLen
TaskAt(pc) == task = pc /\ (OneCore => ~Pending)
Goto(pc) == task' = pc

\* The buffer is cleared or filled: what is still to be sent from it changes.
Changed == torn' = (torn \/ (inEp = "armed" /\ loaded < xferLen))

\* bzero of the buffer; the memory behind it keeps what it holds.
Cleared == [i \in DOMAIN dtmp |-> IF i <= BufSize THEN 0 ELSE dtmp[i]]

\* uart_event_task: clear the buffer, read what there is, as much as it is.
ReadUart ==
  /\ TaskAt("events")
  /\ IF rx = <<>>
     THEN Goto("queue") /\ UNCHANGED <<rx, dtmp, torn, overrun, size>>
     ELSE /\ Goto("startWrite") /\ size' = Len(rx)
          /\ dtmp' = [i \in DOMAIN dtmp |-> IF i <= Len(rx) THEN rx[i] ELSE Cleared[i]]
          /\ overrun' = (overrun \/ Len(rx) > BufSize)
          /\ rx' = <<>> /\ Changed
  /\ UNCHANGED <<outVars, events, inEp, xferLen, loaded, fifo, uartIn, got, overlapped,
                 dropped, busVars, isr>>

\* Mutant: the write is one byte too short.
WriteUsbOneLess ==
  /\ TaskAt("startWrite") /\ Goto("queue")
  /\ StartWrite(size - 1)
  /\ UNCHANGED <<outVars, rx, events, dtmp, uartIn, got, torn, overrun, busVars, isr, size>>

WriteUsb ==
  /\ TaskAt("startWrite") /\ Goto("queue")
  /\ StartWrite(size)
  /\ UNCHANGED <<outVars, rx, events, dtmp, uartIn, got, torn, overrun, busVars, isr, size>>

\* xQueueReceive: any event clears the buffer, an overflow also the input.
UartEvent ==
  /\ TaskAt("queue") /\ Goto("gate")
  /\ \/ /\ events = [data |-> 0, full |-> FALSE]
        /\ UNCHANGED <<rx, events, dtmp, torn, dropped>>
     \/ /\ events.data > 0
        /\ events' = [events EXCEPT !.data = @ - 1]
        /\ dtmp' = Cleared /\ Changed
        /\ UNCHANGED <<rx, dropped>>
     \/ /\ events.full
        /\ events' = [data |-> 0, full |-> FALSE] /\ rx' = <<>>
        /\ dtmp' = Cleared /\ Changed
        /\ dropped' = TRUE
  /\ UNCHANGED <<outVars, inEp, xferLen, loaded, fifo, uartIn, got, overlapped, overrun,
                 busVars, isr, size>>

\* chry_dap_usb2uart_handle
Gate ==
  /\ TaskAt("gate") /\ Goto(IF transferOn THEN "uartIdle" ELSE "events")
  /\ UNCHANGED <<outVars, inVars, busVars, isr, size>>

\* linear_read_setup: the bytes up to the pool's end.
Chunk == Least(Len(ring), Cap - outPos)

UartIdle ==
  /\ TaskAt("uartIdle")
  /\ IF uartIdle /\ ring # <<>>
     THEN Goto("send") /\ uartIdle' = FALSE /\ size' = Chunk
     ELSE Goto("rearm") /\ UNCHANGED <<uartIdle, size>>
  /\ UNCHANGED <<ring, outPos, outEp, tmp, rxIdle, sent, written, inVars, busVars, isr>>

\* chry_dap_usb2uart_uart_send_bydma: uart_write_bytes takes them all.
SendByDma ==
  /\ TaskAt("send") /\ Goto("complete")
  /\ written' = ring[size]
  /\ UNCHANGED <<ring, outPos, outEp, tmp, rxIdle, uartIdle, sent, inVars, busVars, isr, size>>

\* chry_dap_usb2uart_uart_send_complete: linear_read_done ...
SendComplete ==
  /\ TaskAt("complete") /\ Goto("more")
  /\ ring' = After(ring, size) /\ outPos' = (outPos + size) % Cap
  /\ UNCHANGED <<outEp, tmp, rxIdle, uartIdle, sent, written, inVars, busVars, isr, size>>

\* ... and the next chunk, from the same call, until the ring is empty.
SendMore ==
  /\ TaskAt("more")
  /\ IF ring # <<>> THEN Goto("send") /\ size' = Chunk
                    ELSE Goto("idle") /\ UNCHANGED size
  /\ UNCHANGED <<outVars, inVars, busVars, isr>>

\* Mutant: the flag is not raised again.
SendIdleNever ==
  /\ TaskAt("idle") /\ Goto("rearm")
  /\ UNCHANGED <<outVars, inVars, busVars, isr, size>>

SendIdle ==
  /\ TaskAt("idle") /\ Goto("rearm")
  /\ uartIdle' = TRUE
  /\ UNCHANGED <<ring, outPos, outEp, tmp, rxIdle, sent, written, inVars, busVars,
                 isr, size>>

\* Mutant: the task does not look for room.
RearmAtOnce ==
  /\ TaskAt("rearm")
  /\ IF rxIdle THEN Goto("startRead") /\ rxIdle' = FALSE
               ELSE Goto("events") /\ UNCHANGED rxIdle
  /\ UNCHANGED <<ring, outPos, outEp, tmp, uartIdle, sent, written, inVars, busVars,
                 isr, size>>

Rearm ==
  /\ TaskAt("rearm")
  /\ IF rxIdle /\ Room >= Mps
     THEN Goto("startRead") /\ rxIdle' = FALSE
     ELSE Goto("events") /\ UNCHANGED rxIdle
  /\ UNCHANGED <<ring, outPos, outEp, tmp, uartIdle, sent, written, inVars, busVars,
                 isr, size>>

RearmRead ==
  /\ TaskAt("startRead") /\ Goto("events")
  /\ StartRead
  /\ UNCHANGED <<ring, outPos, tmp, rxIdle, uartIdle, sent, written, inVars,
                 busVars, isr, size>>

-----------------------------------------------------------------------------
Isr == \/ BulkOut \/ OutCheck \/ OutArm \/ OutIdle \/ BulkIn \/ SendZlp \/ LoadFifo
Task == \/ ReadUart \/ WriteUsb \/ UartEvent \/ Gate \/ UartIdle \/ SendByDma
        \/ SendComplete \/ SendMore \/ SendIdle \/ Rearm \/ RearmRead
Environment == HostSend \/ HostRead \/ UartReceive \/ OwnerWrites \/ BusReset \/ Configured

Next == Isr \/ Task \/ Environment

Spec == Init /\ [][Next]_vars

\* Interrupts are served, the task's loop goes on, uart_write_bytes returns
\* because the UART has no flow control, a host configures what it reset.
Fairness == WF_vars(Isr) /\ WF_vars(Task) /\ WF_vars(Configured)

FairSpec == Spec /\ Fairness

-----------------------------------------------------------------------------
OutTypes ==
  /\ ring \in Seq(Nat) /\ Len(ring) <= Cap /\ outPos \in 0 .. Cap - 1
  /\ outEp \in {"off", "armed", "done"} /\ tmp \in Seq(Nat) /\ Len(tmp) <= Mps
  /\ rxIdle \in BOOLEAN /\ uartIdle \in BOOLEAN
  /\ sent \in Nat /\ written \in Nat

\* A transfer from dtmp stays inside it until more was read than it holds.
InTypes ==
  /\ rx \in Seq(Nat) /\ Len(rx) <= RxCap /\ dtmp \in [1 .. RxCap -> Nat]
  /\ events \in [data : Nat, full : BOOLEAN]
  /\ inEp \in {"off", "armed", "done"} /\ xferLen \in 0 .. RxCap /\ loaded \in 0 .. xferLen
  /\ fifo \in Seq(Nat) /\ Len(fifo) <= Mps
  /\ uartIn \in Nat /\ got \in Nat
  /\ overlapped \in BOOLEAN /\ torn \in BOOLEAN /\ dropped \in BOOLEAN /\ overrun \in BOOLEAN
  /\ ~overrun => xferLen <= BufSize

BusTypes ==
  /\ limit \in Limits /\ resets \in Nat
  /\ configured \in BOOLEAN /\ transferOn \in BOOLEAN

PlaceTypes ==
  /\ isr \in {"none", "outCheck", "outArm", "outIdle", "zlp"}
  /\ task \in {"events", "startWrite", "queue", "gate", "uartIdle", "send", "complete",
               "more", "idle", "rearm", "startRead"}
  /\ size \in Nat
  /\ task = "startWrite" => size <= RxCap /\ (~overrun => size <= BufSize)
  /\ task \in {"send", "complete"} => size >= 1 /\ size <= Len(ring)

TypeOK == OutTypes /\ InTypes /\ BusTypes /\ PlaceTypes

Increasing(s, low) ==
  \A i \in 1 .. Len(s) : s[i] > low /\ \A j \in 1 .. i - 1 : s[j] < s[i]

\* Whoever may start the next read (the endpoint, the handler, the idle flag,
\* the task) is alone, and a read in progress has room for a whole packet.
Tokens == {t \in {"endpoint", "handler", "flag", "task"} :
             \/ t = "endpoint" /\ outEp # "off"
             \/ t = "handler" /\ isr \in {"outCheck", "outArm", "outIdle"}
             \/ t = "flag" /\ rxIdle
             \/ t = "task" /\ task = "startRead"}
ReadHasRoom ==
  resets = 0 => /\ \A s, t \in Tokens : s = t
                /\ outEp # "off" \/ isr = "outArm" \/ task = "startRead" => Room >= Mps

\* No byte of the host is lost, repeated or reordered on its way to the UART,
\* as long as the bus is not reset: what is in the ring and in the packet
\* buffer is all of what was sent and not yet written.
HostBytesAccounted ==
  resets = 0 =>
    LET held == (IF task = "complete" THEN After(ring, size) ELSE ring)
                  \o (IF outEp = "done" THEN tmp ELSE <<>>)
    IN  held = Bytes(written, sent)

\* Also with resets, bytes go to the UART in the order the host sent them,
\* none of them twice: a reset loses bytes and repeats none.
RingInOrder ==
  Increasing(IF task = "complete" THEN After(ring, size) ELSE ring, written)

\* Together: the way of the host's bytes.
HostBytesInOrder == TypeOK /\ HostBytesAccounted /\ RingInOrder

\* The bytes of the UART on their way to the host are those it has not read, in order.
UartBytesHeld ==
  LET toLoad == IF inEp = "armed" THEN SubSeq(dtmp, loaded + 1, xferLen) ELSE <<>>
      toWrite == IF task = "startWrite" THEN SubSeq(dtmp, 1, size) ELSE <<>>
  IN  fifo \o toLoad \o toWrite \o rx = Bytes(got, uartIn)

\* The bytes of the UART reach the host in order, none of them lost, repeated or
\* cleared, if no write was started over another, dtmp was not touched while it was
\* being sent, nothing was flushed or refused, and no burst was longer than dtmp.
UartBytesAccounted == ~overlapped /\ ~torn /\ ~dropped /\ ~overrun => UartBytesHeld

\* A "UART bridge": what the host reads are bytes the UART received.  The
\* buffer is cleared on the next event, also when the endpoint has not taken
\* all of it.
HostReadsWhatWasReceived ==
  ~overlapped /\ ~overrun => \A i \in 1 .. Len(fifo) : fifo[i] > got

\* Every byte of the host reaches the UART unless the bus is reset.
MaxSent == CHOOSE n \in {l.host : l \in Limits} : \A l \in Limits : l.host <= n

HostBytesArrive ==
  \A k \in 1 .. MaxSent : (sent >= k) ~> (written >= k \/ resets > 0)

\* With resets: the ring is emptied again once the bus is configured, and the
\* host can always send again.
RingDrains == (ring # <<>>) ~> (ring = <<>> \/ ~configured)
HostBytesDrain == HostBytesArrive /\ RingDrains

\* The endpoint is armed again whenever the bus is configured.
ReceptionResumes == (configured /\ outEp = "off") ~> (outEp # "off" \/ ~configured)
=============================================================================
