-------------------------------- MODULE UartWs --------------------------------
(***************************************************************************)
(* The web terminal and log monitor, uart_websocket.c.                     *)
(*                                                                         *)
(* uart_read_task moves what the target sends into the stream buffer       *)
(* xDataBuffer and queues one ws_async_send in the web server per chunk;   *)
(* that call takes a bufferful out of the stream and sends it to the       *)
(* session in resp_arg.  While the log monitor is on, every task's log     *)
(* lines take the same way, through custom_log_vprintf.  The web server    *)
(* (httpd) runs one handler or one queued call at a time; the other tasks  *)
(* run beside it, without a lock.                                          *)
(*                                                                         *)
(* A chunk of the stream is a number, counted as the target sent it, or    *)
(* LogLine.  A session is named by its socket, as in resp_arg.fd; sockets  *)
(* are used again.                                                         *)
(***************************************************************************)
EXTENDS Naturals, Sequences, FiniteSets

CONSTANTS
  Sockets,      \* socket numbers, 1 ..
  Cap, Take,    \* chunks the stream holds; chunks one call takes (half of them)
  MaxWork,      \* calls httpd_queue_work can queue
  QueueLen,     \* s_uart_queue: messages to the UART (10)
  Limits        \* bounds: sockets, chunks, messages, whether a log monitor is used

ASSUME SocketsAssumption == Sockets \subseteq Nat \ {0}
ASSUME SizesAssumption ==
  /\ Cap \in Nat /\ Take \in Nat \ {0} /\ QueueLen \in Nat
  /\ MaxWork \in Nat
ASSUME LimitsAssumption == Limits \subseteq [sockets : Nat, chunks : Nat, messages : Nat, logs : BOOLEAN]

LogLine == 0
LogTasks == {"reader", "httpd", "other"}

VARIABLES
  sock,       \* per socket: free, http, ws, gone (the peer has vanished)
  fd,         \* resp_arg.fd, 0 for none (then resp_arg.hd is NULL, too)
  logOn,      \* g_log_monitor_enabled
  inLog,      \* in_log
  logging,    \* per task: where it stands in custom_log_vprintf
  stream,     \* xDataBuffer
  work,       \* ws_async_send calls queued
  httpd,      \* where the web server stands in a handler of several steps
  reader,     \* where uart_read_task stands
  received,   \* chunks the target has sent
  messages,   \* s_uart_queue
  posted,     \* messages clients have sent
  uartOut,    \* the last message uart_write_task wrote
  pushed,     \* observation: the last chunk put into the stream
  since,      \* observation: per socket, pushed when the session was set up
  last,       \* observation: per socket, the last chunk sent to it
  stale,      \* observation: a reset of the stream has failed
  limit       \* the bounds of this behaviour

net  == <<sock, since, last>>
logs == <<inLog, logging>>
rx   == <<reader, received, pushed>>
tx   == <<messages, posted, uartOut>>
vars == <<net, fd, logOn, logs, stream, work, httpd, rx, tx, stale, limit>>

Range1(s) == {s[i] : i \in 1 .. Len(s)}

TypeOK ==
  /\ limit \in Limits
  /\ sock \in [Sockets -> {"free", "http", "ws", "gone"}]
  /\ fd \in Sockets \cup {0}
  /\ logOn \in BOOLEAN /\ inLog \in BOOLEAN /\ stale \in BOOLEAN
  /\ logging \in [LogTasks -> {"idle", "enter", "set", "send", "check", "leave"}]
  /\ stream \in Seq(Nat) /\ Len(stream) <= Cap
  /\ work \in 0 .. MaxWork
  /\ httpd \in {"idle", "hsReset", "hsOff", "logReset", "invalid"}
  /\ reader \in {"read", "send", "blocked", "check", "queue"}
  /\ received \in Nat /\ pushed \in Nat
  /\ since \in [Sockets -> Nat] /\ last \in [Sockets -> Nat]
  /\ messages \in Seq(Nat) /\ Len(messages) <= QueueLen
  /\ posted \in Nat /\ uartOut \in Nat

Init ==
  /\ limit \in Limits
  /\ sock = [s \in Sockets |-> "free"] /\ fd = 0
  /\ logOn = FALSE /\ inLog = FALSE /\ logging = [t \in LogTasks |-> "idle"]
  /\ stream = <<>> /\ work = 0 /\ httpd = "idle"
  /\ reader = "read" /\ received = 0 /\ pushed = 0
  /\ messages = <<>> /\ posted = 0 /\ uartOut = 0
  /\ since = [s \in Sockets |-> 0] /\ last = [s \in Sockets |-> 0]
  /\ stale = FALSE

\* httpd_queue_work: refused when its queue is full.
QueueWork == work' = IF work < MaxWork THEN work + 1 ELSE work

\* xStreamBufferReset: refused while a task waits to send.
ResetStream ==
  IF reader = "blocked" THEN stale' = TRUE /\ UNCHANGED stream
                        ELSE stale' = FALSE /\ stream' = <<>>

HttpdIdle == httpd = "idle" /\ logging["httpd"] = "idle"
Log(t) == logging' = [logging EXCEPT ![t] = "enter"]

-----------------------------------------------------------------------------
(* Connections, as the web server keeps them. *)

\* A client connects; accept returns a number that is free.
Connect(s) ==
  /\ sock[s] = "free" /\ HttpdIdle /\ s <= limit.sockets
  /\ sock' = [sock EXCEPT ![s] = "http"]
  /\ UNCHANGED <<since, last, fd, logOn, logs, stream, work, httpd, rx, tx, stale, limit>>

\* A client goes away; the web server learns of it when it next reads.
Vanish(s) ==
  /\ sock[s] \in {"http", "ws"}
  /\ sock' = [sock EXCEPT ![s] = "gone"]
  /\ UNCHANGED <<since, last, fd, logOn, logs, stream, work, httpd, rx, tx, stale, limit>>

Forget(s) ==
  /\ sock[s] = "gone" /\ HttpdIdle
  /\ sock' = [sock EXCEPT ![s] = "free"]
  /\ UNCHANGED <<since, last, fd, logOn, logs, stream, work, httpd, rx, tx, stale, limit>>

-----------------------------------------------------------------------------
(* websocket_handler *)

\* GET: the new connection becomes the session ...
Handshake(s) ==
  /\ sock[s] = "http" /\ HttpdIdle
  /\ sock' = [sock EXCEPT ![s] = "ws"]
  /\ fd' = s /\ httpd' = "hsReset"
  /\ since' = [since EXCEPT ![s] = pushed] /\ last' = [last EXCEPT ![s] = 0]
  /\ UNCHANGED <<logOn, logs, stream, work, rx, tx, stale, limit>>

\* Mutant: the stream is left as it is.
HandshakeKeep ==
  /\ httpd = "hsReset" /\ httpd' = "hsOff"
  /\ since' = [since EXCEPT ![fd] = IF reader # "blocked" THEN pushed ELSE @]
  /\ stale' = (reader = "blocked")
  /\ UNCHANGED <<sock, last, fd, logOn, logs, stream, work, rx, tx, limit>>

\* ... what is buffered for the last one is cleared ...
HandshakeReset ==
  /\ httpd = "hsReset" /\ httpd' = "hsOff"
  /\ ResetStream
  /\ since' = [since EXCEPT ![fd] = IF reader # "blocked" THEN pushed ELSE @]
  /\ UNCHANGED <<sock, last, fd, logOn, logs, work, rx, tx, limit>>

\* ... and the log monitor switched off.
HandshakeLogOff ==
  /\ httpd = "hsOff" /\ httpd' = "idle"
  /\ logOn' = FALSE
  /\ UNCHANGED <<net, fd, logs, stream, work, rx, tx, stale, limit>>

\* Mutant: any connection's close ends the session.
CloseAny(s) ==
  /\ sock[s] = "ws" /\ HttpdIdle
  /\ sock' = [sock EXCEPT ![s] = "gone"]
  /\ logOn' = FALSE /\ fd' = 0
  /\ UNCHANGED <<since, last, logs, stream, work, httpd, rx, tx, stale, limit>>

\* A close frame: whether the handler sees it or only the web server, which
\* closes the connection, is up to the latter (handle_ws_control_frames).
Close(s) ==
  /\ sock[s] = "ws" /\ HttpdIdle
  /\ sock' = [sock EXCEPT ![s] = "gone"]
  /\ IF fd = s
     THEN \/ logOn' = FALSE /\ fd' = 0
          \/ UNCHANGED <<logOn, fd>>
     ELSE UNCHANGED <<logOn, fd>>
  /\ UNCHANGED <<since, last, logs, stream, work, httpd, rx, tx, stale, limit>>

\* LOG_ON, from any open connection: switched on, then old data cleared.
LogOn(s) ==
  /\ limit.logs /\ sock[s] = "ws" /\ HttpdIdle
  /\ logOn' = TRUE /\ httpd' = "logReset"
  /\ UNCHANGED <<net, fd, logs, stream, work, rx, tx, stale, limit>>

LogOnReset ==
  /\ httpd = "logReset" /\ httpd' = "idle"
  /\ ResetStream
  /\ UNCHANGED <<net, fd, logOn, logs, work, rx, tx, limit>>

LogOff(s) ==
  /\ logOn /\ sock[s] = "ws" /\ HttpdIdle
  /\ logOn' = FALSE
  /\ UNCHANGED <<net, fd, logs, stream, work, httpd, rx, tx, stale, limit>>

\* Anything else goes to the UART, or is dropped when the queue is full.
Message(s) ==
  /\ sock[s] = "ws" /\ HttpdIdle /\ posted < limit.messages
  /\ posted' = posted + 1
  /\ messages' = IF Len(messages) < QueueLen THEN Append(messages, posted + 1) ELSE messages
  /\ UNCHANGED <<net, fd, logOn, logs, stream, work, httpd, rx, uartOut, stale, limit>>

\* uart_write_task
WriteUart ==
  /\ messages # <<>>
  /\ uartOut' = Head(messages) /\ messages' = Tail(messages)
  /\ UNCHANGED <<net, fd, logOn, logs, stream, work, httpd, rx, posted, stale, limit>>

-----------------------------------------------------------------------------
(* ws_async_send, called by the web server. *)

Taken == SubSeq(stream, 1, IF Len(stream) < Take THEN Len(stream) ELSE Take)
Newest(s) == IF Range1(s) \subseteq {LogLine} THEN LogLine
             ELSE CHOOSE k \in Range1(s) : \A j \in Range1(s) : j <= k

\* Mutant: the buffer is not emptied when it is sent.
AsyncSendPeek ==
  /\ work > 0 /\ HttpdIdle
  /\ work' = work - 1
  /\ IF fd = 0 \/ stream = <<>>
     THEN UNCHANGED <<stream, last, httpd, logging>>
     ELSE /\ stream' = stream
          /\ last' = IF sock[fd] = "ws" THEN [last EXCEPT ![fd] = Newest(Taken)] ELSE last
          /\ IF sock[fd] \in {"free", "gone"} THEN Log("httpd") ELSE UNCHANGED logging
          /\ httpd' = IF sock[fd] = "free" THEN "invalid" ELSE "idle"
  /\ UNCHANGED <<sock, since, fd, logOn, inLog, rx, tx, stale, limit>>

\* The chunk goes to whatever connection has the session's number.  An error
\* is logged; one that says the socket is not open also ends the session.
AsyncSend ==
  /\ work > 0 /\ HttpdIdle
  /\ work' = work - 1
  /\ IF fd = 0 \/ stream = <<>>
     THEN UNCHANGED <<stream, last, httpd, logging>>
     ELSE /\ stream' = SubSeq(stream, Len(Taken) + 1, Len(stream))
          /\ last' = IF sock[fd] = "ws" /\ Newest(Taken) # LogLine
                     THEN [last EXCEPT ![fd] = Newest(Taken)] ELSE last
          /\ IF sock[fd] \in {"free", "gone"} THEN Log("httpd") ELSE UNCHANGED logging
          /\ httpd' = IF sock[fd] = "free" THEN "invalid" ELSE "idle"
  /\ UNCHANGED <<sock, since, fd, logOn, inLog, rx, tx, stale, limit>>

\* Mutant: an invalid socket is only logged.
InvalidIgnored ==
  /\ httpd = "invalid" /\ logging["httpd"] = "idle"
  /\ httpd' = "idle"
  /\ UNCHANGED <<net, fd, logOn, logs, stream, work, rx, tx, stale, limit>>

Invalid ==
  /\ httpd = "invalid" /\ logging["httpd"] = "idle"
  /\ httpd' = "idle" /\ logOn' = FALSE /\ fd' = 0
  /\ UNCHANGED <<net, logs, stream, work, rx, tx, stale, limit>>

-----------------------------------------------------------------------------
(* uart_read_task *)

\* A chunk is read, and logged.
ReadChunk ==
  /\ reader = "read" /\ logging["reader"] = "idle" /\ received < limit.chunks
  /\ received' = received + 1 /\ reader' = "send"
  /\ Log("reader")
  /\ UNCHANGED <<net, fd, logOn, inLog, stream, work, httpd, pushed, tx, stale, limit>>

\* xStreamBufferSend waits ten ticks for room, then gives up.
Push ==
  /\ reader \in {"send", "blocked"} /\ logging["reader"] = "idle"
  /\ \/ /\ Len(stream) < Cap
        /\ stream' = Append(stream, received) /\ pushed' = received
        /\ reader' = "check"
     \/ /\ Len(stream) >= Cap
        /\ reader' = IF reader = "send" THEN "blocked" ELSE "check"
        /\ UNCHANGED <<stream, pushed>>
  /\ UNCHANGED <<net, fd, logOn, logs, work, httpd, received, tx, stale, limit>>

\* Mutant: the session is only looked at, never told.
CheckSessionNever ==
  /\ reader = "check" /\ reader' = "read"
  /\ UNCHANGED <<net, fd, logOn, logs, stream, work, httpd, received, pushed, tx, stale, limit>>

CheckSession ==
  /\ reader = "check"
  /\ reader' = IF fd > 0 THEN "queue" ELSE "read"
  /\ UNCHANGED <<net, fd, logOn, logs, stream, work, httpd, received, pushed, tx, stale, limit>>

\* With resp_arg cleared in between, or a full queue, the error is logged.
QueueSend ==
  /\ reader = "queue" /\ reader' = "read"
  /\ IF fd > 0 THEN QueueWork ELSE UNCHANGED work
  /\ IF fd = 0 \/ work = MaxWork THEN Log("reader") ELSE UNCHANGED logging
  /\ UNCHANGED <<net, fd, logOn, inLog, stream, httpd, received, pushed, tx, stale, limit>>

-----------------------------------------------------------------------------
(* custom_log_vprintf, in every task. *)

At(t, pc) == logging[t] = pc
Goto(t, pc) == logging' = [logging EXCEPT ![t] = pc]

\* Any other task writes a log line.
OtherLogs ==
  /\ logOn /\ At("other", "idle") /\ Log("other")
  /\ UNCHANGED <<net, fd, logOn, inLog, stream, work, httpd, rx, tx, stale, limit>>

LogEnter(t) ==
  /\ At(t, "enter") /\ Goto(t, IF logOn /\ ~inLog THEN "set" ELSE "idle")
  /\ UNCHANGED <<net, fd, logOn, inLog, stream, work, httpd, rx, tx, stale, limit>>

LogSet(t) ==
  /\ At(t, "set") /\ Goto(t, "send")
  /\ inLog' = TRUE
  /\ UNCHANGED <<net, fd, logOn, stream, work, httpd, rx, tx, stale, limit>>

LogPush(t) ==
  /\ At(t, "send") /\ Goto(t, "check")
  /\ stream' = IF Len(stream) < Cap THEN Append(stream, LogLine) ELSE stream
  /\ UNCHANGED <<net, fd, logOn, inLog, work, httpd, rx, tx, stale, limit>>

LogQueue(t) ==
  /\ At(t, "check") /\ Goto(t, "leave")
  /\ IF fd > 0 THEN QueueWork ELSE UNCHANGED work
  /\ UNCHANGED <<net, fd, logOn, inLog, stream, httpd, rx, tx, stale, limit>>

LogLeave(t) ==
  /\ At(t, "leave") /\ Goto(t, "idle")
  /\ inLog' = FALSE
  /\ UNCHANGED <<net, fd, logOn, stream, work, httpd, rx, tx, stale, limit>>

LogStep(t) == LogEnter(t) \/ LogSet(t) \/ LogPush(t) \/ LogQueue(t) \/ LogLeave(t)

-----------------------------------------------------------------------------
Reader == Push \/ CheckSession \/ QueueSend
Httpd == HandshakeReset \/ HandshakeLogOff \/ LogOnReset \/ Invalid

Next ==
  \/ \E s \in Sockets : \/ Connect(s) \/ Vanish(s) \/ Forget(s)
                        \/ Handshake(s) \/ Close(s) \/ LogOn(s) \/ LogOff(s) \/ Message(s)
  \/ AsyncSend \/ Httpd
  \/ ReadChunk \/ Reader \/ WriteUart
  \/ OtherLogs \/ \E t \in LogTasks : LogStep(t)

Spec == Init /\ [][Next]_vars

\* Every task runs, and httpd comes to the calls queued in it and, in its
\* turn, to a connection that has ended: it looks at them all in one select.
Fairness ==
  /\ WF_vars(Reader) /\ WF_vars(Httpd) /\ WF_vars(WriteUart)
  /\ SF_vars(AsyncSend)
  /\ \A s \in Sockets : SF_vars(Forget(s))
  /\ \A t \in LogTasks : WF_vars(LogStep(t))

FairSpec == Spec /\ Fairness

-----------------------------------------------------------------------------
\* A terminal shows what the target sends in its order and once: the stream is
\* in order, and nothing that has been sent is still in it.
TerminalInOrder ==
  \A i \in 1 .. Len(stream) : stream[i] # LogLine =>
    /\ \A j \in 1 .. i - 1 : stream[j] < stream[i]
    /\ fd # 0 => stream[i] > last[fd]

\* "Only clear global state if the closing connection is the active one": a
\* session ends with its own connection, or when another takes its place.
SessionKept ==
  [][fd # 0 /\ fd' = 0 => sock'[fd] \in {"gone", "free"}]_fd

\* "Clear any old data from the stream buffer to prevent blasting old logs":
\* a session is sent nothing that was put into the stream before it connected.
NoOldData ==
  httpd = "idle" /\ fd # 0 =>
    \A k \in Range1(stream) \ {LogLine} : k > since[fd]

\* The same, when the reset did not find a task waiting to send.
NoOldDataOnceCleared == ~stale => NoOldData

\* What is in the stream while a terminal is connected is sent without
\* waiting for more to come, unless the stream could not be cleared.
DataIsSent ==
  \A k \in 1 .. 2 :
    (k \in Range1(stream) /\ fd # 0 /\ ~stale /\ httpd = "idle")
       ~> (k \notin Range1(stream) \/ fd = 0 \/ stale \/ httpd # "idle")

\* The log monitor does not feed itself for ever with its own send errors once
\* the terminal is gone and nobody switches it on again.
SpamEnds ==
  \A s \in Sockets :
    (fd = s /\ sock[s] = "free" /\ work > 0 /\ logOn)
      ~> (work = 0 \/ fd # s \/ sock[s] # "free" \/ ~logOn \/ httpd = "logReset")

\* Messages are written to the UART in the order they came.
MessagesInOrder == [][uartOut' >= uartOut]_uartOut

\* Together: both directions of the bridge keep their order.
BridgeInOrder == [](TypeOK /\ TerminalInOrder) /\ MessagesInOrder
=============================================================================
