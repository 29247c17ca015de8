----------------------------- MODULE LaCapture -----------------------------
(***************************************************************************)
(* The logic analyzer: the capture functions of main/ice40up5k/ice.c, the  *)
(* handlers of main/network/web_server.c that call them, and the page      *)
(* main/web/logic_analyzer.html that polls for the end of a capture.       *)
(*                                                                         *)
(* All handlers run in the one httpd task, so a handler is one step; only  *)
(* the instant capture, which waits for the FPGA, is several.  A page has  *)
(* several connections: its requests are served, and their answers arrive, *)
(* in any order.  Captures are told apart by number, which neither the     *)
(* firmware nor the page does.                                             *)
(***************************************************************************)
EXTENDS Naturals, FiniteSets

CONSTANTS
  Tabs,         \* the browser pages
  Connections,  \* connections of a page (a range of numbers, six in a browser)
  Configs,      \* values of sample rate and trigger position together
  MaxCaptures,  \* bound on the captures started
  MaxPolls,     \* polls of the instant capture before it gives up (200)
  UsesInstant   \* whether the instant capture is used

ASSUME ConnectionsAssumption == Connections \subseteq Nat
ASSUME ConfigsAssumption == Configs # {}
ASSUME MaxAssumption == MaxCaptures \in Nat /\ MaxPolls \in Nat
ASSUME UsesInstantAssumption == UsesInstant \in BOOLEAN

VARIABLES
  live,       \* the settings la_configure stores
  saved,      \* gbl_clk_divider, gbl_trigger_pos: the settings of the last start
  triggered,  \* gbl_triggered_flag
  stopAt,     \* gbl_wr_addr_stop_position: the capture it was read for
  fpga,       \* the capture engine: phase, cap (in its memory), whole, cfg
  captures,   \* how many captures have been started
  handler,    \* the instant capture httpd is busy with, or Idle
  polling,    \* per page: statusIntervalId is set
  request,    \* per page and connection: the request it carries
  shown,      \* per page: the capture whose samples are drawn
  mine,       \* observation: per page, the capture of its last start
  late,       \* observation: per page, since its last start a poll has fetched
              \*   the samples although the polling was over
  clean       \* observation: nothing was in progress when the last start was
              \*   clicked, and nothing else was clicked since

vars == <<live, saved, triggered, stopAt, fpga, captures, handler, polling,
          request, shown, mine, late, clean>>

device == <<live, saved, triggered, stopAt, fpga, captures, handler>>
pages  == <<polling, shown, mine, late, clean>>

Captures == Nat
\* Capture 0: samples of no complete capture, or of one nobody started.
Junk == 0

Fpga == [phase : {"off", "armed", "stopped", "reading"}, cap : Captures,
         whole : BOOLEAN, cfg : Configs]

\* yes: the triggered flag of an answer; cap: the one an instant request started;
\* data: the capture whose samples an answer carries.  A poll is "checked" from the
\* time the headers of its answer have been looked at until its body is read.
Request == [kind : {"none", "start", "poll", "data", "instant"},
            stage : {"sent", "answered", "checked", "failed"},
            yes : BOOLEAN, cap : Captures, data : Captures]

Sent(kind) == [kind |-> kind, stage |-> "sent", yes |-> FALSE, cap |-> 0,
               data |-> Junk]
NoRequest == Sent("none")

\* The handler of an instant capture: whose request it is, its poll_count.
Handler == [busy : BOOLEAN, tab : Tabs, conn : Connections, polls : 0 .. MaxPolls]

TypeOK ==
  /\ live \in Configs /\ saved \in Configs
  /\ triggered \in BOOLEAN /\ clean \in BOOLEAN
  /\ stopAt \in Captures /\ captures \in Captures
  /\ fpga \in Fpga
  /\ handler \in Handler
  /\ polling \in [Tabs -> BOOLEAN]
  /\ request \in [Tabs -> [Connections -> Request]]
  /\ shown \in [Tabs -> Captures] /\ mine \in [Tabs -> Captures]
  /\ late \in [Tabs -> BOOLEAN]

Init ==
  /\ live \in Configs
  /\ saved = live
  /\ triggered = TRUE
  /\ stopAt = Junk /\ captures = 0
  /\ fpga = [phase |-> "off", cap |-> Junk, whole |-> FALSE,
             cfg |-> live]
  /\ handler \in [busy : {FALSE}, tab : Tabs, conn : Connections, polls : {0}]
  /\ polling = [t \in Tabs |-> FALSE]
  /\ request = [t \in Tabs |-> [c \in Connections |-> NoRequest]]
  /\ shown = [t \in Tabs |-> Junk] /\ mine = [t \in Tabs |-> Junk]
  /\ late = [t \in Tabs |-> FALSE] /\ clean = FALSE

-----------------------------------------------------------------------------
(* The page. *)

Free(t, c) == request[t][c].kind = "none"

\* A new request goes out on the first connection that is free.
Send(t, kind) ==
  \E c \in Connections :
    /\ Free(t, c)
    /\ \A d \in Connections : d < c => ~Free(t, d)
    /\ request' = [request EXCEPT ![t][c] = Sent(kind)]

InProgress == \E t \in Tabs : polling[t] \/ \E c \in Connections : ~Free(t, c)

\* The captures started or asked for, and the bound on them.
Asked == captures + Cardinality({r \in Tabs \X Connections :
                                   /\ request[r[1]][r[2]].kind \in {"start", "instant"}
                                   /\ request[r[1]][r[2]].stage = "sent"})
MayAsk == Asked < MaxCaptures

\* startCapture: a click while polling cancels; it does not tell the firmware.
ClickStart(t) ==
  /\ \/ /\ polling[t]
        /\ polling' = [polling EXCEPT ![t] = FALSE]
        /\ UNCHANGED <<request, late, clean>>
     \/ /\ ~polling[t] /\ MayAsk
        /\ Send(t, "start")
        /\ late' = [late EXCEPT ![t] = FALSE]
        /\ clean' = ~InProgress
        /\ UNCHANGED polling
  /\ UNCHANGED <<device, shown, mine>>

\* instantCapture: its button is disabled until the answer is there.
ClickInstant(t) ==
  /\ UsesInstant /\ MayAsk
  /\ \A c \in Connections : request[t][c].kind # "instant"
  /\ Send(t, "instant")
  /\ clean' = FALSE
  /\ UNCHANGED <<device, polling, shown, mine, late>>

\* setInterval(checkStatus, 200): polls overlap when an answer takes longer.
PollTimer(t) ==
  /\ polling[t]
  /\ Send(t, "poll")
  /\ UNCHANGED <<device, pages>>

\* A connection breaks, or the firmware refuses the request.
Fail(t, c) ==
  /\ ~Free(t, c) /\ request[t][c].stage # "failed"
  /\ ~(handler.busy /\ handler.tab = t /\ handler.conn = c)
  /\ request' = [request EXCEPT ![t][c].stage = "failed"]
  /\ UNCHANGED <<device, pages>>

Arrived(t, c, kind) ==
  request[t][c].kind = kind /\ request[t][c].stage \in {"answered", "failed"}

DeliverStart(t, c) ==
  /\ Arrived(t, c, "start")
  /\ polling' = [polling EXCEPT ![t] = request[t][c].stage = "answered"]
  /\ request' = [request EXCEPT ![t][c] = NoRequest]
  /\ UNCHANGED <<device, shown, mine, late, clean>>

\* checkStatus after its fetch: an answer that arrives while not polling is
\* dropped, otherwise the body is awaited.
CheckPoll(t, c) ==
  /\ request[t][c].kind = "poll" /\ request[t][c].stage = "answered"
  /\ request' = [request EXCEPT ![t][c] =
                   IF polling[t] THEN [@ EXCEPT !.stage = "checked"] ELSE NoRequest]
  /\ UNCHANGED <<device, pages>>

\* Mutant: the interval is not cleared when a trigger is found.
UsePollKeepsPolling(t, c) ==
  /\ request[t][c].kind = "poll" /\ request[t][c].stage = "checked"
  /\ LET yes == request[t][c].yes
     IN  /\ request' = [request EXCEPT ![t][c] = IF yes THEN Sent("data") ELSE NoRequest]
         /\ late' = [late EXCEPT ![t] = @ \/ (yes /\ ~polling[t])]
  /\ UNCHANGED <<device, polling, shown, mine, clean>>

\* checkStatus after response.json(): a trigger ends the polling and fetches the
\* samples, also when the polling has ended while the body was awaited.
UsePoll(t, c) ==
  /\ request[t][c].kind = "poll" /\ request[t][c].stage = "checked"
  /\ LET yes == request[t][c].yes
     IN  /\ request' = [request EXCEPT ![t][c] = IF yes THEN Sent("data") ELSE NoRequest]
         /\ polling' = [polling EXCEPT ![t] = @ /\ ~yes]
         /\ late' = [late EXCEPT ![t] = @ \/ (yes /\ ~polling[t])]
  /\ UNCHANGED <<device, shown, mine, clean>>

\* Its catch, for the fetch and for the body: the polling ends.
FailPoll(t, c) ==
  /\ request[t][c].kind = "poll" /\ request[t][c].stage = "failed"
  /\ polling' = [polling EXCEPT ![t] = FALSE]
  /\ request' = [request EXCEPT ![t][c] = NoRequest]
  /\ UNCHANGED <<device, shown, mine, late, clean>>

\* fetchCapturedData, and the end of instantCapture.
DeliverData(t, c) ==
  /\ Arrived(t, c, "data") \/ Arrived(t, c, "instant")
  /\ shown' = [shown EXCEPT ![t] =
                 IF request[t][c].stage = "answered" THEN request[t][c].data ELSE @]
  /\ request' = [request EXCEPT ![t][c] = NoRequest]
  /\ UNCHANGED <<device, polling, mine, late, clean>>

-----------------------------------------------------------------------------
(* The firmware. *)

Served(t, c, kind) ==
  ~handler.busy /\ request[t][c].kind = kind /\ request[t][c].stage = "sent"

\* start_capture: three frames; the first one ends what was in progress.
StartCapture ==
  /\ captures' = captures + 1
  /\ triggered' = FALSE
  /\ saved' = live
  /\ fpga' = [phase |-> "armed", cap |-> captures + 1, whole |-> FALSE,
              cfg |-> live]

\* Mutant: the live settings are sent.
StatusSettingsLive == live

\* The sample rate and position that read_capture_status sends.
StatusSettings == saved

\* read_capture_status: enables capture and trigger, and reads the status the
\* engine had before.  An engine whose memory was being read may keep its stop
\* flag, and may start anew.
ReadStatus(stop) ==
  /\ triggered' = stop
  /\ stopAt' = IF stop THEN fpga.cap ELSE stopAt
  /\ \E restarts \in BOOLEAN :
       /\ restarts => fpga.phase = "reading"
       /\ stop => fpga.phase \in {"stopped", "reading"} /\ fpga.whole
       /\ fpga.phase = "stopped" => stop
       /\ fpga' = [phase |-> IF restarts THEN "armed" ELSE fpga.phase,
                   cap   |-> IF restarts THEN Junk ELSE fpga.cap,
                   whole |-> fpga.whole /\ ~restarts,
                   cfg   |-> StatusSettings]
  /\ UNCHANGED <<live, saved, captures>>

\* read_and_return_capture: ends the capture and reads from stopAt.
Samples == IF fpga.whole /\ stopAt = fpga.cap THEN fpga.cap ELSE Junk
ReadCapture ==
  fpga' = [fpga EXCEPT !.phase = "reading"]

Answer(t, c, yes, cap, data) ==
  request' = [request EXCEPT ![t][c] =
                [@ EXCEPT !.stage = "answered", !.yes = yes, !.cap = cap, !.data = data]]

\* la_start_capture_handler
ServeStart(t, c) ==
  /\ Served(t, c, "start")
  /\ StartCapture
  /\ mine' = [mine EXCEPT ![t] = captures + 1]
  /\ Answer(t, c, FALSE, 0, Junk)
  /\ UNCHANGED <<live, stopAt, handler, polling, shown, late, clean>>

\* la_status_handler
ServePoll(t, c) ==
  /\ Served(t, c, "poll")
  /\ \E stop \in BOOLEAN : ReadStatus(stop) /\ Answer(t, c, stop, 0, Junk)
  /\ UNCHANGED <<handler, pages>>

\* capture_data_handler: it does not look whether the capture is complete.
ServeData(t, c) ==
  /\ Served(t, c, "data")
  /\ ReadCapture
  /\ Answer(t, c, FALSE, 0, Samples)
  /\ UNCHANGED <<live, saved, triggered, stopAt, captures, handler, pages>>

\* la_instant_capture_handler up to its loop.
InstantStart(t, c) ==
  /\ Served(t, c, "instant")
  /\ StartCapture
  /\ handler' = [busy |-> TRUE, tab |-> t, conn |-> c, polls |-> 0]
  /\ request' = [request EXCEPT ![t][c].cap = captures + 1]
  /\ UNCHANGED <<live, stopAt, pages>>

\* Mutant: poll_count is not incremented.
InstantPollForever ==
  /\ handler.busy /\ ~triggered
  /\ \E stop \in BOOLEAN : ReadStatus(stop)
  /\ UNCHANGED <<handler, request, pages>>

\* One turn of its loop; the time-out answers with an error.
InstantPoll ==
  /\ handler.busy /\ ~triggered
  /\ \E stop \in BOOLEAN :
       /\ ReadStatus(stop)
       /\ IF stop
          THEN UNCHANGED <<handler, request>>
          ELSE IF handler.polls < MaxPolls
          THEN handler' = [handler EXCEPT !.polls = @ + 1] /\ UNCHANGED request
          ELSE /\ handler' = [handler EXCEPT !.busy = FALSE, !.polls = 0]
               /\ request' = [request EXCEPT ![handler.tab][handler.conn].stage = "failed"]
  /\ UNCHANGED pages

\* Mutant: the loop is compiled out.
InstantReadAtOnce ==
  LET t == handler.tab  c == handler.conn
  IN  /\ handler.busy
      /\ ReadCapture
      /\ Answer(t, c, FALSE, request[t][c].cap, Samples)
      /\ handler' = [handler EXCEPT !.busy = FALSE, !.polls = 0]
      /\ UNCHANGED <<live, saved, triggered, stopAt, captures, pages>>

\* The rest of it: the flag was set by the last poll.
InstantRead ==
  LET t == handler.tab  c == handler.conn
  IN  /\ handler.busy /\ triggered
      /\ ReadCapture
      /\ Answer(t, c, FALSE, request[t][c].cap, Samples)
      /\ handler' = [handler EXCEPT !.busy = FALSE, !.polls = 0]
      /\ UNCHANGED <<live, saved, triggered, stopAt, captures, pages>>

\* la_configure_handler: every field is optional.
Configure ==
  /\ ~handler.busy
  /\ live' \in Configs
  /\ UNCHANGED <<saved, triggered, stopAt, fpga, captures, handler, request, pages>>

\* The trigger condition is met and the memory filled.
Trigger ==
  /\ fpga.phase = "armed"
  /\ fpga' = [fpga EXCEPT !.phase = "stopped", !.whole = TRUE]
  /\ UNCHANGED <<live, saved, triggered, stopAt, captures, handler, request, pages>>

Serve(t, c) == ServeStart(t, c) \/ ServePoll(t, c) \/ ServeData(t, c) \/ InstantStart(t, c)
Deliver(t, c) == \/ DeliverStart(t, c) \/ CheckPoll(t, c) \/ UsePoll(t, c)
                 \/ FailPoll(t, c) \/ DeliverData(t, c)

Next ==
  \/ \E t \in Tabs : ClickStart(t) \/ ClickInstant(t) \/ PollTimer(t)
  \/ \E t \in Tabs, c \in Connections : Fail(t, c) \/ Serve(t, c) \/ Deliver(t, c)
  \/ InstantPoll \/ InstantRead \/ Configure \/ Trigger

Spec == Init /\ [][Next]_vars

\* httpd serves every connection, the network delivers or fails, the interval
\* of a page gets a connection in its turn.  Nobody has to click, and no trigger has to come.
Fairness ==
  /\ \A t \in Tabs : SF_vars(PollTimer(t))
  /\ \A t \in Tabs, c \in Connections : WF_vars(Serve(t, c)) /\ WF_vars(Deliver(t, c))
  /\ WF_vars(InstantPoll \/ InstantRead)

FairSpec == Spec /\ Fairness

-----------------------------------------------------------------------------
(* Properties. *)

\* la_instant_capture_handler answers with the samples of the capture it
\* started, complete, or with an error: never with those of another page's
\* capture, nor with a memory that is still being filled.
InstantIsOwn ==
  \A t \in Tabs, c \in Connections :
    request[t][c].kind = "instant" /\ request[t][c].stage = "answered"
      => request[t][c].data = request[t][c].cap

\* What fetchCapturedData draws after a trigger is the complete capture of the
\* last start of this page, unless a request of an earlier capture was still
\* under way when it was started or something else was clicked since.  When a
\* second poll fetches as well, its body read after the polling was over, polls
\* served in between may have started the engine anew: what is drawn then is that
\* capture or nobody's, and still no other capture.
PageShowsItsCapture ==
  [][\A t \in Tabs : \A c \in Connections :
       request[t][c].kind = "data" /\ DeliverData(t, c) /\ clean
         /\ request[t][c].stage = "answered"
         => shown'[t] = mine[t] \/ (late[t] /\ shown'[t] = Junk)]_vars

\* Without the condition, as checkStatus assumes: "Check again in case cancelled
\* during fetch".  What is under way for an earlier capture when the next one
\* starts passes for the new one's.
AnswersAreCurrent ==
  [][\A t \in Tabs : \A c \in Connections :
       request[t][c].kind = "data" /\ DeliverData(t, c)
         /\ request[t][c].stage = "answered"
         => shown'[t] = mine[t] \/ late[t]]_vars

\* Settings sent while a capture is armed do not reach the capture: every
\* status poll repeats the sample rate and the position of the start.
StartSettingsKept == fpga.phase # "off" => fpga.cfg = saved

\* While httpd is in the loop of an instant capture, the engine holds the
\* capture of that request, armed or complete, and once the flag is set the
\* stop position is that capture's.
LoopOwnsEngine ==
  handler.busy =>
    LET r == request[handler.tab][handler.conn]
    IN  /\ r.kind = "instant" /\ r.stage = "sent" /\ r.cap = fpga.cap
        /\ fpga.phase \in {"armed", "stopped"}
        /\ fpga.phase = "stopped" => fpga.whole
        /\ triggered => fpga.phase = "stopped" /\ stopAt = fpga.cap

\* The inductive invariant: types, the settings of the start reach every frame
\* that follows it, and no other request touches the engine while httpd waits.
IInv == TypeOK /\ StartSettingsKept /\ LoopOwnsEngine

\* A page that polls learns of a capture that has stopped, or stops polling.
TriggerIsNoticed ==
  \A t \in Tabs : polling[t] /\ fpga.phase = "stopped"
                    ~> ~polling[t] \/ fpga.phase # "stopped"

\* An instant capture frees httpd, whether or not the FPGA ever stops.
InstantEnds == handler.busy ~> ~handler.busy
=============================================================================
