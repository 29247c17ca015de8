--------------------------- MODULE LaCaptureProofs ---------------------------
(* For any number of pages, connections and captures: httpd, waiting for the *)
(* FPGA, owns the capture of the request it serves, so that an instant       *)
(* capture is answered with its own samples; and the settings of a start are *)
(* those of every frame that follows.                                        *)
EXTENDS LaCapture, TLAPS

DeviceOK ==
  /\ live \in Configs /\ saved \in Configs /\ triggered \in BOOLEAN
  /\ stopAt \in Captures /\ captures \in Captures
  /\ fpga \in Fpga /\ handler \in Handler

PagesOK ==
  /\ clean \in BOOLEAN /\ polling \in [Tabs -> BOOLEAN] /\ late \in [Tabs -> BOOLEAN]
  /\ shown \in [Tabs -> Captures] /\ mine \in [Tabs -> Captures]

Requests == [Tabs -> [Connections -> Request]]

\* The answer to an instant capture carries its own samples.
OwnData(r) == r.kind = "instant" /\ r.stage = "answered" => r.data = r.cap

\* IInv, in the parts an action can disturb.  The engine has the settings of
\* the last start also while it is off.
Inv ==
  /\ DeviceOK /\ PagesOK /\ request \in Requests
  /\ fpga.cfg = saved /\ LoopOwnsEngine
  /\ \A t \in Tabs, c \in Connections : OwnData(request[t][c])

LEMMA InvImplies == Inv => IInv /\ InstantIsOwn
BY DEF Inv, IInv, InstantIsOwn, TypeOK, DeviceOK, PagesOK, Requests, StartSettingsKept, OwnData

-----------------------------------------------------------------------------
(* Requests. *)

LEMMA SentTyped ==
  /\ \A kind \in {"none", "start", "poll", "data", "instant"} :
       Sent(kind) \in Request /\ OwnData(Sent(kind))
  /\ NoRequest \in Request /\ OwnData(NoRequest)
BY DEF Sent, NoRequest, Request, OwnData, Captures, Junk

\* One request is replaced.
LEMMA UpdateTyped ==
  ASSUME Inv, NEW t \in Tabs, NEW c \in Connections, NEW v \in Request,
         request' = [request EXCEPT ![t][c] = v]
  PROVE  request' \in Requests /\ request'[t][c] = v
BY DEF Inv, Requests

LEMMA UpdateOthers ==
  ASSUME Inv, NEW t \in Tabs, NEW c \in Connections, NEW v \in Request,
         request' = [request EXCEPT ![t][c] = v],
         NEW u \in Tabs, NEW d \in Connections, u # t \/ d # c
  PROVE  request'[u][d] = request[u][d]
BY DEF Inv, Requests

LEMMA UpdateOwn ==
  ASSUME Inv, NEW t \in Tabs, NEW c \in Connections, NEW v \in Request, OwnData(v),
         request' = [request EXCEPT ![t][c] = v],
         NEW u \in Tabs, NEW d \in Connections
  PROVE  OwnData(request'[u][d])
<1>1. OwnData(request[u][d])
  BY DEF Inv
<1>2. CASE u = t /\ d = c
  BY <1>2, UpdateTyped
<1>3. CASE u # t \/ d # c
  BY <1>1, <1>3, UpdateOthers
<1>4. QED BY <1>2, <1>3

\* A request that is not the one httpd is waiting for.
Elsewhere(t, c) == handler.busy => ~(handler.tab = t /\ handler.conn = c)

\* The pages' steps: one request of theirs changes.
LEMMA PageStep ==
  ASSUME Inv, NEW t \in Tabs, NEW c \in Connections, Elsewhere(t, c),
         NEW v \in Request, OwnData(v), request' = [request EXCEPT ![t][c] = v],
         UNCHANGED device, PagesOK'
  PROVE  Inv'
<1>1. request' \in Requests
  BY UpdateTyped
<1>2. DeviceOK' /\ fpga'.cfg = saved'
  BY DEF Inv, DeviceOK, device
<1>3. LoopOwnsEngine'
  <2>1. handler.tab \in Tabs /\ handler.conn \in Connections
    BY DEF Inv, DeviceOK, Handler
  <2>2. handler.busy => request'[handler.tab][handler.conn] = request[handler.tab][handler.conn]
    BY <2>1, UpdateOthers DEF Elsewhere
  <2>3. QED BY <2>2 DEF Inv, LoopOwnsEngine, device
<1>4. \A u \in Tabs, d \in Connections : OwnData(request'[u][d])
  BY UpdateOwn
<1>5. QED BY <1>1, <1>2, <1>3, <1>4 DEF Inv

\* httpd waits for an instant request, and not for one that is over or unused.
LEMMA OtherKind ==
  ASSUME Inv, NEW t \in Tabs, NEW c \in Connections,
         request[t][c].kind # "instant" \/ request[t][c].stage # "sent"
  PROVE  Elsewhere(t, c)
BY DEF Inv, LoopOwnsEngine, Elsewhere

LEMMA SendIInv ==
  ASSUME Inv, NEW t \in Tabs, NEW kind \in {"start", "poll", "data", "instant"},
         Send(t, kind), UNCHANGED device, PagesOK'
  PROVE  Inv'
<1>1. PICK c \in Connections :
        Free(t, c) /\ request' = [request EXCEPT ![t][c] = Sent(kind)]
  BY DEF Send
<1>2. Elsewhere(t, c)
  BY <1>1, OtherKind DEF Free
<1>3. QED BY <1>1, <1>2, SentTyped, PageStep

LEMMA ClickIInv ==
  ASSUME Inv, NEW t \in Tabs, ClickStart(t) \/ ClickInstant(t) \/ PollTimer(t)
  PROVE  Inv'
<1>1. InProgress \in BOOLEAN
  BY DEF InProgress
<1>2. PagesOK' /\ UNCHANGED device
  BY <1>1 DEF ClickStart, ClickInstant, PollTimer, Inv, PagesOK, pages
<1>3. CASE UNCHANGED request
  BY <1>2, <1>3 DEF Inv, DeviceOK, LoopOwnsEngine, device
<1>4. CASE \E kind \in {"start", "poll", "data", "instant"} : Send(t, kind)
  BY <1>2, <1>4, SendIInv
<1>5. QED BY <1>3, <1>4 DEF ClickStart, ClickInstant, PollTimer

LEMMA FailIInv ==
  ASSUME Inv, NEW t \in Tabs, NEW c \in Connections, Fail(t, c) PROVE Inv'
<1> DEFINE v == [request[t][c] EXCEPT !.stage = "failed"]
<1>1. v \in Request /\ OwnData(v)
  <2>1. request[t][c] \in Request
    BY DEF Inv, Requests
  <2>2. QED BY <2>1 DEF Request, OwnData
<1>2. request' = [request EXCEPT ![t][c] = v]
  BY DEF Fail
<1>3. Elsewhere(t, c) /\ UNCHANGED device /\ PagesOK'
  BY DEF Fail, Elsewhere, Inv, PagesOK, pages
<1> HIDE DEF v
<1>4. QED BY <1>1, <1>2, <1>3, PageStep

\* The headers of a poll's answer are looked at.
LEMMA CheckedTyped ==
  ASSUME Inv, NEW t \in Tabs, NEW c \in Connections, request[t][c].kind = "poll",
         NEW v, v = [request[t][c] EXCEPT !.stage = "checked"]
  PROVE  /\ v \in Request /\ OwnData(v) /\ v.kind = "poll" /\ v.stage = "checked"
         /\ v.yes = request[t][c].yes
<1>1. request[t][c] \in Request
  BY DEF Inv, Requests
<1>2. QED BY <1>1 DEF Request, OwnData

LEMMA CheckIInv ==
  ASSUME Inv, NEW t \in Tabs, NEW c \in Connections, CheckPoll(t, c) PROVE Inv'
<1> DEFINE v == [request[t][c] EXCEPT !.stage = "checked"]
<1>1. v \in Request /\ OwnData(v)
  BY CheckedTyped DEF CheckPoll
<1>2. \/ request' = [request EXCEPT ![t][c] = v]
      \/ request' = [request EXCEPT ![t][c] = NoRequest]
  BY DEF CheckPoll
<1>3. PagesOK' /\ UNCHANGED device
  BY DEF CheckPoll, pages, Inv, PagesOK
<1>4. Elsewhere(t, c)
  BY OtherKind DEF CheckPoll
<1> HIDE DEF v
<1>5. QED BY <1>1, <1>2, <1>3, <1>4, SentTyped, PageStep

LEMMA DeliverIInv ==
  ASSUME Inv, NEW t \in Tabs, NEW c \in Connections, Deliver(t, c) PROVE Inv'
<1>1. CASE CheckPoll(t, c)
  BY <1>1, CheckIInv
<1>2. CASE DeliverStart(t, c) \/ UsePoll(t, c) \/ FailPoll(t, c) \/ DeliverData(t, c)
  <2>1. request[t][c] \in Request /\ request[t][c].data \in Captures
    BY DEF Inv, Requests, Request
  <2>2. request[t][c].stage \in {"answered", "checked", "failed"}
    BY <1>2 DEF DeliverStart, UsePoll, FailPoll, DeliverData, Arrived
  <2>3. PICK v \in {NoRequest, Sent("data")} : request' = [request EXCEPT ![t][c] = v]
    BY <1>2 DEF DeliverStart, UsePoll, FailPoll, DeliverData
  <2>4. PagesOK' /\ UNCHANGED device
    BY <1>2, <2>1 DEF DeliverStart, UsePoll, FailPoll, DeliverData, Inv, PagesOK
  <2>5. Elsewhere(t, c)
    BY <2>2, OtherKind
  <2>6. QED BY <2>3, <2>4, <2>5, SentTyped, PageStep
<1>3. QED BY <1>1, <1>2 DEF Deliver

-----------------------------------------------------------------------------
(* The firmware. *)

LEMMA StartTyped ==
  ASSUME Inv, StartCapture
  PROVE  /\ captures' \in Captures /\ triggered' = FALSE /\ saved' \in Configs
         /\ fpga' \in Fpga /\ fpga'.cfg = saved'
         /\ fpga'.phase = "armed" /\ fpga'.cap = captures + 1
BY DEF StartCapture, Inv, DeviceOK, Captures, Fpga

\* A status poll: an engine that is not being read only passes its stop flag on.
LEMMA StatusTyped ==
  ASSUME Inv, NEW stop \in BOOLEAN, ReadStatus(stop)
  PROVE  /\ triggered' = stop /\ stopAt' \in Captures
         /\ fpga' \in Fpga /\ fpga'.cfg = saved'
         /\ UNCHANGED <<live, saved, captures>>
         /\ fpga.phase # "reading" =>
              /\ fpga'.phase = fpga.phase /\ fpga'.cap = fpga.cap
              /\ fpga'.whole = fpga.whole
              /\ stop => fpga.phase = "stopped" /\ stopAt' = fpga.cap
<1>1. fpga \in Fpga /\ saved \in Configs /\ stopAt \in Captures
  BY DEF Inv, DeviceOK
<1>2. PICK restarts \in BOOLEAN :
        /\ restarts => fpga.phase = "reading"
        /\ stop => fpga.phase \in {"stopped", "reading"} /\ fpga.whole
        /\ fpga' = [phase |-> IF restarts THEN "armed" ELSE fpga.phase,
                    cap   |-> IF restarts THEN Junk ELSE fpga.cap,
                    whole |-> fpga.whole /\ ~restarts,
                    cfg   |-> saved]
  BY DEF ReadStatus, StatusSettings
<1>3. fpga.cap \in Captures /\ Junk \in Captures /\ fpga.whole \in BOOLEAN
  BY <1>1 DEF Fpga, Captures, Junk
<1>4. fpga' \in Fpga
  BY <1>1, <1>2, <1>3 DEF Fpga
<1>5. stopAt' \in Captures
  BY <1>1, <1>3 DEF ReadStatus
<1>6. QED BY <1>2, <1>3, <1>4, <1>5 DEF ReadStatus

LEMMA SamplesTyped == ASSUME Inv PROVE Samples \in Captures
BY DEF Inv, DeviceOK, Fpga, Captures, Samples, Junk

LEMMA ReadTyped ==
  ASSUME Inv, ReadCapture PROVE fpga' \in Fpga /\ fpga'.cfg = fpga.cfg
BY DEF ReadCapture, Inv, DeviceOK, Fpga

LEMMA AnswerTyped ==
  ASSUME Inv, NEW t \in Tabs, NEW c \in Connections, NEW yes \in BOOLEAN,
         NEW cap \in Captures, NEW data \in Captures, Answer(t, c, yes, cap, data),
         request[t][c].kind # "instant" \/ data = cap
  PROVE  /\ request' \in Requests
         /\ \A u \in Tabs, d \in Connections : OwnData(request'[u][d])
<1> DEFINE v == [request[t][c] EXCEPT !.stage = "answered", !.yes = yes, !.cap = cap,
                                      !.data = data]
<1>1. v \in Request /\ OwnData(v)
  <2>1. request[t][c] \in Request
    BY DEF Inv, Requests
  <2>2. QED BY <2>1 DEF Request, OwnData
<1>2. request' = [request EXCEPT ![t][c] = v]
  BY DEF Answer
<1> HIDE DEF v
<1>3. QED BY <1>1, <1>2, UpdateTyped, UpdateOwn

\* A handler that does not wait: httpd is idle before and after it.
LEMMA ServeIInv ==
  ASSUME Inv, NEW t \in Tabs, NEW c \in Connections,
         ServeStart(t, c) \/ ServePoll(t, c) \/ ServeData(t, c)
  PROVE  Inv'
<1>1. ~handler.busy /\ handler' = handler /\ handler \in Handler
  BY DEF ServeStart, ServePoll, ServeData, Served, Inv, DeviceOK
<1>2. LoopOwnsEngine'
  BY <1>1 DEF LoopOwnsEngine
<1>3. 0 \in Captures /\ Junk \in Captures
  BY DEF Captures, Junk
<1>4. CASE ServeStart(t, c)
  <2>1. /\ request' \in Requests
        /\ \A u \in Tabs, d \in Connections : OwnData(request'[u][d])
    BY <1>3, <1>4, AnswerTyped DEF ServeStart, Served
  <2>2. DeviceOK' /\ fpga'.cfg = saved'
    BY <1>1, <1>4, StartTyped DEF ServeStart, Inv, DeviceOK
  <2>3. captures + 1 \in Captures
    BY DEF Inv, DeviceOK, Captures
  <2>4. PagesOK'
    BY <1>4, <2>3 DEF ServeStart, Inv, PagesOK
  <2>5. QED BY <1>2, <2>1, <2>2, <2>4 DEF Inv
<1>5. CASE ServePoll(t, c)
  <2>1. PICK stop \in BOOLEAN : ReadStatus(stop) /\ Answer(t, c, stop, 0, Junk)
    BY <1>5 DEF ServePoll
  <2>2. /\ request' \in Requests
        /\ \A u \in Tabs, d \in Connections : OwnData(request'[u][d])
    BY <1>3, <1>5, <2>1, AnswerTyped DEF ServePoll, Served
  <2>3. DeviceOK' /\ fpga'.cfg = saved'
    BY <1>1, <2>1, StatusTyped DEF Inv, DeviceOK
  <2>4. PagesOK'
    BY <1>5 DEF ServePoll, Inv, PagesOK, pages
  <2>5. QED BY <1>2, <2>2, <2>3, <2>4 DEF Inv
<1>6. CASE ServeData(t, c)
  <2>1. /\ request' \in Requests
        /\ \A u \in Tabs, d \in Connections : OwnData(request'[u][d])
    BY <1>3, <1>6, SamplesTyped, AnswerTyped DEF ServeData, Served
  <2>2. DeviceOK' /\ fpga'.cfg = saved'
    BY <1>1, <1>6, ReadTyped DEF ServeData, Inv, DeviceOK
  <2>3. PagesOK'
    BY <1>6 DEF ServeData, Inv, PagesOK, pages
  <2>4. QED BY <1>2, <2>1, <2>2, <2>3 DEF Inv
<1>7. QED BY <1>4, <1>5, <1>6

LEMMA InstantStartIInv ==
  ASSUME Inv, NEW t \in Tabs, NEW c \in Connections, InstantStart(t, c) PROVE Inv'
<1> DEFINE v == [request[t][c] EXCEPT !.cap = captures + 1]
<1>1. /\ request[t][c] \in Request /\ request[t][c].kind = "instant"
      /\ request[t][c].stage = "sent" /\ captures + 1 \in Captures
  BY DEF InstantStart, Served, Inv, Requests, DeviceOK, Captures
<1>2. /\ v \in Request /\ v.kind = "instant" /\ v.stage = "sent" /\ v.cap = captures + 1
  BY <1>1 DEF Request
<1>3. request' = [request EXCEPT ![t][c] = v]
  BY DEF InstantStart
<1> HIDE DEF v
<1>4. request' \in Requests /\ request'[t][c] = v
  BY <1>2, <1>3, UpdateTyped
<1>5. /\ handler' \in Handler /\ handler'.busy /\ handler'.tab = t /\ handler'.conn = c
  <2>1. 0 \in 0 .. MaxPolls
    BY MaxAssumption
  <2>2. QED BY <2>1 DEF InstantStart, Handler
<1>6. DeviceOK' /\ fpga'.cfg = saved'
  BY <1>5, StartTyped DEF InstantStart, Inv, DeviceOK
<1>7. LoopOwnsEngine'
  BY <1>2, <1>4, <1>5, StartTyped DEF InstantStart, LoopOwnsEngine
<1>8. \A u \in Tabs, d \in Connections : OwnData(request'[u][d])
  <2>1. OwnData(v)
    BY <1>2 DEF OwnData
  <2>2. QED BY <1>2, <1>3, <2>1, UpdateOwn
<1>9. PagesOK'
  BY DEF InstantStart, Inv, PagesOK, pages
<1>10. QED BY <1>4, <1>6, <1>7, <1>8, <1>9 DEF Inv

\* In the loop no other handler runs: the engine is armed or has stopped with
\* this request's capture, and the flag is read from it.
LEMMA InstantPollIInv == ASSUME Inv, InstantPoll PROVE Inv'
<1>1. PICK stop \in BOOLEAN :
        /\ ReadStatus(stop)
        /\ IF stop
           THEN UNCHANGED <<handler, request>>
           ELSE IF handler.polls < MaxPolls
           THEN handler' = [handler EXCEPT !.polls = @ + 1] /\ UNCHANGED request
           ELSE /\ handler' = [handler EXCEPT !.busy = FALSE, !.polls = 0]
                /\ request' = [request EXCEPT ![handler.tab][handler.conn].stage = "failed"]
  BY DEF InstantPoll
<1>2. /\ handler.busy /\ handler.tab \in Tabs /\ handler.conn \in Connections
      /\ handler \in Handler /\ handler.polls \in 0 .. MaxPolls
      /\ fpga.phase \in {"armed", "stopped"}
  BY DEF InstantPoll, Inv, DeviceOK, Handler, LoopOwnsEngine
<1>3. handler' \in Handler
  <2>1. 0 \in 0 .. MaxPolls /\ (handler.polls < MaxPolls => handler.polls + 1 \in 0 .. MaxPolls)
    BY <1>2, MaxAssumption
  <2>2. QED BY <1>1, <1>2, <2>1 DEF Handler
<1>4. DeviceOK' /\ fpga'.cfg = saved'
  BY <1>1, <1>3, StatusTyped DEF Inv, DeviceOK
<1>5. PagesOK'
  BY DEF InstantPoll, Inv, PagesOK, pages
<1>6. CASE UNCHANGED request
  <2>1. handler'.tab = handler.tab /\ handler'.conn = handler.conn
    BY <1>1, <1>2 DEF Handler
  <2>2. LoopOwnsEngine'
    BY <1>1, <1>2, <1>6, <2>1, StatusTyped DEF Inv, LoopOwnsEngine
  <2>3. QED BY <1>4, <1>5, <1>6, <2>2 DEF Inv
<1>7. CASE /\ handler' = [handler EXCEPT !.busy = FALSE, !.polls = 0]
           /\ request' = [request EXCEPT ![handler.tab][handler.conn].stage = "failed"]
  <2> DEFINE v == [request[handler.tab][handler.conn] EXCEPT !.stage = "failed"]
  <2>1. request[handler.tab][handler.conn] \in Request
    BY <1>2 DEF Inv, Requests
  <2>2. v \in Request /\ OwnData(v)
    BY <2>1 DEF Request, OwnData
  <2>3. request' = [request EXCEPT ![handler.tab][handler.conn] = v]
    BY <1>7
  <2> HIDE DEF v
  <2>4. /\ request' \in Requests
        /\ \A u \in Tabs, d \in Connections : OwnData(request'[u][d])
    BY <1>2, <2>2, <2>3, UpdateTyped, UpdateOwn
  <2>5. LoopOwnsEngine'
    BY <1>2, <1>7 DEF LoopOwnsEngine, Handler
  <2>6. QED BY <1>4, <1>5, <2>4, <2>5 DEF Inv
<1>8. QED BY <1>1, <1>6, <1>7

LEMMA InstantReadIInv == ASSUME Inv, InstantRead PROVE Inv'
<1> DEFINE t == handler.tab
           c == handler.conn
<1>1. /\ t \in Tabs /\ c \in Connections /\ handler \in Handler
      /\ request[t][c].cap = fpga.cap /\ fpga.whole /\ stopAt = fpga.cap
  BY DEF InstantRead, Inv, DeviceOK, Handler, LoopOwnsEngine
<1>2. Samples = request[t][c].cap /\ request[t][c].cap \in Captures
  BY <1>1, SamplesTyped DEF Samples
<1>3. Answer(t, c, FALSE, request[t][c].cap, Samples) /\ ReadCapture
  BY DEF InstantRead
<1>4. handler' \in Handler /\ ~handler'.busy
  <2>1. 0 \in 0 .. MaxPolls
    BY MaxAssumption
  <2>2. QED BY <1>1, <2>1 DEF InstantRead, Handler
<1>5. /\ request' \in Requests
      /\ \A u \in Tabs, d \in Connections : OwnData(request'[u][d])
  BY <1>1, <1>2, <1>3, AnswerTyped
<1>6. DeviceOK' /\ fpga'.cfg = saved'
  BY <1>3, <1>4, ReadTyped DEF InstantRead, Inv, DeviceOK
<1>7. PagesOK'
  BY DEF InstantRead, Inv, PagesOK, pages
<1>8. LoopOwnsEngine'
  BY <1>4 DEF LoopOwnsEngine
<1>9. QED BY <1>5, <1>6, <1>7, <1>8 DEF Inv

LEMMA OtherIInv == ASSUME Inv, Configure \/ Trigger PROVE Inv'
<1>1. PagesOK' /\ UNCHANGED <<request, handler, saved, triggered, stopAt, captures>>
  BY DEF Configure, Trigger, Inv, PagesOK, pages
<1>2. CASE Configure
  <2>1. live' \in Configs /\ fpga' = fpga
    BY <1>2 DEF Configure
  <2>2. QED BY <1>1, <2>1 DEF Inv, DeviceOK, LoopOwnsEngine
<1>3. CASE Trigger
  <2>1. fpga' \in Fpga /\ fpga'.cfg = fpga.cfg /\ fpga'.cap = fpga.cap
    BY <1>3 DEF Trigger, Inv, DeviceOK, Fpga
  <2>2. fpga.phase = "armed" /\ fpga'.phase = "stopped" /\ fpga'.whole /\ live' = live
    BY <1>3 DEF Trigger, Inv, DeviceOK, Fpga
  <2>3. LoopOwnsEngine'
    BY <1>1, <2>1, <2>2 DEF Inv, LoopOwnsEngine
  <2>4. QED BY <1>1, <2>1, <2>2, <2>3 DEF Inv, DeviceOK
<1>4. QED BY <1>2, <1>3

-----------------------------------------------------------------------------
LEMMA InitInv == Init => Inv
<1> SUFFICES ASSUME Init PROVE Inv
  OBVIOUS
<1>1. DeviceOK
  <2>1. fpga \in Fpga /\ stopAt \in Captures /\ captures \in Captures
    BY DEF Init, Fpga, Captures, Junk
  <2>2. handler \in Handler
    <3>1. 0 \in 0 .. MaxPolls
      BY MaxAssumption
    <3>2. QED BY <3>1 DEF Init, Handler
  <2>3. QED BY <2>1, <2>2 DEF Init, DeviceOK
<1>2. PagesOK
  BY DEF Init, PagesOK, Captures, Junk
<1>3. request \in Requests /\ \A t \in Tabs, c \in Connections : OwnData(request[t][c])
  BY SentTyped DEF Init, Requests
<1>4. fpga.cfg = saved /\ ~handler.busy
  BY DEF Init
<1>5. QED BY <1>1, <1>2, <1>3, <1>4 DEF Inv, LoopOwnsEngine

LEMMA NextInv == Inv /\ [Next]_vars => Inv'
<1>1. ASSUME Inv, UNCHANGED vars PROVE Inv'
  BY <1>1 DEF vars, Inv, DeviceOK, PagesOK, LoopOwnsEngine
<1>2. QED
  BY <1>1, ClickIInv, FailIInv, DeliverIInv, ServeIInv, InstantStartIInv, InstantPollIInv,
     InstantReadIInv, OtherIInv DEF Next, Serve

-----------------------------------------------------------------------------
(* The page.  After a start that found nothing in progress, and until something *)
(* else is clicked, there is one page, and no request but those the start led to. *)

Busy(t) == polling[t] \/ \E c \in Connections : ~Free(t, c)

\* The start has been served, and the page does not know of a trigger.
Awaited(t) ==
  \/ polling[t]
  \/ \E c \in Connections : request[t][c].kind = "start" /\ request[t][c].stage = "answered"

\* The engine holds the capture of the page, complete, and where it ended was read.
Ready(t) == fpga.phase = "stopped" /\ fpga.whole /\ fpga.cap = mine[t] /\ stopAt = mine[t]

\* The fetch of a page that has not fetched before carries its own capture.
FirstFetch(t, c) ==
  LET r == request[t][c]
  IN  /\ \A d \in Connections : request[t][d].kind = "data" => d = c
      /\ r.stage = "sent" => Ready(t)
      /\ r.stage = "answered" => r.data = mine[t]

AfterStart(t) ==
  /\ \A c \in Connections : request[t][c].kind # "instant"
  /\ \A c \in Connections :
       request[t][c].kind = "start" =>
         ~polling[t] /\ \A d \in Connections : d # c => Free(t, d)
  /\ Awaited(t) => /\ fpga.cap = mine[t] /\ fpga.phase \in {"armed", "stopped"}
                   /\ fpga.phase = "stopped" => fpga.whole
                   /\ \A c \in Connections : request[t][c].kind # "data"
  /\ polling[t] => \A c \in Connections :
       LET r == request[t][c]
       IN  r.kind = "poll" /\ r.stage \in {"answered", "checked"} /\ r.yes => Ready(t)
  /\ \A c \in Connections :
       request[t][c].kind \in {"poll", "data"} => fpga.cap \in {mine[t], Junk}
  /\ \A c \in Connections :
       LET r == request[t][c]
       IN  r.kind = "data" =>
             /\ ~polling[t] /\ (late[t] \/ FirstFetch(t, c))
             /\ r.stage = "answered" => r.data \in {mine[t], Junk}

CleanInv ==
  clean => /\ \A t, u \in Tabs : Busy(t) /\ Busy(u) => t = u
           /\ \A t \in Tabs : AfterStart(t)

LEMMA IdleAfterStart == ASSUME NEW t \in Tabs, ~Busy(t) PROVE AfterStart(t)
BY DEF Busy, AfterStart, Awaited, Free

\* A step of the one page that is busy, or of httpd for it.
LEMMA OnePageStep ==
  ASSUME CleanInv, clean, NEW t \in Tabs, Busy(t),
         \A u \in Tabs : u # t => polling'[u] = polling[u] /\ request'[u] = request[u],
         AfterStart(t)'
  PROVE  CleanInv'
<1>1. \A u \in Tabs : u # t => ~Busy(u)
  BY DEF CleanInv
<1>2. \A u \in Tabs : u # t => ~Busy(u)'
  BY <1>1 DEF Busy, Free
<1>3. \A u \in Tabs : ~Busy(u)' => AfterStart(u)'
  BY DEF Busy, AfterStart, Awaited, Free
<1>4. QED BY <1>2, <1>3 DEF CleanInv

\* One request of the page is replaced.
LEMMA OneRequestStep ==
  ASSUME Inv, NEW t \in Tabs, NEW c \in Connections, NEW v \in Request,
         request' = [request EXCEPT ![t][c] = v]
  PROVE  /\ request'[t][c] = v
         /\ \A d \in Connections : d # c => request'[t][d] = request[t][d]
         /\ \A u \in Tabs : u # t => request'[u] = request[u]
BY DEF Inv, Requests

LEMMA OnePollingStep ==
  ASSUME Inv, NEW t \in Tabs, NEW b \in BOOLEAN, polling' = [polling EXCEPT ![t] = b]
  PROVE  polling'[t] = b /\ \A u \in Tabs : u # t => polling'[u] = polling[u]
BY DEF Inv, PagesOK

LEMMA ClickClean ==
  ASSUME Inv, CleanInv, NEW t \in Tabs, ClickStart(t) \/ ClickInstant(t) \/ PollTimer(t)
  PROVE  CleanInv'
<1> SUFFICES ASSUME clean' PROVE CleanInv'
  BY DEF CleanInv
<1>1. CASE polling[t] /\ polling' = [polling EXCEPT ![t] = FALSE]
           /\ UNCHANGED <<request, clean, device, mine, late>>
  <2>1. polling'[t] = FALSE /\ \A u \in Tabs : u # t => polling'[u] = polling[u]
    BY <1>1, OnePollingStep
  <2>2. Busy(t) /\ AfterStart(t) /\ clean
    BY <1>1 DEF Busy, CleanInv
  <2>3. \A c \in Connections : request[t][c].kind # "start" /\ request[t][c].kind # "data"
    BY <1>1, <2>2 DEF AfterStart
  <2>4. AfterStart(t)'
    BY <1>1, <2>1, <2>2, <2>3 DEF AfterStart, Awaited, Free, device
  <2>5. QED BY <1>1, <2>1, <2>2, <2>4, OnePageStep
<1>2. CASE Send(t, "start") /\ clean' = ~InProgress /\ UNCHANGED <<polling, device, mine>>
  <2>1. PICK c \in Connections : Free(t, c) /\ request' = [request EXCEPT ![t][c] = Sent("start")]
    BY <1>2 DEF Send
  <2>2. /\ request'[t][c] = Sent("start")
        /\ \A d \in Connections : d # c => request'[t][d] = request[t][d]
        /\ \A u \in Tabs : u # t => request'[u] = request[u]
    BY <2>1, SentTyped, OneRequestStep
  <2>3. \A u \in Tabs : ~Busy(u)
    BY <1>2 DEF InProgress, Busy
  <2>4. \A u \in Tabs : u # t => ~Busy(u)'
    BY <1>2, <2>2, <2>3 DEF Busy, Free
  <2>5. AfterStart(t)'
    BY <1>2, <2>2, <2>3 DEF AfterStart, Awaited, Free, Busy, Sent
  <2>6. \A u \in Tabs : ~Busy(u)' => AfterStart(u)'
    BY DEF Busy, AfterStart, Awaited, Free
  <2>7. QED BY <2>4, <2>5, <2>6 DEF CleanInv
<1>3. CASE PollTimer(t)
  <2>1. PICK c \in Connections : Free(t, c) /\ request' = [request EXCEPT ![t][c] = Sent("poll")]
    BY <1>3 DEF PollTimer, Send
  <2>2. /\ request'[t][c] = Sent("poll")
        /\ \A d \in Connections : d # c => request'[t][d] = request[t][d]
        /\ \A u \in Tabs : u # t => request'[u] = request[u]
    BY <2>1, SentTyped, OneRequestStep
  <2>3. polling[t] /\ UNCHANGED <<clean, polling, mine, fpga, stopAt>>
    BY <1>3 DEF PollTimer, pages, device
  <2>4. Busy(t) /\ AfterStart(t)
    BY <2>3 DEF Busy, CleanInv
  <2>5. \A d \in Connections : request[t][d].kind # "start" /\ request[t][d].kind # "data"
    BY <2>3, <2>4 DEF AfterStart, Awaited
  <2>6. AfterStart(t)'
    BY <2>2, <2>3, <2>4, <2>5 DEF AfterStart, Awaited, Free, Ready, Sent
  <2>7. QED BY <2>2, <2>3, <2>4, <2>6, OnePageStep
<1>4. QED
  BY <1>1, <1>2, <1>3 DEF ClickStart, ClickInstant, device

LEMMA FailClean ==
  ASSUME Inv, CleanInv, NEW t \in Tabs, NEW c \in Connections, Fail(t, c) PROVE CleanInv'
<1> SUFFICES ASSUME clean' PROVE CleanInv'
  BY DEF CleanInv
<1> DEFINE v == [request[t][c] EXCEPT !.stage = "failed"]
<1>1. UNCHANGED <<clean, polling, mine, late, fpga, stopAt>> /\ ~Free(t, c)
  BY DEF Fail, pages, device
<1>2. v \in Request /\ v.kind = request[t][c].kind /\ v.stage = "failed"
  <2>1. request[t][c] \in Request
    BY DEF Inv, Requests
  <2>2. QED BY <2>1 DEF Request
<1>3. request' = [request EXCEPT ![t][c] = v]
  BY DEF Fail
<1> HIDE DEF v
<1>4. /\ request'[t][c] = v
      /\ \A d \in Connections : d # c => request'[t][d] = request[t][d]
      /\ \A u \in Tabs : u # t => request'[u] = request[u]
  BY <1>2, <1>3, OneRequestStep
<1>5. Busy(t) /\ AfterStart(t)
  BY <1>1 DEF Busy, CleanInv
<1>6. AfterStart(t)'
  BY <1>1, <1>2, <1>4, <1>5 DEF AfterStart, FirstFetch, Awaited, Free, Ready
<1>7. QED BY <1>1, <1>4, <1>5, <1>6, OnePageStep

LEMMA CheckClean ==
  ASSUME Inv, CleanInv, NEW t \in Tabs, NEW c \in Connections, CheckPoll(t, c), clean
  PROVE  CleanInv'
<1>1. /\ UNCHANGED <<clean, mine, late, polling, fpga, stopAt>> /\ ~Free(t, c)
      /\ request[t][c].kind = "poll" /\ request[t][c].stage = "answered"
  BY DEF CheckPoll, Free, pages, device
<1>2. Busy(t) /\ AfterStart(t)
  BY <1>1 DEF Busy, CleanInv
<1> DEFINE w == [request[t][c] EXCEPT !.stage = "checked"]
           v == IF polling[t] THEN w ELSE NoRequest
<1>3. /\ w \in Request /\ w.kind = "poll" /\ w.stage = "checked" /\ w.yes = request[t][c].yes
  BY <1>1, CheckedTyped
<1> HIDE DEF w
<1>4. /\ v \in Request /\ (v.kind = "none" \/ (v.kind = "poll" /\ v.yes = request[t][c].yes))
  <2>1. NoRequest \in Request /\ NoRequest.kind = "none"
    BY SentTyped DEF NoRequest, Sent
  <2>2. CASE polling[t]
    BY <1>3, <2>2
  <2>3. CASE ~polling[t]
    BY <2>1, <2>3
  <2>4. QED BY <2>2, <2>3
<1>5. request' = [request EXCEPT ![t][c] = v]
  <2>1. CASE polling[t]
    BY <2>1 DEF CheckPoll, w
  <2>2. CASE ~polling[t]
    BY <2>2 DEF CheckPoll
  <2>3. QED BY <2>1, <2>2
<1> HIDE DEF v
<1>6. /\ request'[t][c] = v
      /\ \A d \in Connections : d # c => request'[t][d] = request[t][d]
      /\ \A u \in Tabs : u # t => request'[u] = request[u]
  BY <1>4, <1>5, OneRequestStep
<1>7. AfterStart(t)'
  BY <1>1, <1>2, <1>4, <1>6 DEF AfterStart, FirstFetch, Awaited, Ready, Free
<1>8. QED BY <1>1, <1>2, <1>6, <1>7, OnePageStep

LEMMA StartedClean ==
  ASSUME Inv, CleanInv, NEW t \in Tabs, NEW c \in Connections, DeliverStart(t, c), clean
  PROVE  CleanInv'
<1> DEFINE v == NoRequest
           b == request[t][c].stage = "answered"
<1>1. /\ UNCHANGED <<clean, mine, late, fpga, stopAt>> /\ ~Free(t, c)
      /\ request[t][c].kind = "start"
      /\ request' = [request EXCEPT ![t][c] = v]
      /\ polling' = [polling EXCEPT ![t] = b] /\ b \in BOOLEAN
  BY DEF DeliverStart, Arrived, Free, device
<1>2. v \in Request /\ v.kind = "none"
  BY SentTyped DEF NoRequest, Sent
<1>3. b => request[t][c].stage = "answered"
  OBVIOUS
<1> HIDE DEF v, b
<1>4. /\ request'[t][c] = v
      /\ \A d \in Connections : d # c => request'[t][d] = request[t][d]
      /\ \A u \in Tabs : u # t => request'[u] = request[u]
  BY <1>1, <1>2, OneRequestStep
<1>5. polling'[t] = b /\ \A u \in Tabs : u # t => polling'[u] = polling[u]
  BY <1>1, OnePollingStep
<1>6. Busy(t) /\ AfterStart(t)
  BY <1>1 DEF Busy, CleanInv
<1>7. \A d \in Connections : request'[t][d].kind = "none"
  BY <1>1, <1>2, <1>4, <1>6 DEF AfterStart, Free
<1>8. b => /\ fpga.cap = mine[t] /\ fpga.phase \in {"armed", "stopped"}
           /\ fpga.phase = "stopped" => fpga.whole
  BY <1>1, <1>3, <1>6 DEF AfterStart, Awaited
<1>9. AfterStart(t)'
  BY <1>1, <1>5, <1>7, <1>8 DEF AfterStart, Awaited, Free
<1>10. QED BY <1>1, <1>4, <1>5, <1>6, <1>9, OnePageStep

LEMMA UseClean ==
  ASSUME Inv, CleanInv, NEW t \in Tabs, NEW c \in Connections, UsePoll(t, c), clean
  PROVE  CleanInv'
<1> DEFINE yes == request[t][c].yes
           v == IF yes THEN Sent("data") ELSE NoRequest
           b == polling[t] /\ ~yes
<1>1. /\ UNCHANGED <<clean, mine, fpga, stopAt>> /\ ~Free(t, c)
      /\ request[t][c].kind = "poll" /\ request[t][c].stage = "checked"
      /\ request' = [request EXCEPT ![t][c] = v]
      /\ polling' = [polling EXCEPT ![t] = b] /\ b \in BOOLEAN
      /\ late'[t] = (late[t] \/ (yes /\ ~polling[t]))
  BY DEF UsePoll, Free, device, Inv, PagesOK
<1>2. /\ v \in Request
      /\ yes => v.kind = "data" /\ v.stage = "sent"
      /\ ~yes => v.kind = "none"
  BY SentTyped DEF NoRequest, Sent
<1>3. (b => polling[t]) /\ (yes => ~b)
  OBVIOUS
<1> HIDE DEF v, b
<1>4. /\ request'[t][c] = v
      /\ \A d \in Connections : d # c => request'[t][d] = request[t][d]
      /\ \A u \in Tabs : u # t => request'[u] = request[u]
  BY <1>1, <1>2, OneRequestStep
<1>5. polling'[t] = b /\ \A u \in Tabs : u # t => polling'[u] = polling[u]
  BY <1>1, OnePollingStep
<1>6. Busy(t) /\ AfterStart(t)
  BY <1>1 DEF Busy, CleanInv
<1>7. \A d \in Connections : request[t][d].kind # "start"
  BY <1>1, <1>6 DEF AfterStart, Free
<1>8. CASE yes
  <2>1. request'[t][c].kind = "data" /\ request'[t][c].stage = "sent" /\ ~polling'[t]
    BY <1>2, <1>3, <1>4, <1>5, <1>8
  <2>2. late'[t] \/ (Ready(t) /\ ~late[t] /\ \A d \in Connections : request[t][d].kind # "data")
    BY <1>1, <1>6, <1>8 DEF AfterStart, Awaited
  <2>3. late'[t] \/ ~late[t]
    BY <1>1
  <2>4. fpga.cap \in {mine[t], Junk}
    BY <1>1, <1>6 DEF AfterStart
  <2>5. ~Awaited(t)'
    BY <1>4, <1>7, <2>1 DEF Awaited
  <2>6. Ready(t)' = Ready(t)
    BY <1>1 DEF Ready
  <2>7. AfterStart(t)'
    BY <1>1, <1>4, <1>6, <1>7, <2>1, <2>2, <2>4, <2>5, <2>6 DEF AfterStart, FirstFetch
  <2>8. QED BY <1>1, <1>4, <1>5, <1>6, <2>7, OnePageStep
<1>9. CASE ~yes
  <2>1. request'[t][c].kind = "none" /\ (polling'[t] => polling[t]) /\ late'[t] = late[t]
    BY <1>1, <1>2, <1>3, <1>4, <1>5, <1>9 DEF Inv, PagesOK
  <2>2. AfterStart(t)'
    BY <1>1, <1>4, <1>6, <1>7, <2>1 DEF AfterStart, FirstFetch, Awaited, Ready
  <2>3. QED BY <1>1, <1>4, <1>5, <1>6, <2>2, OnePageStep
<1>10. QED BY <1>8, <1>9

\* The polling ends, or the samples are drawn: the request is over.
LEMMA OverClean ==
  ASSUME Inv, CleanInv, NEW t \in Tabs, NEW c \in Connections,
         FailPoll(t, c) \/ DeliverData(t, c), clean
  PROVE  CleanInv'
<1> DEFINE v == NoRequest
<1>1. /\ UNCHANGED <<clean, mine, late, fpga, stopAt>> /\ ~Free(t, c)
      /\ request[t][c].kind # "start" /\ request' = [request EXCEPT ![t][c] = v]
  BY DEF FailPoll, DeliverData, Arrived, Free, device
<1>2. PICK b \in BOOLEAN : polling' = [polling EXCEPT ![t] = b] /\ (b => polling[t])
  BY DEF FailPoll, DeliverData, Inv, PagesOK
<1>3. v \in Request /\ v.kind = "none"
  BY SentTyped DEF NoRequest, Sent
<1> HIDE DEF v
<1>4. /\ request'[t][c] = v
      /\ \A d \in Connections : d # c => request'[t][d] = request[t][d]
      /\ \A u \in Tabs : u # t => request'[u] = request[u]
  BY <1>1, <1>3, OneRequestStep
<1>5. polling'[t] = b /\ \A u \in Tabs : u # t => polling'[u] = polling[u]
  BY <1>2, OnePollingStep
<1>6. Busy(t) /\ AfterStart(t)
  BY <1>1 DEF Busy, CleanInv
<1>7. AfterStart(t)'
  BY <1>1, <1>2, <1>3, <1>4, <1>5, <1>6 DEF AfterStart, FirstFetch, Awaited, Ready, Free
<1>8. QED BY <1>1, <1>4, <1>5, <1>6, <1>7, OnePageStep

LEMMA DeliverClean ==
  ASSUME Inv, CleanInv, NEW t \in Tabs, NEW c \in Connections, Deliver(t, c) PROVE CleanInv'
<1> SUFFICES ASSUME clean' PROVE CleanInv'
  BY DEF CleanInv
<1>1. clean
  BY DEF Deliver, DeliverStart, CheckPoll, UsePoll, FailPoll, DeliverData, pages
<1>2. QED
  BY <1>1, CheckClean, StartedClean, UseClean, OverClean DEF Deliver

\* httpd does not wait: there is no instant request.
LEMMA CleanIdle == ASSUME Inv, CleanInv, clean PROVE ~handler.busy
BY DEF Inv, DeviceOK, Handler, CleanInv, AfterStart, LoopOwnsEngine

LEMMA ServeClean ==
  ASSUME Inv, CleanInv, NEW t \in Tabs, NEW c \in Connections, Serve(t, c) PROVE CleanInv'
<1> SUFFICES ASSUME clean' PROVE CleanInv'
  BY DEF CleanInv
<1> DEFINE r == request[t][c]
<1>1. clean /\ polling' = polling /\ ~Free(t, c) /\ r.stage = "sent"
  BY DEF Serve, ServeStart, ServePoll, ServeData, InstantStart, Served, Free, pages
<1>2. Busy(t) /\ AfterStart(t)
  BY <1>1 DEF Busy, CleanInv
<1>3. r.kind # "instant"
  BY <1>2 DEF AfterStart
<1>4. r \in Request
  BY DEF Inv, Requests
<1>5. ASSUME NEW yes \in BOOLEAN, NEW data \in Captures, Answer(t, c, yes, 0, data)
      PROVE  /\ request'[t][c].kind = r.kind /\ request'[t][c].stage = "answered"
             /\ request'[t][c].yes = yes /\ request'[t][c].data = data
             /\ \A d \in Connections : d # c => request'[t][d] = request[t][d]
             /\ \A u \in Tabs : u # t => request'[u] = request[u]
  <2> DEFINE v == [r EXCEPT !.stage = "answered", !.yes = yes, !.cap = 0, !.data = data]
  <2>1. /\ v \in Request /\ v.kind = r.kind /\ v.stage = "answered" /\ v.yes = yes
        /\ v.data = data
    BY <1>4 DEF Request, Captures
  <2>2. request' = [request EXCEPT ![t][c] = v]
    BY <1>5 DEF Answer
  <2> HIDE DEF v
  <2>3. /\ request'[t][c] = v
        /\ \A d \in Connections : d # c => request'[t][d] = request[t][d]
        /\ \A u \in Tabs : u # t => request'[u] = request[u]
    BY <2>1, <2>2, OneRequestStep
  <2>4. QED BY <2>1, <2>3
<1>6. Junk \in Captures
  BY DEF Junk, Captures
<1>7. CASE ServeStart(t, c)
  <2>1. r.kind = "start" /\ Answer(t, c, FALSE, 0, Junk) /\ StartCapture
    BY <1>7 DEF ServeStart, Served
  <2>2. \A d \in Connections : d # c => request[t][d].kind = "none"
    BY <1>2, <2>1 DEF AfterStart, Free
  <2>3. mine'[t] = captures + 1 /\ fpga'.cap = captures + 1 /\ fpga'.phase = "armed" /\ ~polling[t]
    BY <1>2, <1>7, <2>1 DEF ServeStart, StartCapture, Inv, PagesOK, AfterStart
  <2>4. /\ request'[t][c].kind = "start"
        /\ \A d \in Connections : d # c => request'[t][d].kind = "none"
        /\ \A u \in Tabs : u # t => request'[u] = request[u]
    BY <1>5, <1>6, <2>1, <2>2
  <2>5. AfterStart(t)'
    BY <1>1, <2>3, <2>4 DEF AfterStart, Awaited, Free
  <2>6. QED BY <1>1, <1>2, <2>4, <2>5, OnePageStep
<1>8. CASE ServePoll(t, c)
  <2>1. PICK stop \in BOOLEAN : ReadStatus(stop) /\ Answer(t, c, stop, 0, Junk)
    BY <1>8 DEF ServePoll
  <2>2. r.kind = "poll" /\ mine' = mine /\ late' = late
    BY <1>8 DEF ServePoll, Served, pages
  <2>3. /\ request'[t][c].kind = "poll" /\ request'[t][c].yes = stop
        /\ \A d \in Connections : d # c => request'[t][d] = request[t][d]
        /\ \A u \in Tabs : u # t => request'[u] = request[u]
    BY <1>5, <1>6, <2>1, <2>2
  <2>4. fpga.phase # "reading" =>
          /\ fpga'.phase = fpga.phase /\ fpga'.cap = fpga.cap /\ fpga'.whole = fpga.whole
          /\ stop => fpga.phase = "stopped" /\ stopAt' = fpga.cap
          /\ stopAt' \in {stopAt, fpga.cap}
    BY <2>1, StatusTyped DEF ReadStatus
  <2>5. Ready(t) => Ready(t)'
    BY <2>2, <2>4 DEF Ready
  <2>6. Awaited(t) /\ stop => Ready(t)'
    BY <1>2, <2>2, <2>4 DEF AfterStart, Ready
  <2>7. Awaited(t)' => Awaited(t)
    BY <1>1, <2>2, <2>3 DEF Awaited
  <2>8. fpga'.cap \in {mine'[t], Junk}
    <3>1. fpga'.cap \in {fpga.cap, Junk}
      BY <2>1 DEF ReadStatus
    <3>2. fpga.cap \in {mine[t], Junk}
      BY <1>2, <2>2 DEF AfterStart
    <3>3. QED BY <2>2, <3>1, <3>2
  <2>9. AfterStart(t)'
    BY <1>1, <1>2, <2>2, <2>3, <2>4, <2>5, <2>6, <2>7, <2>8
    DEF AfterStart, FirstFetch, Awaited, Free
  <2>10. QED BY <1>1, <1>2, <2>3, <2>9, OnePageStep
<1>9. CASE ServeData(t, c)
  <2>1. /\ r.kind = "data" /\ Answer(t, c, FALSE, 0, Samples)
        /\ UNCHANGED <<stopAt, mine, late>> /\ fpga'.cap = fpga.cap
    <3>1. fpga \in Fpga
      BY DEF Inv, DeviceOK
    <3>2. fpga'.cap = fpga.cap
      BY <1>9, <3>1 DEF ServeData, ReadCapture, Fpga
    <3>3. QED BY <1>9, <3>2 DEF ServeData, Served, pages
  <2>2. ~polling[t] /\ fpga.cap \in {mine[t], Junk} /\ (late[t] \/ FirstFetch(t, c))
    BY <1>2, <2>1 DEF AfterStart
  <2>3. Samples \in Captures /\ Samples \in {mine[t], Junk}
    BY <2>2, SamplesTyped DEF Samples
  <2>4. late[t] \/ Samples = mine[t]
    BY <1>1, <2>2 DEF FirstFetch, Ready, Samples
  <2>5. /\ request'[t][c].kind = "data" /\ request'[t][c].stage = "answered"
        /\ request'[t][c].data = Samples
        /\ \A d \in Connections : d # c => request'[t][d] = request[t][d]
        /\ \A u \in Tabs : u # t => request'[u] = request[u]
    BY <1>5, <2>1, <2>3
  <2>6. ~Awaited(t) /\ ~Awaited(t)'
    BY <1>1, <1>2, <2>1, <2>2, <2>5 DEF AfterStart, Awaited, Free
  <2>7. late'[t] \/ FirstFetch(t, c)'
    BY <2>1, <2>2, <2>4, <2>5 DEF FirstFetch
  <2>8. \A d \in Connections : d # c /\ request'[t][d].kind = "data" => late'[t]
    BY <2>1, <2>2, <2>5 DEF FirstFetch
  <2>9. AfterStart(t)'
    BY <1>1, <1>2, <2>1, <2>2, <2>3, <2>5, <2>6, <2>7, <2>8 DEF AfterStart, Free
  <2>10. QED BY <1>1, <1>2, <2>5, <2>9, OnePageStep
<1>10. QED
  BY <1>3, <1>7, <1>8, <1>9 DEF Serve, InstantStart, Served

LEMMA NextCleanInv == Inv /\ CleanInv /\ [Next]_vars => CleanInv'
<1> SUFFICES ASSUME Inv, CleanInv, [Next]_vars PROVE CleanInv'
  OBVIOUS
<1>1. CASE UNCHANGED vars
  BY <1>1 DEF vars, CleanInv, Busy, AfterStart, FirstFetch, Awaited, Ready, Free
<1>2. CASE InstantPoll \/ InstantRead
  BY <1>2, CleanIdle DEF InstantPoll, InstantRead, CleanInv, pages
<1>3. CASE Configure
  BY <1>3 DEF Configure, CleanInv, Busy, AfterStart, FirstFetch, Awaited, Ready, Free, pages
<1>4. CASE Trigger
  <2>1. /\ fpga.phase = "armed" /\ fpga'.phase = "stopped" /\ fpga'.whole /\ fpga'.cap = fpga.cap
        /\ UNCHANGED <<stopAt, request, polling, mine, late, clean>>
    BY <1>4 DEF Trigger, Inv, DeviceOK, Fpga, pages
  <2>2. \A t \in Tabs : AfterStart(t) => AfterStart(t)'
    BY <2>1 DEF AfterStart, FirstFetch, Awaited, Ready, Free
  <2>3. \A t \in Tabs : Busy(t)' = Busy(t)
    BY <2>1 DEF Busy, Free
  <2>4. QED BY <2>1, <2>2, <2>3 DEF CleanInv
<1>5. QED
  BY <1>1, <1>2, <1>3, <1>4, ClickClean, FailClean, DeliverClean, ServeClean DEF Next

LEMMA InitClean == Init => CleanInv
BY DEF Init, CleanInv

LEMMA StepShows ==
  ASSUME Inv, CleanInv, NEW t \in Tabs, NEW c \in Connections,
         request[t][c].kind = "data", DeliverData(t, c), clean, request[t][c].stage = "answered"
  PROVE  shown'[t] = mine[t] \/ (late[t] /\ shown'[t] = Junk)
<1>1. /\ request[t][c].data \in {mine[t], Junk}
      /\ late[t] \/ request[t][c].data = mine[t]
  BY DEF CleanInv, AfterStart, FirstFetch
<1>2. shown'[t] = request[t][c].data
  BY DEF DeliverData, Inv, PagesOK
<1>3. QED BY <1>1, <1>2

-----------------------------------------------------------------------------
\* httpd owns the capture of the request it waits for, and every frame carries
\* the settings of the start: for any number of pages, captures and polls.
THEOREM LoopIsAlone == Spec => []IInv
BY InitInv, NextInv, InvImplies, PTL DEF Spec

\* An instant capture is answered with the samples of the capture it started,
\* complete, or with an error.
THEOREM InstantCaptureIsOwn == Spec => []InstantIsOwn
BY InitInv, NextInv, InvImplies, PTL DEF Spec

\* logic_analyzer.html, checkStatus and fetchCapturedData: after a start that found
\* nothing under way the page draws the complete capture of that start, whatever
\* polls overlap, are answered late or fail, for any number of pages and connections;
\* or, if a poll has fetched after the polling was over, that capture or nobody's.
THEOREM PageShows == Spec => PageShowsItsCapture
<1> DEFINE A == \A t \in Tabs : \A c \in Connections :
                  request[t][c].kind = "data" /\ DeliverData(t, c) /\ clean
                    /\ request[t][c].stage = "answered"
                    => shown'[t] = mine[t] \/ (late[t] /\ shown'[t] = Junk)
<1>1. Inv /\ CleanInv => A
  BY StepShows
<1>2. Spec => [](Inv /\ CleanInv)
  BY InitInv, InitClean, NextInv, NextCleanInv, PTL DEF Spec
<1> HIDE DEF A
<1>3. Spec => [][A]_vars
  BY <1>1, <1>2, PTL DEF Spec
<1>4. QED BY <1>3 DEF PageShowsItsCapture, A
=============================================================================
