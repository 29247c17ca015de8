---------------------------- MODULE DapCommands -----------------------------
(* A packet of commands for the debug probe, byte by byte and clock by       *)
(* clock: DAP_ExecuteCommand, DAP_ProcessCommand and the commands that set   *)
(* parameters or clock out what the host has sent                            *)
(* (components/CherryDAP/DAP/Source/DAP.c, SW_DP.c, JTAG_DP.c).  Transfers   *)
(* are in DapTransfer.                                                       *)
(*                                                                           *)
(* Every command returns how many bytes it has taken and given, apart from   *)
(* the pointers it works with; the next one starts where these numbers say.  *)
EXTENDS Integers, Sequences, SequencesExt

CONSTANTS
  Scripts,   \* what the host asks for in one packet: sequences of commands
  Lines      \* what the target puts on its line, as sequences that repeat

\* A command as the host means it.
IsCommand(c) ==
  CASE c.kind = "connect" -> c.port \in 0 .. 255
    [] c.kind = "swj" -> Len(c.bits) \in 1 .. 256
    [] c.kind = "swd" -> \A s \in Range(c.seqs) : Len(s.bits) \in 1 .. 64 /\ s.in \in BOOLEAN
    [] c.kind = "jtag" -> \A s \in Range(c.seqs) : /\ Len(s.bits) \in 1 .. 64
                                                   /\ s.tms \in {0, 1} /\ s.out \in BOOLEAN
    [] c.kind = "pins" -> {c.value, c.select} \subseteq 0 .. 255
    [] OTHER -> c.kind \in {"disconnect", "plain"}

ScriptsAssumption ==
  /\ \A s \in Scripts : s # <<>> /\ \A i \in DOMAIN s : IsCommand(s[i])
  /\ \A l \in Lines : l # <<>> /\ \A i \in DOMAIN l : l[i] \in {0, 1}

VARIABLES
  script,     \* what the host asked for
  connected,  \* whether the pins were set up when the packet came
  line,       \* what the target puts on TDO, and on SWDIO when it is released
  request,    \* the packet
  pos,        \* request pointer of DAP_ExecuteCommand, from 1
  rpos,       \* its response pointer
  response,   \* the response buffer
  left,       \* commands left, or "new"
  call,       \* the sequence command that is clocked, or None
  pins,       \* levels and modes of the pins
  last,       \* the last thing that happened on the pins
  events      \* number of such things

vars == <<script, connected, line, request, pos, rpos, response, left, call, pins, last, events>>

-----------------------------------------------------------------------------
(* What the host asks for, and the packet it makes of it. *)

Group(bits) == (Len(bits) + 7) \div 8
Number(bits) == FoldLeft(LAMBDA a, b : 2 * a + b, 0, Reverse(bits))
\* Bytes, first bit lowest; what is over is filled up.
Bytes(bits, fill) ==
  [i \in 1 .. Group(bits) |->
     Number([j \in 1 .. 8 |-> IF 8 * (i - 1) + j <= Len(bits) THEN bits[8 * (i - 1) + j]
                              ELSE fill])]

Packet(c) ==
  CASE c.kind = "connect" -> <<2, c.port>>
    [] c.kind = "disconnect" -> <<3>>
    [] c.kind = "pins" -> <<16, c.value, c.select, 0, 0, 0, 0>>
    [] c.kind = "swj" -> <<18, Len(c.bits) % 256>> \o Bytes(c.bits, 1)
    [] c.kind = "swd" ->
         <<29, Len(c.seqs)>> \o FlattenSeq([i \in DOMAIN c.seqs |->
            IF c.seqs[i].in THEN <<(Len(c.seqs[i].bits) % 64) + 128>>
            ELSE <<Len(c.seqs[i].bits) % 64>> \o Bytes(c.seqs[i].bits, 1)])
    [] c.kind = "jtag" ->
         <<20, Len(c.seqs)>> \o FlattenSeq([i \in DOMAIN c.seqs |->
            <<(Len(c.seqs[i].bits) % 64) + 64 * c.seqs[i].tms + IF c.seqs[i].out THEN 128 ELSE 0>>
              \o Bytes(c.seqs[i].bits, 1)])
    [] c.kind = "plain" -> c.bytes

Commands(s) == FlattenSeq([i \in DOMAIN s |-> Packet(s[i])])
PacketOf(s) == IF Len(s) = 1 THEN Packet(s[1]) ELSE <<127, Len(s)>> \o Commands(s)

\* Whether the pins are set up after some commands.
Connects(c) == c.kind = "disconnect" \/ (c.kind = "connect" /\ c.port <= 2)
ConnectedAfter(s) ==
  LET c == SelectLastInSeq(s, Connects)
  IN  IF c = 0 THEN connected ELSE s[c].kind = "connect"

\* What the pins should do for one command: a level is 0 or 1, or Free.
Free == 2
Clocked(tms, tdi, driven) ==
  [what |-> "clock", tck |-> 1, tms |-> tms, tdi |-> tdi, driven |-> driven]
Selected(c, n) == IF (c.select \div 2^n) % 2 = 1 THEN (c.value \div 2^n) % 2 ELSE Free
Asked(c, on) ==
  CASE c.kind = "swj" -> [i \in DOMAIN c.bits |-> Clocked(c.bits[i], Free, on)]
    [] c.kind = "swd" -> FlattenSeq([i \in DOMAIN c.seqs |->
         [j \in DOMAIN c.seqs[i].bits |->
            IF c.seqs[i].in THEN Clocked(Free, Free, FALSE)
            ELSE Clocked(c.seqs[i].bits[j], Free, TRUE)]])
    [] c.kind = "jtag" -> FlattenSeq([i \in DOMAIN c.seqs |->
         [j \in DOMAIN c.seqs[i].bits |-> Clocked(c.seqs[i].tms, c.seqs[i].bits[j], on)]])
    [] c.kind = "pins" -> <<[what |-> "set", tck |-> Selected(c, 0), tms |-> Selected(c, 1),
                             tdi |-> Selected(c, 2), driven |-> on]>>
    [] OTHER -> <<>>
On(s, i) == ConnectedAfter(SubSeq(s, 1, i - 1))
AskedOf(s) == FlattenSeq([i \in DOMAIN s |-> Asked(s[i], On(s, i))])

\* What it should be answered.  The line is looked at once per event; the output
\* pins cannot be read back and give 0, or 1 when they are inputs, pulled up.
Level(i) == line[1 + (i % Len(line))]
Heard(from, n) == Bytes([i \in 1 .. n |-> Level(from + i - 1)], 0)
ReadPins(on, from) == 8 * Level(from) + IF on THEN 0 ELSE 7
Answer(c, on, from) ==
  LET Start(i) == from + FoldLeft(LAMBDA a, q : a + Len(q.bits), 0, SubSeq(c.seqs, 1, i - 1))
      Captured(Wanted(_)) == FlattenSeq([i \in DOMAIN c.seqs |->
         IF Wanted(c.seqs[i]) THEN Heard(Start(i), Len(c.seqs[i].bits)) ELSE <<>>])
  IN  CASE c.kind = "connect" -> <<2, IF c.port = 0 THEN 1 ELSE IF c.port <= 2 THEN c.port ELSE 0>>
        [] c.kind = "disconnect" -> <<3, 0>>
        [] c.kind = "swj" -> <<18, 0>>
        [] c.kind = "swd" -> <<29, 0>> \o Captured(LAMBDA q : q.in)
        [] c.kind = "jtag" -> <<20, 0>> \o Captured(LAMBDA q : q.out)
        [] c.kind = "pins" -> <<16, ReadPins(on, from)>>
        [] c.kind = "plain" -> c.answer
AnswerOf(s) ==
  (IF Len(s) = 1 THEN <<>> ELSE <<127, Len(s)>>)
    \o FlattenSeq([i \in DOMAIN s |-> Answer(s[i], On(s, i), Len(AskedOf(SubSeq(s, 1, i - 1))))])

-----------------------------------------------------------------------------
(* The pins. *)

\* PORT_SWD_SETUP and PORT_JTAG_SETUP; they leave the direction of the buffer
\* between SWDIO and the target as it is.
SetUp(jtag) == pins' = [pins EXCEPT !.tck = 1, !.tms = 1, !.tdi = IF jtag THEN 1 ELSE @,
                                    !.on = TRUE, !.out = TRUE]
PortOff == pins' = [pins EXCEPT !.on = FALSE, !.out = FALSE]

\* PIN_SWDIO_OUT_ENABLE and PIN_SWDIO_OUT_DISABLE.
Enable(b) == [pins EXCEPT !.out = b, !.buffer = b]

Driven(p) == p.out /\ p.buffer

\* TCK goes down and up with these levels.
Cycle(tms, tdi) ==
  /\ pins' = [pins EXCEPT !.tck = 1, !.tms = tms, !.tdi = tdi]
  /\ last' = Clocked(tms, tdi, Driven(pins))
  /\ events' = events + 1

-----------------------------------------------------------------------------
None == [kind |-> "none"]

Init ==
  /\ script \in Scripts /\ connected \in BOOLEAN /\ line \in Lines
  /\ request = PacketOf(script) /\ response = <<>> /\ pos = 1 /\ rpos = 1 /\ left = -1
  /\ call = None
  /\ pins = [tck |-> 1, tms |-> 1, tdi |-> 1, on |-> connected, out |-> connected,
             buffer |-> TRUE]
  /\ last = None /\ events = 0
  \* SWD sequences do not look whether the pins are set up; a host connects first.
  /\ \A i \in DOMAIN script : script[i].kind = "swd" => On(script, i)

\* The buffers are longer than the packet; what is behind it is not meant.
Byte(i) == IF i <= Len(request) THEN request[i] ELSE 0
Stored(i, bytes) ==
  [j \in 1 .. Max({Len(response), i + Len(bytes) - 1}) |->
     IF j \in i .. i + Len(bytes) - 1 THEN bytes[j - i + 1]
     ELSE IF j <= Len(response) THEN response[j] ELSE 0]

\* DAP_ExecuteCommand: several commands, or one.
Execute ==
  /\ left = -1
  /\ IF Byte(1) = 127
     THEN /\ left' = Byte(2) /\ pos' = 3 /\ rpos' = 3
          /\ response' = Stored(1, <<127, Byte(2)>>)
     ELSE left' = 1 /\ UNCHANGED <<pos, rpos, response>>
  /\ UNCHANGED <<script, connected, line, request, call, pins, last, events>>

\* A command returns: bytes taken and given, its identifier not counted.
Return(taken, given) ==
  /\ pos' = pos + 1 + taken /\ rpos' = rpos + 1 + given
  /\ left' = left - 1 /\ call' = None

Dispatch(id) == left > 0 /\ call = None /\ Byte(pos) = id
Id(name) ==
  [info |-> 0, hostStatus |-> 1, connect |-> 2, disconnect |-> 3, transferConfigure |-> 4,
   delay |-> 9, resetTarget |-> 10, swjPins |-> 16, swjClock |-> 17, swjSequence |-> 18,
   swdConfigure |-> 19, jtagSequence |-> 20, jtagConfigure |-> 21, swdSequence |-> 29][name]
Ok == 0
Error == 255

-----------------------------------------------------------------------------
(* Commands without clocks. *)

Connect ==
  /\ Dispatch(Id("connect"))
  /\ LET port == IF Byte(pos + 1) = 0 THEN 1 ELSE Byte(pos + 1)
     IN  /\ IF port \in {1, 2} THEN SetUp(port = 2) ELSE UNCHANGED pins
         /\ response' = Stored(rpos, <<Id("connect"), IF port \in {1, 2} THEN port ELSE 0>>)
  /\ Return(1, 1)
  /\ UNCHANGED <<script, connected, line, request, last, events>>

Disconnect ==
  /\ Dispatch(Id("disconnect"))
  /\ PortOff
  /\ response' = Stored(rpos, <<Id("disconnect"), Ok>>)
  /\ Return(0, 1)
  /\ UNCHANGED <<script, connected, line, request, last, events>>

\* DAP_SWJ_Pins: the wait for the levels asked for only takes time.
SwjPins ==
  /\ Dispatch(Id("swjPins"))
  /\ LET value == Byte(pos + 1)
         select == Byte(pos + 2)
         New(n, old) == IF (select \div 2^n) % 2 = 1 THEN (value \div 2^n) % 2 ELSE old
         set == [pins EXCEPT !.tck = New(0, @), !.tms = New(1, @), !.tdi = New(2, @)]
     IN  /\ pins' = set
         /\ last' = [Clocked(set.tms, set.tdi, Driven(pins)) EXCEPT !.what = "set", !.tck = set.tck]
         /\ response' = Stored(rpos, <<Id("swjPins"), ReadPins(pins.on, events)>>)
  /\ events' = events + 1
  /\ Return(6, 1)
  /\ UNCHANGED <<script, connected, line, request>>

\* DAP_Info: firmware version, capabilities, timestamp clock, packet count and
\* size; the other strings and buffers are empty.
InfoOf(id) ==
  CASE id = 4 -> <<50, 46, 49, 46, 50, 0>>
    [] id = 240 -> <<51, 1>>
    [] id = 241 -> <<64, 66, 15, 0>>
    [] id = 254 -> <<1>>
    [] id = 255 -> <<64, 0>>
    [] OTHER -> <<>>

\* Commands that only answer, or set what no other command here looks at: bytes
\* taken, and the answer behind the identifier.
Gives(taken, given) == [taken |-> taken, given |-> given]
Info == Gives(1, LET info == InfoOf(Byte(pos + 1)) IN <<Len(info)>> \o info)
HostStatus == Gives(2, <<IF Byte(pos + 1) \in {0, 1} THEN Ok ELSE Error>>)
Delay == Gives(2, <<Ok>>)
ResetTarget == Gives(0, <<Ok, 0>>)
SwjClock == Gives(4, <<IF \A i \in 1 .. 4 : Byte(pos + i) = 0 THEN Error ELSE Ok>>)
SwdConfigure == Gives(1, <<Ok>>)
JtagConfigure == Gives(Byte(pos + 1) + 1, <<Ok>>)
TransferConfigure == Gives(5, <<Ok>>)

Settings == {"info", "hostStatus", "delay", "resetTarget", "swjClock", "swdConfigure",
             "jtagConfigure", "transferConfigure"}
Setting(name) ==
  [info |-> Info, hostStatus |-> HostStatus, delay |-> Delay, resetTarget |-> ResetTarget,
   swjClock |-> SwjClock, swdConfigure |-> SwdConfigure, jtagConfigure |-> JtagConfigure,
   transferConfigure |-> TransferConfigure][name]

Set ==
  /\ \E name \in Settings :
       /\ Dispatch(Id(name))
       /\ response' = Stored(rpos, <<Id(name)>> \o Setting(name).given)
       /\ Return(Setting(name).taken, Len(Setting(name).given))
  /\ UNCHANGED <<script, connected, line, request, pins, last, events>>

\* A vendor command is answered with its identifier, one that is not known, as
\* DAP_ExecuteCommands inside a packet is, with ID_DAP_Invalid.
Other ==
  /\ left > 0 /\ call = None /\ Byte(pos) \in 23 .. 28 \cup 30 .. 35 \cup 127 .. 255
  /\ response' = Stored(rpos, <<IF Byte(pos) \in 128 .. 159 THEN Byte(pos) ELSE 255>>)
  /\ Return(0, 0)
  /\ UNCHANGED <<script, connected, line, request, pins, last, events>>

-----------------------------------------------------------------------------
(* Sequences: at and to are the pointers into request and response, taken and *)
(* given what is counted, n the clocks of the sequence, done those made.      *)

NoSequence == [info |-> 0, n |-> 0, done |-> 0, heard |-> <<>>]
Calls(kind, rest, seqs) ==
  /\ call' = [kind |-> kind, at |-> pos + 2, to |-> rpos + 2, taken |-> 1, given |-> 1,
              seqs |-> seqs, clocking |-> FALSE] @@ rest
  /\ response' = Stored(rpos, <<Byte(pos), Ok>>)
  /\ UNCHANGED <<script, connected, line, request, pos, rpos, left, pins, last, events>>

Groups(n) == (n + 7) \div 8
Count(n, full) == IF n = 0 THEN full ELSE n

SwjSequence ==
  /\ Dispatch(Id("swjSequence"))
  /\ Calls("swj", [NoSequence EXCEPT !.n = Count(Byte(pos + 1), 256)], 1)

SwdSequence == Dispatch(Id("swdSequence")) /\ Calls("swd", NoSequence, Byte(pos + 1))
JtagSequence == Dispatch(Id("jtagSequence")) /\ Calls("jtag", NoSequence, Byte(pos + 1))

\* The next sequence of a command: its first byte tells count, level or direction
\* and whether the line is captured.
Begin ==
  /\ call.kind \in {"swd", "jtag", "swj"} /\ call.seqs > 0 /\ ~call.clocking
  /\ IF call.kind = "swj" THEN call' = [call EXCEPT !.clocking = TRUE] /\ UNCHANGED pins
     ELSE LET info == Byte(call.at)
          IN  /\ call' = [call EXCEPT !.clocking = TRUE, !.info = info, !.at = @ + 1,
                                      !.n = Count(info % 64, 64), !.done = 0, !.heard = <<>>]
              /\ pins' = IF call.kind = "swd" THEN Enable(info < 128)
                         ELSE [pins EXCEPT !.tms = (info \div 64) % 2]
  /\ UNCHANGED <<script, connected, line, request, pos, rpos, response, left, last, events>>

Captures == call.kind # "swj" /\ call.info >= 128
Bit == (Byte(call.at + call.done \div 8) \div 2^(call.done % 8)) % 2

\* One clock of SWJ_Sequence, SWD_Sequence or JTAG_Sequence; a byte that was
\* captured is stored when it is full, or the sequence at its end.
Clock ==
  /\ call # None /\ call.clocking /\ call.done < call.n
  /\ CASE call.kind = "swj" -> Cycle(Bit, pins.tdi)
       [] call.kind = "swd" -> Cycle(IF Captures THEN pins.tms ELSE Bit, pins.tdi)
       [] call.kind = "jtag" -> Cycle(pins.tms, Bit)
  /\ LET heard == Append(call.heard, Level(events))
         full == Len(heard) = 8 \/ call.done + 1 = call.n
     IN  /\ call' = [call EXCEPT !.done = @ + 1, !.heard = IF full THEN <<>> ELSE heard]
         /\ response' = IF Captures /\ full
                        THEN Stored(call.to + call.done \div 8, Bytes(heard, 0))
                        ELSE response
  /\ UNCHANGED <<script, connected, line, request, pos, rpos, left>>

\* Mutant: the information byte of a captured SWD sequence is not counted.
EndUncounted ==
  /\ call # None /\ call.clocking /\ call.done = call.n
  /\ LET g == Groups(call.n)
         in == IF call.kind = "swd" /\ Captures THEN 0 ELSE g
         out == IF Captures THEN g ELSE 0
     IN  call' = [call EXCEPT !.clocking = FALSE, !.seqs = @ - 1,
                              !.at = @ + in, !.to = @ + out,
                              !.taken = @ + in + IF call.kind = "swj" \/ (call.kind = "swd" /\ Captures)
                                                  THEN 0 ELSE 1,
                              !.given = @ + out]
  /\ pins' = IF call.kind = "swd" /\ call.seqs = 1 THEN Enable(TRUE) ELSE pins
  /\ UNCHANGED <<script, connected, line, request, pos, rpos, response, left, last, events>>

\* The sequence is counted: an SWD sequence that is captured brings no bytes.
End ==
  /\ call # None /\ call.clocking /\ call.done = call.n
  /\ LET g == Groups(call.n)
         in == IF call.kind = "swd" /\ Captures THEN 0 ELSE g
         out == IF Captures THEN g ELSE 0
     IN  call' = [call EXCEPT !.clocking = FALSE, !.seqs = @ - 1,
                              !.at = @ + in, !.to = @ + out,
                              !.taken = @ + in + IF call.kind = "swj" THEN 0 ELSE 1,
                              !.given = @ + out]
  /\ pins' = IF call.kind = "swd" /\ call.seqs = 1 THEN Enable(TRUE) ELSE pins
  /\ UNCHANGED <<script, connected, line, request, pos, rpos, response, left, last, events>>

Leave ==
  /\ call # None /\ call.seqs = 0
  /\ Return(call.taken, call.given)
  /\ UNCHANGED <<script, connected, line, request, response, pins, last, events>>

Next == \/ Execute \/ Connect \/ Disconnect \/ SwjPins \/ Set \/ Other
        \/ SwjSequence \/ SwdSequence \/ JtagSequence \/ Begin \/ Clock \/ End \/ Leave
Spec == Init /\ [][Next]_vars

-----------------------------------------------------------------------------
TypeOK ==
  /\ script \in Scripts /\ line \in Lines /\ left \in -1 .. 255
  /\ pos \in Nat /\ rpos \in Nat /\ events \in Nat
  /\ \A i \in DOMAIN response : response[i] \in 0 .. 255
  /\ pins \in [tck : {0, 1}, tms : {0, 1}, tdi : {0, 1}, on : BOOLEAN, out : BOOLEAN,
               buffer : BOOLEAN]

Matches(e, asked) ==
  /\ e.what = asked.what /\ e.driven = asked.driven
  /\ asked.tck \in {e.tck, Free} /\ asked.tms \in {e.tms, Free} /\ asked.tdi \in {e.tdi, Free}

\* What the pins do, in its order, is what the host asked for, command by
\* command, and nothing else: the right bits, the line driven while the host
\* sends and released while it listens.
PinsAsAsked ==
  events > 0 => LET asked == AskedOf(script)
                IN  events <= Len(asked) /\ Matches(last, asked[events])

\* When the packet has been carried out, all of it has been taken, everything
\* asked for has happened, the response is what the line said in the place of
\* each command, and SWDIO is driven if and only if the pins are set up.
AnsweredExactly ==
  left = 0 => /\ pos = Len(request) + 1
              /\ events = Len(AskedOf(script))
              /\ SubSeq(response, 1, rpos - 1) = AnswerOf(script)
              /\ Driven(pins) = ConnectedAfter(script)

\* A packet with any number of commands is carried out as the host meant it
\* (DAP.c:1782, 503 and 558: pointers and counts are kept apart).
PacketExact == PinsAsAsked /\ AnsweredExactly
=============================================================================
