------------------------------ MODULE SwdWire -------------------------------
(* One transfer after the other on the two wires of SWD, clock by clock:     *)
(* SWD_Transfer (components/CherryDAP/DAP/Source/SW_DP.c) at one end, the    *)
(* debug port of the target at the other, and noise in between.  Both ends   *)
(* drive SWDIO in turn; what follows the acknowledge depends on it, so an    *)
(* acknowledge that is not read as it was sent takes them apart.  Bit        *)
(* sequences are written in the order of the clocks.                         *)
EXTENDS Integers, Sequences, SequencesExt

CONSTANTS
  Words,          \* words of data (32 bits in the source)
  Configs,        \* turnaround, data_phase, idle_cycles
  MaxTransfers    \* bound: transfers of a behaviour

Bit == {0, 1}
WordBits == Len(CHOOSE w \in Words : TRUE)

\* A word has an even number of bits: a line that is not driven reads as ones,
\* and then fails the parity test.
WireAssumption ==
  /\ Words # {} /\ \A w \in Words : w \in [1 .. WordBits -> Bit]
  /\ WordBits \in Nat /\ WordBits >= 8 /\ WordBits % 2 = 0
  /\ Configs \subseteq [turnaround : 1 .. 4, dataPhase : BOOLEAN, idle : Nat]
  /\ MaxTransfers \in Nat

VARIABLES
  conf,        \* swd_conf and transfer.idle_cycles; the target is set likewise
  probe,       \* cycles SWD_Transfer still makes: a bit driven, Reading, Released
  target,      \* cycles the target makes: the same
  port,        \* debug port: "ready", "request", or "lost" after a protocol error
  heard,       \* bits the target has read of a request or of data
  got,         \* bits the probe has read
  asked,       \* request and data of this transfer
  ack,         \* ACK[2:0] as the probe has read it, <<>> as long as it has not
  reply,       \* acknowledge the target has sent, or <<>>
  word,        \* the target's register
  served,      \* request the target has taken, <<>> for none
  noise,       \* whether a bit of this transfer has been disturbed
  transfers    \* number of transfers so far

vars == <<conf, probe, target, port, heard, got, asked, ack, reply, word, served, noise,
          transfers>>

-----------------------------------------------------------------------------
\* A cycle of one end: it drives 0 or 1, reads the line, or does neither.
Reading == 2
Released == 3
Off(n) == [i \in 1 .. n |-> Released]
In(n) == [i \in 1 .. n |-> Reading]
Low(n) == [i \in 1 .. n |-> 0]
Parity(bits) == FoldLeft(LAMBDA a, b : a + b, 0, bits) % 2
Turn == Off(conf.turnaround)
IsRead(request) == request[2] = 1

Ok == <<1, 0, 0>>
Wait == <<0, 1, 0>>
Fault == <<0, 0, 1>>

\* Start, APnDP, RnW, A2, A3, parity, stop, park; turnaround; acknowledge.
Packet(request) == <<1>> \o request \o <<Parity(request), 0, 1>>
RequestCycles(request) == Packet(request) \o Turn \o In(3)

\* Mutant: a protocol error does not back off for the data phase.
RestNoBackOff(a, request, data) ==
  CASE a = Ok /\ IsRead(request) -> In(WordBits + 1) \o Turn \o Low(conf.idle)
    [] a = Ok /\ ~IsRead(request) -> Turn \o data \o <<Parity(data)>> \o Low(conf.idle)
    [] a \in {Wait, Fault} ->
         (IF conf.dataPhase /\ IsRead(request) THEN Off(WordBits + 1) ELSE <<>>)
           \o Turn \o (IF conf.dataPhase /\ ~IsRead(request) THEN Low(WordBits + 1) ELSE <<>>)
    [] OTHER -> Turn

\* What follows the acknowledge that was read.
Rest(a, request, data) ==
  CASE a = Ok /\ IsRead(request) -> In(WordBits + 1) \o Turn \o Low(conf.idle)
    [] a = Ok /\ ~IsRead(request) -> Turn \o data \o <<Parity(data)>> \o Low(conf.idle)
    [] a \in {Wait, Fault} ->
         (IF conf.dataPhase /\ IsRead(request) THEN Off(WordBits + 1) ELSE <<>>)
           \o Turn \o (IF conf.dataPhase /\ ~IsRead(request) THEN Low(WordBits + 1) ELSE <<>>)
    [] OTHER -> Off(conf.turnaround + WordBits + 1)

-----------------------------------------------------------------------------
(* The target, as the ARM debug interface has it. *)

TargetRest(a, request) ==
  CASE a = Ok /\ IsRead(request) -> word \o <<Parity(word)>> \o Turn
    [] a = Ok /\ ~IsRead(request) -> Turn \o In(WordBits + 1)
    [] OTHER ->
         (IF conf.dataPhase /\ IsRead(request) THEN Low(WordBits + 1) ELSE <<>>)
           \o Turn \o (IF conf.dataPhase /\ ~IsRead(request) THEN Off(WordBits + 1) ELSE <<>>)

Drives(cycles) == cycles # <<>> /\ Head(cycles) \in Bit
Reads(cycles) == cycles # <<>> /\ Head(cycles) = Reading

\* An open line is pulled up.
Line == IF Drives(probe) THEN Head(probe) ELSE IF Drives(target) THEN Head(target) ELSE 1

Valid(bits) == bits = Packet(SubSeq(bits, 2, 5))

\* The target between its own cycles: it waits for a start bit and reads eight
\* bits; a packet that is not valid is a protocol error.
Listen(b) ==
  CASE port = "ready" /\ b = 1 ->
         port' = "request" /\ heard' = <<1>> /\ UNCHANGED <<target, reply, served>>
    [] port = "request" /\ Len(heard) < 7 ->
         heard' = Append(heard, b) /\ UNCHANGED <<port, target, reply, served>>
    [] port = "request" /\ Len(heard) = 7 ->
         LET bits == Append(heard, b)
             request == SubSeq(bits, 2, 5)
         IN  /\ heard' = <<>>
             /\ IF Valid(bits)
                THEN \E a \in {Ok, Wait, Fault} :
                       /\ target' = Turn \o a \o TargetRest(a, request)
                       /\ reply' = a /\ served' = request
                       /\ port' = "ready"
                ELSE port' = "lost" /\ UNCHANGED <<target, reply, served>>
    [] OTHER -> UNCHANGED <<port, heard, target, reply, served>>

\* The target in its own cycles; data with a wrong parity are not written.
Proceed(b) ==
  LET bits == Append(heard, b)
  IN  /\ target' = Tail(target)
      /\ heard' = IF ~Reads(target) THEN heard ELSE IF Len(bits) > WordBits THEN <<>> ELSE bits
      /\ word' = IF Reads(target) /\ Len(bits) > WordBits
                    /\ Parity(SubSeq(bits, 1, WordBits)) = bits[WordBits + 1]
                 THEN SubSeq(bits, 1, WordBits) ELSE word
      /\ UNCHANGED <<port, reply, served>>

-----------------------------------------------------------------------------
\* APnDP, RnW, A2, A3.
AllRequests == [1 .. 4 -> Bit]

Init ==
  /\ conf \in Configs /\ probe = <<>> /\ target = <<>> /\ port = "ready"
  /\ heard = <<>> /\ got = <<>> /\ ack = <<>> /\ reply = <<>> /\ served = <<>>
  /\ asked = [request |-> <<>>, data |-> <<>>, old |-> <<>>]
  /\ word \in Words /\ noise = FALSE /\ transfers = 0

Idle == probe = <<>> /\ (ack # <<>> \/ asked.request = <<>>)

\* SWD_Transfer is called.
Transfer(request, data) ==
  /\ Idle /\ transfers < MaxTransfers
  /\ transfers' = transfers + 1
  /\ probe' = RequestCycles(request)
  /\ asked' = [request |-> request, data |-> data, old |-> word]
  /\ got' = <<>> /\ ack' = <<>> /\ reply' = <<>> /\ served' = <<>> /\ noise' = FALSE
  /\ UNCHANGED <<conf, target, port, heard, word>>

\* A cycle of SWCLK; each end reads the line as it is or, once in a transfer and
\* not while the line idles behind it, disturbed.
Clock(bit) ==
  /\ probe # <<>>
  /\ probe' = Tail(probe)
  /\ got' = IF Reads(probe) THEN Append(got, bit) ELSE got
  /\ IF target = <<>> THEN Listen(bit) /\ UNCHANGED word ELSE Proceed(bit)
  /\ UNCHANGED <<conf, asked, ack, transfers>>

Cycle == Clock(Line) /\ UNCHANGED noise
Disturbed == /\ ~noise /\ noise' = TRUE
             /\ ack = Ok => Len(probe) > conf.idle
             /\ Clock(1 - Line)

\* SWD_Transfer has read the acknowledge.
AckRead ==
  /\ probe = <<>> /\ ack = <<>> /\ Len(got) = 3
  /\ ack' = got /\ got' = <<>>
  /\ probe' = Rest(got, asked.request, asked.data)
  /\ UNCHANGED <<conf, target, port, heard, asked, reply, word, served, noise, transfers>>

\* DAP_SWJ_Sequence with a line reset: the debug port listens again.
LineReset ==
  /\ Idle /\ port = "lost" /\ target = <<>>
  /\ port' = "ready" /\ heard' = <<>>
  /\ UNCHANGED <<conf, probe, target, got, asked, ack, reply, word, served, noise, transfers>>

Next == \/ \E r \in AllRequests, w \in Words : Transfer(r, w)
        \/ Cycle \/ Disturbed \/ AckRead \/ LineReset
Spec == Init /\ [][Next]_vars

-----------------------------------------------------------------------------
TypeOK ==
  /\ conf \in Configs /\ word \in [1 .. WordBits -> Bit]
  /\ \A i \in DOMAIN probe : probe[i] \in 0 .. Released
  /\ \A i \in DOMAIN target : target[i] \in 0 .. Released
  /\ port \in {"ready", "request", "lost"} /\ Len(heard) <= WordBits + 8
  /\ noise \in BOOLEAN /\ transfers \in 0 .. MaxTransfers

\* SWD_Transfer returns OK: the acknowledge and, for a read, the parity.
ReturnsOk ==
  ack = Ok /\ (IsRead(asked.request)
                 => Parity(SubSeq(got, 1, WordBits)) = got[WordBits + 1])

\* Never do both ends drive the line.
NoContention == ~(Drives(probe) /\ Drives(target))

\* OK means that the target has taken this request and no other; what was read
\* is what it holds; what it holds is what was written, or was there before.
OkMeansDone ==
  ReturnsOk => /\ served = asked.request /\ reply = Ok
               /\ IsRead(asked.request) => SubSeq(got, 1, WordBits) = word
               /\ ~IsRead(asked.request) => word \in {asked.old, asked.data}

\* Any other answer leaves the target's word as it was.
RefusedIsUntouched == ack # Ok => word = asked.old

\* Undisturbed, both ends are done with a transfer at the same time.
InStep == ~noise /\ served = asked.request => target = <<>> /\ port = "ready"

\* One disturbed bit, wherever it falls in a transfer, is noticed and does no
\* harm: whatever acknowledge was read, SWD_Transfer keeps off the line for as
\* long as the target may drive it or read it (SW_DP.c:189, 208 and 228).
SwdExact == NoContention /\ (Idle /\ ack # <<>> => OkMeansDone /\ RefusedIsUntouched /\ InStep)
=============================================================================
