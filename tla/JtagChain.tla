----------------------------- MODULE JtagChain ------------------------------
(* The JTAG scans of the debug probe, clock by clock, against a chain of     *)
(* devices: JTAG_IR, JTAG_Transfer, JTAG_ReadIDCode and JTAG_WriteAbort      *)
(* (components/CherryDAP/DAP/Source/JTAG_DP.c) as the commands of DAP.c call *)
(* them.  The chain itself is IEEE 1149.1 and the ARM debug interface.       *)
(*                                                                           *)
(* A bit sequence is written in the order it is shifted.  Device 1 is the    *)
(* one next to TDO: index 0 of the source.                                   *)
EXTENDS Integers, Sequences, SequencesExt

CONSTANTS
  Chains,       \* sequences of IR lengths, one per device
  Words,        \* words of data (32 bits in the source)
  IdleCycles,   \* transfer.idle_cycles
  MaxCommands   \* bound: commands of a behaviour

Bit == {0, 1}
WordBits == Len(CHOOSE w \in Words : TRUE)

\* There are two words, so that those of other devices can be told from the one asked for.
ChainAssumption ==
  /\ Chains \subseteq Seq(Nat \ {0, 1}) /\ <<>> \notin Chains
  /\ WordBits \in Nat \ {0, 1} /\ \A w \in Words : w \in [1 .. WordBits -> Bit]
  /\ Words # {} /\ \A w \in Words : \E v \in Words : v # w
  /\ IdleCycles \subseteq Nat /\ MaxCommands \in Nat

\* The instructions, least significant bit first, for an IR of four bits.
Instruction == [abort |-> <<0, 0, 0, 1>>, dpacc |-> <<0, 1, 0, 1>>,
                apacc |-> <<1, 1, 0, 1>>, idcode |-> <<0, 1, 1, 1>>]
IsDap(c, d) == c[d] = 4

VARIABLES
  chain,     \* IR length of each device
  tap,       \* state of the TAP controllers: they all see the same TMS
  instr,     \* per device: the instruction register
  shift,     \* the shift registers, as one sequence that ends at TDI
  reg,       \* per device: the word it holds for the next read
  done,      \* what the devices were made to do during this command
  cmd,       \* the command, or [kind |-> "none"]
  todo,      \* cycles still to come: TMS, TDI, whether TDO is read
  got,       \* bits read from TDO
  result,    \* acknowledge or error, 0 as long as there is none
  commands   \* number of commands so far

vars == <<chain, tap, instr, shift, reg, done, cmd, todo, got, result, commands>>

-----------------------------------------------------------------------------
(* The cycles of the source's functions. *)

Tms(levels) == [i \in DOMAIN levels |-> [tms |-> levels[i], tdi |-> 1, in |-> FALSE]]
Shift(bits, in) == [i \in DOMAIN bits |-> [tms |-> 0, tdi |-> bits[i], in |-> in]]
Same(bit, n) == [i \in 1 .. n |-> bit]

\* The last bit, be it of the data or of the bypassed devices, is clocked with
\* TMS set: it leaves the shift state.
Leaving(cycles) == [cycles EXCEPT ![Len(cycles)].tms = 1]

\* Update and Run-Test/Idle.
Finish == Tms(<<1, 0>>)

\* DAP_JTAG_Configure: bits before and after a device's instruction.
SumOf(s) == FoldLeft(LAMBDA a, b : a + b, 0, s)
IrBefore(d) == SumOf(SubSeq(chain, 1, d - 1))

\* Mutant: the length of the device itself is subtracted too late.
IrAfterWithOwn(d) == SumOf(chain) - SumOf(SubSeq(chain, 1, d - 1))

IrAfter(d) == SumOf(chain) - SumOf(SubSeq(chain, 1, d))

JtagIr(name, d) ==
  Tms(<<1, 1, 0, 0>>)
    \o Leaving(Shift(Same(1, IrBefore(d)) \o Instruction[name] \o Same(1, IrAfter(d)), FALSE))
    \o Finish

Before(d) == Tms(<<1, 0, 0>>) \o Shift(Same(1, d - 1), FALSE)
After(bit, d) == Shift(Same(bit, Len(chain) - d), FALSE)

Acknowledged(request) == Shift(request, TRUE)

Data(c) ==
  Leaving((IF c.request[1] = 1 THEN Shift(Same(c.request[3], WordBits), TRUE)
           ELSE Shift(c.data, FALSE))
          \o After(IF c.request[1] = 1 THEN c.request[3] ELSE c.data[WordBits], c.dev))

ReadIDCode(d) == Before(d) \o Leaving(Shift(Same(1, WordBits), TRUE)) \o Finish
WriteAbort(d, data) ==
  Before(d) \o Shift(<<0, 0, 0>>, FALSE)
            \o Leaving(Shift(data, FALSE) \o After(data[WordBits], d)) \o Finish

\* The acknowledge with its first two bits exchanged, as a number.
Ack(bits) == bits[1] * 2 + bits[2] + bits[3] * 4
Ok == 1
Error == 8
Idle(n) == Tms(Same(0, n))

-----------------------------------------------------------------------------
(* The devices. *)

Bypassed(d) == instr[d] = Same(1, chain[d])
Has(d, name) == IsDap(chain, d) /\ instr[d] = Instruction[name]
Accesses(d) == Has(d, "dpacc") \/ Has(d, "apacc")

\* What Capture-DR loads: the acknowledge (OK 010, WAIT 001) and the word of an
\* access, the identification, or one bit of bypass.
Captured(d) ==
  IF Accesses(d)
  THEN (IF cmd.kind = "transfer" /\ cmd.wait THEN <<1, 0, 0>> ELSE <<0, 1, 0>>) \o reg[d]
  ELSE IF Has(d, "idcode") THEN reg[d]
  ELSE IF Has(d, "abort") THEN Same(0, 3 + WordBits)
  ELSE <<0>>

Start(d) == SumOf([e \in 1 .. d - 1 |-> Len(Captured(e))])
Shifted(d) == SubSeq(shift, Start(d) + 1, Start(d) + Len(Captured(d)))

\* What Update-DR makes a device do.
Updated(d) ==
  LET s == Shifted(d)
  IN  IF Accesses(d) /\ ~(cmd.kind = "transfer" /\ cmd.wait)
      THEN {[dev |-> d, kind |-> IF Has(d, "apacc") THEN "apacc" ELSE "dpacc",
             request |-> SubSeq(s, 1, 3),
             data |-> IF s[1] = 1 THEN <<>> ELSE SubSeq(s, 4, 3 + WordBits)]}
      ELSE IF Has(d, "abort")
      THEN {[dev |-> d, kind |-> "abort", request |-> SubSeq(s, 1, 3),
             data |-> SubSeq(s, 4, 3 + WordBits)]}
      ELSE {}

\* Next state for TMS = 0 and TMS = 1.
Tap ==
  [reset     |-> <<"idle", "reset">>,        idle      |-> <<"idle", "selectDr">>,
   selectDr  |-> <<"captureDr", "selectIr">>, selectIr  |-> <<"captureIr", "reset">>,
   captureDr |-> <<"shiftDr", "exit1Dr">>,   captureIr |-> <<"shiftIr", "exit1Ir">>,
   shiftDr   |-> <<"shiftDr", "exit1Dr">>,   shiftIr   |-> <<"shiftIr", "exit1Ir">>,
   exit1Dr   |-> <<"pauseDr", "updateDr">>,  exit1Ir   |-> <<"pauseIr", "updateIr">>,
   pauseDr   |-> <<"pauseDr", "exit2Dr">>,   pauseIr   |-> <<"pauseIr", "exit2Ir">>,
   exit2Dr   |-> <<"shiftDr", "updateDr">>,  exit2Ir   |-> <<"shiftIr", "updateIr">>,
   updateDr  |-> <<"idle", "selectDr">>,     updateIr  |-> <<"idle", "selectDr">>]

\* A rising edge of TCK: capture and shift happen in the state that is left.
Edge(tms, tdi) ==
  /\ tap' = Tap[tap][tms + 1]
  /\ shift' = CASE tap = "captureIr" -> FlattenSeq([d \in DOMAIN chain |->
                                           <<1>> \o Same(0, chain[d] - 1)])
                [] tap = "captureDr" -> FlattenSeq([d \in DOMAIN chain |-> Captured(d)])
                [] tap \in {"shiftIr", "shiftDr"} -> Append(Tail(shift), tdi)
                [] OTHER -> shift
  /\ instr' = CASE tap = "updateIr" ->
                     [d \in DOMAIN chain |->
                        SubSeq(shift, SumOf(SubSeq(chain, 1, d - 1)) + 1,
                                      SumOf(SubSeq(chain, 1, d)))]
                [] tap = "reset" ->
                     [d \in DOMAIN chain |-> IF IsDap(chain, d) THEN Instruction["idcode"]
                                             ELSE Same(1, chain[d])]
                [] OTHER -> instr
  /\ done' = IF tap = "updateDr" THEN done \cup UNION {Updated(d) : d \in DOMAIN chain}
             ELSE done

-----------------------------------------------------------------------------
None == [kind |-> "none"]

Init ==
  /\ chain \in Chains /\ tap = "idle"
  /\ instr = [d \in DOMAIN chain |-> IF IsDap(chain, d) THEN Instruction["idcode"]
                                     ELSE Same(1, chain[d])]
  /\ shift = <<>> /\ done = {} /\ cmd = None /\ todo = <<>> /\ got = <<>>
  /\ reg = [d \in DOMAIN chain |-> CHOOSE w \in Words : TRUE]
  /\ result = 0 /\ commands = 0

\* A command for a device of the chain, or for one that is not configured: then
\* it is answered with an error and nothing is clocked.
Begin(c) ==
  /\ cmd = None /\ todo = <<>> /\ commands < MaxCommands
  /\ commands' = commands + 1
  /\ cmd' = c /\ got' = <<>> /\ done' = {}
  /\ \E w \in Words : reg' = [d \in DOMAIN chain |->
                                IF d = c.dev THEN w ELSE CHOOSE v \in Words : v # w]
  /\ IF c.dev > Len(chain)
     THEN todo' = <<>> /\ result' = Error
     ELSE /\ result' = 0
          /\ todo' = CASE c.kind = "idcode" -> JtagIr("idcode", c.dev) \o ReadIDCode(c.dev)
                       [] c.kind = "abort" -> JtagIr("abort", c.dev) \o WriteAbort(c.dev, c.data)
                       [] c.kind = "transfer" ->
                            JtagIr(c.port, c.dev) \o Before(c.dev) \o Acknowledged(c.request)
  /\ UNCHANGED <<chain, tap, instr, shift>>

Commands ==
  LET devs == {d \in 1 .. Len(chain) : IsDap(chain, d)} \cup {Len(chain) + 1}
  IN  [kind : {"idcode"}, dev : devs]
      \cup [kind : {"abort"}, dev : devs, data : Words]
      \cup [kind : {"transfer"}, dev : devs, port : {"dpacc", "apacc"}, wait : BOOLEAN,
            request : {<<1, 0, 1>>, <<0, 1, 0>>}, data : Words, idle : IdleCycles]

Command == \E c \in Commands : Begin(c)

Clock ==
  /\ todo # <<>>
  /\ Edge(Head(todo).tms, Head(todo).tdi)
  /\ got' = IF Head(todo).in THEN Append(got, Head(shift)) ELSE got
  /\ todo' = Tail(todo)
  /\ UNCHANGED <<chain, reg, cmd, result, commands>>

\* JTAG_Transfer has the acknowledge: it goes on, or leaves with an error.
AckRead ==
  /\ cmd.kind = "transfer" /\ todo = <<>> /\ result = 0
  /\ todo' = (IF Ack(got) = Ok THEN Data(cmd) ELSE Tms(<<1>>)) \o Finish \o Idle(cmd.idle)
  /\ result' = Ack(got) /\ got' = <<>>
  /\ UNCHANGED <<chain, tap, instr, shift, reg, done, cmd, commands>>

Ended == cmd # None /\ todo = <<>> /\ (cmd.kind = "transfer" => result # 0)

Answer ==
  /\ Ended
  /\ cmd' = None /\ result' = 0 /\ got' = <<>>
  /\ UNCHANGED <<chain, tap, instr, shift, reg, done, todo, commands>>

Next == Command \/ Clock \/ AckRead \/ Answer
Spec == Init /\ [][Next]_vars

-----------------------------------------------------------------------------
TypeOK ==
  /\ chain \in Chains /\ tap \in DOMAIN Tap
  /\ \A d \in DOMAIN chain : instr[d] \in [1 .. chain[d] -> Bit] /\ reg[d] \in Words
  /\ \A i \in DOMAIN shift : shift[i] \in Bit
  /\ Len(got) <= WordBits + 3 /\ commands \in 0 .. MaxCommands

\* What a command that is carried out makes the devices do.
Effect(c) == {[dev |-> c.dev, kind |-> IF c.kind = "abort" THEN "abort" ELSE c.port,
               request |-> IF c.kind = "abort" THEN <<0, 0, 0>> ELSE c.request,
               data |-> IF c.kind = "transfer" /\ c.request[1] = 1 THEN <<>> ELSE c.data]}

\* When a command has ended, the TAPs are in Run-Test/Idle, where the next scan
\* takes them to be; the addressed device has done what was asked, once, with
\* the data given, and no other device anything; what was read is the word of
\* the addressed device.  Lengths of the chain and the place of the device in
\* it decide how many bits stand before and after (JTAG_DP.c:116 and 215).
ChainExact ==
  Ended =>
    /\ tap = "idle"
    /\ IF cmd.dev > Len(chain) THEN result = Error /\ done = {}
       ELSE /\ \A d \in DOMAIN chain : d # cmd.dev => Bypassed(d)
            /\ done = IF cmd.kind = "idcode" \/ (cmd.kind = "transfer" /\ cmd.wait) THEN {}
                      ELSE Effect(cmd)
            /\ cmd.kind = "transfer" => (result = Ok <=> ~cmd.wait)
            /\ cmd.kind = "idcode" \/ (cmd.kind = "transfer" /\ result = Ok /\ cmd.request[1] = 1)
                 => got = reg[cmd.dev]
=============================================================================
