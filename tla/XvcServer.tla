------------------------------ MODULE XvcServer ------------------------------
(***************************************************************************)
(* The server for Xilinx Virtual Cable: xvc_handle_client_v3               *)
(* (xvc_server.c) and the transfers to the FPGA, which clocks TCK and      *)
(* returns TDO one bit late (pack_jtag_data.c).                            *)
(*                                                                         *)
(* A client sends one command and waits for its answer.  TCP may deliver a *)
(* command in any pieces, and the client may go away at any time.  A byte  *)
(* of data is the sequence of its bits in the order they are shifted; bits *)
(* are named by their number in the command, TDO bits by the TCK that      *)
(* produced them.                                                          *)
(***************************************************************************)
EXTENDS Naturals, Sequences

CONSTANTS ByteBits,   \* the bits of a byte (8)
          BlockBits,      \* LONG_BLOCK_BITS
          BufSize,    \* XVC_BUF_SIZE, in bytes
          Lengths,    \* the lengths in bits a client may shift
          MaxClients, \* bound: the connections
          MaxCommands \* bound: the commands

\* A byte of an SPI transfer is half TMS and half TDI, and a block ends where a
\* byte of TDO does.
XvcAssumption ==
  /\ ByteBits \in Nat \ {0} /\ ByteBits % 2 = 0
  /\ BlockBits \in Nat \ {0} /\ BlockBits % ByteBits = 0
  /\ BufSize \in Nat /\ Lengths \subseteq Nat

VARIABLES
  pc,       \* where the server's task stands
  conn,     \* the client's end: "none", "open", "gone"
  cmd,      \* the command being sent
  unread,   \* its bytes that the server has not received
  got,      \* recv_all: bytes_read
  offset,   \* proc_spi_transfer: offset_bits
  result,   \* the answer's bytes
  sentTo,   \* sent_total
  driven,   \* observation: the bits of this command shifted into the target
  clocks,   \* external: the TCKs the target has seen
  base,     \* observation: clocks when the command began
  clients, commands \* counted for the bounds

vars == <<pc, conn, cmd, unread, got, offset, result, sentTo, driven, clocks, base,
          clients, commands>>

Least(a, b) == IF a < b THEN a ELSE b

NoCommand == [type |-> "none", bits |-> 0]
AllCommands == [type : {"getinfo", "settck"}, bits : {0}] \cup [type : {"shift"}, bits : Lengths]

NrBytes == (cmd.bits + ByteBits - 1) \div ByteBits

\* "getinfo:", "settck:" and a period, "shift:", a length and two vectors.
Size(c) == CASE c.type = "none" -> 0 [] c.type = "getinfo" -> 8 [] c.type = "settck" -> 11
             [] OTHER -> 10 + 2 * ((c.bits + ByteBits - 1) \div ByteBits)

Zeros == [i \in 0 .. BufSize - 1 |-> [j \in 1 .. ByteBits |-> 0]]

Init ==
  /\ pc = "accept" /\ conn = "none" /\ cmd = NoCommand /\ unread = 0
  /\ got = 0 /\ offset = 0 /\ result = Zeros /\ sentTo = 0
  /\ driven = <<>> /\ clocks = 0 /\ base = 0 /\ clients = 0 /\ commands = 0

shiftVars == <<got, offset, result, sentTo, driven, clocks>>

-----------------------------------------------------------------------------
(* The client.                                                              *)

Connect ==
  /\ conn = "none" /\ clients < MaxClients
  /\ conn' = "open" /\ clients' = clients + 1
  /\ UNCHANGED <<pc, cmd, unread, base, commands, shiftVars>>

Send ==
  /\ conn = "open" /\ pc = "cmd" /\ unread = 0 /\ commands < MaxCommands
  /\ commands' = commands + 1 /\ base' = clocks /\ driven' = <<>>
  /\ \E c \in AllCommands : cmd' = c /\ unread' = Size(c)
  /\ UNCHANGED <<pc, conn, got, offset, result, sentTo, clocks, clients>>

\* The rest of what it was sending may be lost.
Leave ==
  /\ conn = "open" /\ conn' = "gone"
  /\ unread' \in 0 .. unread
  /\ UNCHANGED <<pc, cmd, base, clients, commands, shiftVars>>

-----------------------------------------------------------------------------
(* The server.                                                              *)

Accept ==
  /\ pc = "accept" /\ conn # "none"
  /\ pc' = "cmd" /\ cmd' = NoCommand
  /\ UNCHANGED <<conn, unread, base, clients, commands, shiftVars>>

\* break: the connection is closed, and what was not read is lost.
Close ==
  /\ pc' = "accept" /\ conn' = "none" /\ unread' = 0

\* recv, of which less than what is wanted is not accepted.
Receive(want, next) ==
  /\ unread > 0 \/ conn = "gone"
  /\ \/ unread >= want /\ pc' = next /\ unread' = unread - want /\ conn' = conn
     \/ (unread < want \/ want > 1) /\ Close

ReceiveCommand ==
  /\ pc = "cmd"
  /\ Receive(2, CASE cmd.type = "getinfo" -> "getinfo" [] cmd.type = "settck" -> "settck"
                  [] OTHER -> "header")
  /\ UNCHANGED <<cmd, base, clients, commands, shiftVars>>

\* The rest of the command is received and the answer sent.
GetInfo ==
  /\ pc = "getinfo" /\ Receive(6, "cmd")
  /\ UNCHANGED <<cmd, base, clients, commands, shiftVars>>

SetTck ==
  /\ pc = "settck" /\ Receive(9, "cmd")
  /\ UNCHANGED <<cmd, base, clients, commands, shiftVars>>

ShiftHeader ==
  /\ pc = "header"
  /\ \/ NrBytes * 2 <= BufSize /\ Receive(8, "data")
     \/ NrBytes * 2 > BufSize /\ (unread > 0 \/ conn = "gone") /\ Close
  /\ got' = 0
  /\ UNCHANGED <<cmd, base, clients, commands, offset, result, sentTo, driven, clocks>>

\* recv_all takes what there is until it has all.
ReceiveAll ==
  /\ pc = "data"
  /\ \/ /\ got < 2 * NrBytes /\ unread > 0
        /\ \E n \in 1 .. Least(2 * NrBytes - got, unread) :
             got' = got + n /\ unread' = unread - n
        /\ UNCHANGED <<pc, conn, offset, result>>
     \/ /\ got < 2 * NrBytes /\ unread = 0 /\ conn = "gone"
        /\ Close /\ UNCHANGED <<got, offset, result>>
     \/ /\ got = 2 * NrBytes
        /\ pc' = "transfer" /\ offset' = 0 /\ result' = Zeros
        /\ UNCHANGED <<conn, unread, got>>
  /\ UNCHANGED <<cmd, sentTo, driven, clocks, base, clients, commands>>

-----------------------------------------------------------------------------
(* spi_transfer_jtag_data: n bits in one SPI transfer.  A byte of it holds  *)
(* the TMS and TDI of ByteBits / 2 TCKs.                                    *)

\* Mutant: no room for the bit that comes late.
PairsOneLess(n) == (ByteBits \div 2) * ((n + ByteBits \div 2 - 1) \div (ByteBits \div 2))

\* The pairs of bits in the transfer.
Pairs(n) == (ByteBits \div 2) * (n \div (ByteBits \div 2) + 1)

\* pack_jtag_data: the bits of n TCKs from byte at on, in their order.
Packed(at, n) == [i \in 1 .. n |-> at * ByteBits + i]

\* What the FPGA returns: TDO one pair late; 0 where there is none.
Received(n, i) ==
  IF i \in 1 .. n /\ i < Pairs(n) THEN clocks + i ELSE 0

\* get_tdo: unpack n div ByteBits + 1 bytes, then shift them all by one bit.
GetTdo(tdo, at, n) ==
  LET last == n \div ByteBits
      raw == [i \in DOMAIN tdo |->
                IF i \in at .. at + last
                THEN [j \in 1 .. ByteBits |-> Received(n, (i - at) * ByteBits + j - 1)]
                ELSE tdo[i]]
  IN  [i \in DOMAIN tdo |->
         IF i \in at .. at + last
         THEN Append(Tail(raw[i]), IF i + 1 \in DOMAIN raw THEN raw[i + 1][1] ELSE 0)
         ELSE tdo[i]]

\* proc_spi_transfer.  A length of zero is refused, which ends the connection.
Transfer ==
  /\ pc = "transfer"
  /\ \/ /\ offset < cmd.bits
        /\ LET n == Least(BlockBits, cmd.bits - offset)
               at == offset \div ByteBits
           IN  /\ result' = GetTdo(result, at, n)
               /\ driven' = driven \o Packed(at, n)
               /\ clocks' = clocks + n /\ offset' = offset + n
        /\ UNCHANGED <<pc, conn, unread, sentTo>>
     \/ /\ cmd.bits = 0 /\ Close
        /\ UNCHANGED <<offset, result, driven, clocks, sentTo>>
     \/ /\ offset = cmd.bits /\ cmd.bits > 0
        /\ pc' = "reply" /\ sentTo' = 0
        /\ UNCHANGED <<conn, unread, offset, result, driven, clocks>>
  /\ UNCHANGED <<cmd, got, base, clients, commands>>

\* A send that fails ends the answer, not the loop over the commands.
Reply ==
  /\ pc = "reply"
  /\ \/ /\ sentTo < NrBytes
        /\ \E n \in 1 .. NrBytes - sentTo : sentTo' = sentTo + n
        /\ UNCHANGED pc
     \/ /\ sentTo = NrBytes \/ conn = "gone"
        /\ pc' = "cmd" /\ UNCHANGED sentTo
  /\ UNCHANGED <<conn, cmd, unread, got, offset, result, driven, clocks, base, clients,
                 commands>>

Server == \/ Accept \/ ReceiveCommand \/ GetInfo \/ SetTck \/ ShiftHeader
          \/ ReceiveAll \/ Transfer \/ Reply
Next == Connect \/ Send \/ Leave \/ Server

Spec == Init /\ [][Next]_vars

-----------------------------------------------------------------------------
TypeOK ==
  /\ pc \in {"accept", "cmd", "getinfo", "settck", "header", "data", "transfer", "reply"}
  /\ conn \in {"none", "open", "gone"} /\ cmd \in AllCommands \cup {NoCommand}
  /\ unread \in Nat /\ got \in Nat /\ offset \in Nat /\ sentTo \in Nat /\ clocks \in Nat
  /\ DOMAIN result = 0 .. BufSize - 1

\* The first n bits of the answer.
AnswerBit(i) == result[(i - 1) \div ByteBits][((i - 1) % ByteBits) + 1]

\* A command is taken for one only at its first byte, however TCP cuts it: no
\* data are taken for a command.
InStep == pc = "cmd" /\ conn = "open" => unread \in {0, Size(cmd)}

\* A shift reaches the target whole, each bit once and in order, or, if its
\* data have not all arrived, not at all.
ShiftedWhole ==
  /\ pc \in {"header", "data"} => driven = <<>>
  /\ pc \in {"transfer", "reply"} =>
       got = 2 * NrBytes /\ driven = [i \in 1 .. offset |-> i]

\* The answer to a shift is the TDO of its own clocks, from the first to the
\* last, whatever the length and the blocks.
AnswerIsTdo ==
  pc = "reply" => /\ offset = cmd.bits
                  /\ \A i \in 1 .. cmd.bits : AnswerBit(i) = base + i

\* Together: what the client reads answers what it sent.
ShiftsExact == TypeOK /\ InStep /\ ShiftedWhole /\ AnswerIsTdo
=============================================================================
