------------------------------- MODULE MCPins -------------------------------
(* What decides the levels on the pins of the target, each in behaviours of  *)
(* its own: the registers of the FPGA (FpgaRegs), once with requests from    *)
(* the beginning of the boot and one register function at a time and once    *)
(* with requests after the boot and the functions interleaved; the scans of  *)
(* a JTAG chain (JtagChain); the transfers of SWD (SwdWire); packets of      *)
(* commands that set pins and clock out sequences (DapCommands).             *)
EXTENDS FpgaRegs, Integers

CONSTANTS Chains, JtagWords, IdleCycles, MaxCommands,   \* JtagChain
          SwdWords, Configs, MaxTransfers,              \* SwdWire
          Scripts, Lines                                \* DapCommands

VARIABLES part, chain, tap, instr, shift, reg, done, cmd, scan, got, result, commands,
          conf, probe, target, port, heard, read, wanted, ack, reply, word, served,
          noise, transfers,
          script, connected, line, packet, pos, rpos, response, left, call, pins, last, events

jtagVars == <<chain, tap, instr, shift, reg, done, cmd, scan, got, result, commands>>
swdVars == <<conf, probe, target, port, heard, read, wanted, ack, reply, word, served,
             noise, transfers>>
packetVars == <<script, connected, line, packet, pos, rpos, response, left, call, pins,
                last, events>>

MCChains == {<<4>>, <<4, 5>>, <<2, 4>>, <<3, 4, 5>>, <<4, 2, 4>>}
MCJtagWords == {<<0, 1, 1>>, <<1, 0, 0>>}
MCSwdWords == {<<0, 1, 1, 0, 1, 0, 0, 0>>, <<1, 1, 1, 0, 0, 1, 0, 1>>}
MCConfigs == {[turnaround |-> 1, dataPhase |-> FALSE, idle |-> 0],
              [turnaround |-> 2, dataPhase |-> TRUE, idle |-> 2],
              [turnaround |-> 4, dataPhase |-> FALSE, idle |-> 1]}

Levels(n) == [i \in 1 .. n |-> IF (i * i + n) % 3 = 1 THEN 1 ELSE 0]
Swj(n) == [kind |-> "swj", bits |-> Levels(n)]
SwdIn(n) == [in |-> TRUE, bits |-> Levels(n)]
SwdOut(n) == [in |-> FALSE, bits |-> Levels(n)]
SwdSeq(seqs) == [kind |-> "swd", seqs |-> seqs]
Scan(n, tms, out) == [tms |-> tms, out |-> out, bits |-> Levels(n)]
JtagSeq(seqs) == [kind |-> "jtag", seqs |-> seqs]
Plain(bytes, answer) == [kind |-> "plain", bytes |-> bytes, answer |-> answer]
Nested == Plain(<<127>>, <<255>>)

MCCommands ==
  {[kind |-> "connect", port |-> p] : p \in {0, 2, 3}} \cup {[kind |-> "disconnect"]}
  \cup {Swj(1), Swj(8), Swj(17), SwdSeq(<<>>), SwdSeq(<<SwdIn(3)>>),
        SwdSeq(<<SwdOut(9), SwdIn(8)>>), SwdSeq(<<SwdIn(9), SwdOut(2), SwdIn(1)>>),
        JtagSeq(<<Scan(5, 1, FALSE)>>), JtagSeq(<<Scan(9, 0, TRUE), Scan(1, 1, TRUE)>>),
        [kind |-> "pins", value |-> 6, select |-> 131],
        [kind |-> "pins", value |-> 1, select |-> 5]}
  \cup {Plain(<<0, 240>>, <<0, 2, 51, 1>>), Plain(<<0, 1>>, <<0, 0>>),
        Plain(<<1, 7, 1>>, <<1, 255>>), Plain(<<17, 0, 0, 0, 0>>, <<17, 255>>),
        Plain(<<21, 3, 4, 5, 4>>, <<21, 0>>), Plain(<<10>>, <<10, 0, 0>>),
        Plain(<<128>>, <<128>>), Nested}

\* Every command and every two commands, three of those that use the pins, the
\* longest sequences, and the settings.
MCScripts ==
  {<<c>> : c \in MCCommands \ {Nested}} \cup [1 .. 2 -> MCCommands]
  \cup [1 .. 3 -> {c \in MCCommands : c.kind \notin {"plain", "pins"}}]
  \cup {<<Swj(256)>>, <<SwdSeq(<<SwdIn(64), SwdOut(64)>>)>>, <<JtagSeq(<<Scan(64, 0, TRUE)>>)>>,
        <<Plain(<<0, 4>>, <<0, 6, 50, 46, 49, 46, 50, 0>>), Plain(<<0, 255>>, <<0, 2, 64, 0>>),
          Plain(<<0, 254>>, <<0, 1, 1>>), Plain(<<0, 241>>, <<0, 4, 64, 66, 15, 0>>),
          Plain(<<4, 0, 1, 0, 1, 0>>, <<4, 0>>), Plain(<<9, 1, 0>>, <<9, 0>>),
          Plain(<<17, 0, 0, 1, 0>>, <<17, 0>>), Plain(<<19, 1>>, <<19, 0>>),
          Plain(<<1, 1, 1>>, <<1, 0>>), Swj(1)>>}
MCLines == {<<1, 0, 0>>, <<0, 1, 1, 1, 0>>}

Interleaved == INSTANCE FpgaRegs WITH
  Overlap <- TRUE, EarlyHttp <- FALSE, UsesGdb <- TRUE,
  Requests <- {"la_configure", "portd_freq", "bad_pulse"}
Jtag == INSTANCE JtagChain WITH Words <- JtagWords, todo <- scan
Swd == INSTANCE SwdWire WITH Words <- SwdWords, got <- read, asked <- wanted
Packet == INSTANCE DapCommands WITH request <- packet

ASSUME JtagAssumption == Jtag!ChainAssumption
ASSUME SwdAssumption == Swd!WireAssumption
ASSUME PacketAssumption == Packet!ScriptsAssumption

\* The parts that do not run stay in one initial state.
Still ==
  /\ part = "jtag" \/ chain = <<4>>
  /\ \/ part = "swd"
     \/ conf = (CHOOSE c \in Configs : TRUE) /\ word = (CHOOSE w \in SwdWords : TRUE)
  /\ \/ part = "packet"
     \/ script = <<Swj(1)>> /\ connected = TRUE /\ line = <<1, 0, 0>>

MCInit == /\ part \in {"serial", "interleaved", "jtag", "swd", "packet"}
          /\ Still
          /\ Init /\ Jtag!Init /\ Swd!Init /\ Packet!Init

SerialNext == part = "serial" /\ Next /\ UNCHANGED <<part, jtagVars, swdVars, packetVars>>
OverlappingNext == /\ part = "interleaved" /\ Interleaved!Next
                   /\ UNCHANGED <<part, jtagVars, swdVars, packetVars>>
JtagNext == part = "jtag" /\ Jtag!Next /\ UNCHANGED <<part, vars, swdVars, packetVars>>
SwdNext == part = "swd" /\ Swd!Next /\ UNCHANGED <<part, vars, jtagVars, packetVars>>
PacketNext == part = "packet" /\ Packet!Next /\ UNCHANGED <<part, vars, jtagVars, swdVars>>
MCNext == SerialNext \/ OverlappingNext \/ JtagNext \/ SwdNext \/ PacketNext

MCSpec == MCInit /\ [][MCNext]_<<part, vars, jtagVars, swdVars, packetVars>>

\* One register function at a time: the shadow is what the FPGA has; outside a
\* pulse the target is not left in reset; with the toggle stopped Port D is what
\* was last asked for.
SerialAsAsked == part = "serial" => PinsAsAsked

\* A scan of the chain does what was asked to the device addressed, and nothing
\* to the others.
ChainExact == part = "jtag" => Jtag!TypeOK /\ Jtag!ChainExact

\* A disturbed bit is noticed, and never makes both ends drive the wire.
SwdExact == part = "swd" => Swd!TypeOK /\ Swd!SwdExact

\* A packet of commands is carried out and answered as the host meant it.
PacketExact == part = "packet" => Packet!TypeOK /\ Packet!PacketExact
=============================================================================
