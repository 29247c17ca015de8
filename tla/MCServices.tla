----------------------------- MODULE MCServices -----------------------------
(* The components that share nothing with the others but the tasks they run  *)
(* in, each in behaviours of its own: the transfer commands of the debug     *)
(* probe (DapTransfer), settings, boot and network (Device), firmware upload *)
(* (OtaUpload), hardware tests (TestRunner), the XVC server (XvcServer).     *)
EXTENDS DapTransfer

CONSTANTS Limits, MaxRetry, Boundary, Images, Holdback, MaxRecv, Clients, MaxTests, MaxFailures,
          ByteBits, BlockBits, BufSize, Lengths, MaxClients, MaxCommands

VARIABLES
  part,
  nvs, ram, main, try, bits, wifi, http, todo, restart, asked, left, limit,
  image, rest, phase, buf, written, boots, found,
  isRunning, status, result, tasks, started, failures, client, own, seen, answer,
  xvcPc, conn, xvcCmd, unread, got, offset, tdo, sentTo, driven, clocks, base,
  clients, commands

deviceVars   == <<nvs, ram, main, try, bits, wifi, http, todo, restart, asked, left, limit>>
otaVars      == <<image, rest, phase, buf, written, boots, found>>
testVars     == <<isRunning, status, result, tasks, started, failures, client, own, seen,
                  answer>>
xvcVars      == <<xvcPc, conn, xvcCmd, unread, got, offset, tdo, sentTo, driven, clocks,
                  base, clients, commands>>

-----------------------------------------------------------------------------
Sm(n, p) == [mode |-> "SM", ssid |-> n, pass |-> p, ports |-> "default"]
Point(n, p, d) == [mode |-> "AP", ssid |-> n, pass |-> p, ports |-> d]
UartForm == [mode |-> "none", ssid |-> "none", pass |-> "none", ports |-> "default"]

MCLimits ==
  {[requests |-> {Sm("home", "right"), Sm("home", "none"), Sm("home", "wrong"),
                  Sm("own", "none"), Point("own", "none", "own"), Point("none", "right", "default"),
                  Point("own", "right", "own"), UartForm},
    saves |-> 2, losses |-> 2, leaves |-> 0],
   [requests |-> {Sm("home", "right"), Sm("home", "none"), Point("own", "none", "own")},
    saves |-> 3, losses |-> 0, leaves |-> 1]}

MCBoundary == <<"-", "b">>
MCImages ==
  {<<>>, <<"x">>, <<"x", "-", "cr", "lf">>, <<"x", "cr", "lf", "-", "x", "cr">>,
   <<"x", "y", "cr", "lf", "cr", "lf", "-", "-", "x", "y", "z", "-">>,
   <<"cr", "lf", "cr", "lf", "x", "y", "z", "x", "y", "z", "x", "y", "z", "cr", "lf", "-">>}

\* Every sequence of two requests, and those of three that tell the pipeline's
\* transitions apart; blocks of up to three words.
Transfers(ports, kinds, lengths, bytes, stamps) ==
  {[type |-> "transfer", port |-> p, requests |-> r, byte |-> b, stamps |-> stamps] :
     p \in ports, r \in UNION {[1 .. n -> kinds] : n \in lengths}, b \in bytes}

Blocks ==
  [type : {"block"}, port : {"swd", "jtag", "jtagNoDevice", "none"},
   reg : {"apRead", "dpRead", "apWrite", "dpWrite"}, words : 0 .. 3]

MCCommands ==
  Transfers({"swd", "jtag", "jtagNoDevice", "none"},
            {"apRead", "dpRead", "apMatch", "dpMatch", "apWrite", "dpWrite", "mask"},
            0 .. 2, {"dpRead", "dpWrite"}, FALSE)
  \cup Transfers({"swd", "jtag"}, {"apRead", "dpRead", "apMatch", "apWrite", "mask"},
                 {3}, {"dpRead"}, TRUE)
  \cup Blocks

-----------------------------------------------------------------------------
Device   == INSTANCE Device
Ota      == INSTANCE OtaUpload
Test     == INSTANCE TestRunner
Xvc      == INSTANCE XvcServer WITH pc <- xvcPc, cmd <- xvcCmd, result <- tdo

ASSUME DeviceAssumptions == Device!MaxRetryAssumption /\ Device!LimitsAssumption
ASSUME OtaAssumptions ==
  /\ Ota!BoundaryAssumption /\ Ota!ImagesAssumption /\ Ota!HoldbackAssumption
  /\ Ota!RecvAssumption
ASSUME TestAssumptions == Test!TestsAssumption
ASSUME XvcAssumptions == Xvc!XvcAssumption

\* The parts that do not run stay in one initial state.
Still ==
  /\ part = "device" \/ limit = (CHOOSE l \in Limits : TRUE)
  /\ part = "ota" \/ image = (CHOOSE i \in Images : TRUE)
  /\ \/ part = "transfer"
     \/ cmd = (CHOOSE c \in Commands : TRUE) /\ abort = FALSE

MCInit == /\ part \in {"device", "ota", "test", "transfer", "xvc"}
          /\ Still
          /\ Init /\ Device!Init /\ Ota!Init /\ Test!Init /\ Xvc!Init

DeviceNext == /\ part = "device" /\ Device!Next
              /\ UNCHANGED <<part, otaVars, testVars, vars, xvcVars>>
OtaNext == /\ part = "ota" /\ Ota!Next
           /\ UNCHANGED <<part, deviceVars, testVars, vars, xvcVars>>
TestNext == /\ part = "test" /\ Test!Next
            /\ UNCHANGED <<part, deviceVars, otaVars, vars, xvcVars>>
TransferNext == /\ part = "transfer" /\ Next
                /\ UNCHANGED <<part, deviceVars, otaVars, testVars, xvcVars>>
XvcNext == /\ part = "xvc" /\ Xvc!Next
           /\ UNCHANGED <<part, deviceVars, otaVars, testVars, vars>>

MCNext == DeviceNext \/ OtaNext \/ TestNext \/ TransferNext \/ XvcNext

mcVars == <<part, vars, deviceVars, otaVars, testVars, xvcVars>>
\* The fairness of each module, in its own behaviours.
MCFairness ==
  /\ WF_mcVars(Device!Main /\ DeviceNext) /\ WF_mcVars(Device!Httpd /\ DeviceNext)
  /\ \A t \in 1 .. MaxTests : WF_mcVars(Test!Task(t) /\ TestNext)
  /\ WF_mcVars(Execute /\ TransferNext)

MCSpec == MCInit /\ [][MCNext]_mcVars /\ MCFairness

-----------------------------------------------------------------------------
\* What was saved is what runs after the restart.
RunsAsAsked == part = "device" => Device!TypeOK /\ Device!RunsAsAsked
\* The device can be reached again, whatever was saved and lost.
ReachableAgain == part = "device" => Device!ReachableAgain

\* A new firmware is exactly the one uploaded, or is not booted.
UploadExact == part = "ota" => Ota!UploadExact

\* One test at a time; a client that saw its test run and end is given its whole
\* result, or what a test started since then has stored.
ResultIsOwn == part = "test" => Test!TypeOK /\ Test!OneAtATime /\ Test!ResultIsOwn

\* Tests can be started again, unless the task of one could not be created, and
\* every transfer command ends.
WorkEnds == Test!FlagIsCleared /\ (part = "transfer" => CommandEnds)

\* What an XVC client reads answers what it sent.
ShiftsExact == part = "xvc" => Xvc!ShiftsExact
=============================================================================
