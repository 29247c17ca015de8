# Verification of the ESP32JTAG firmware

TLA+ models of the firmware's own logic, TLC runs that check them on small
instances, and TLAPS proofs that hold for every value of the constants. Paths
below are relative to `src/`.

- [1. The system](#1-the-system)
- [2. What is modelled](#2-what-is-modelled)
- [3. Runs](#3-runs)
- [4. What the checks found](#4-what-the-checks-found)
- [5. Proofs](#5-proofs)
- [6. Not modelled](#6-not-modelled)
- [7. Plan](#7-plan)

## 1. The system

The firmware turns an ESP32-S3 with a small iCE40 FPGA into a debug probe: a
CMSIS-DAP adapter and a serial port on USB, a Xilinx virtual cable server and a
GDB server on TCP, and a logic analyzer, a serial terminal and a set of pins
driven from a web page.

### Who runs

| context | priority, core | what it runs |
|---|---|---|
| `app_main` | main task, core 0 | boot, then idles |
| USB interrupt | core 0 | endpoint callbacks and bus events of `dap_main.c` |
| `cherry_dap_task` | 5, either core | in one loop: `uart_event_task` (`usb2uart.c`), `chry_dap_handle` with the commands, `chry_dap_usb2uart_handle` |
| `httpd` | one task | every web handler, one request at a time; queued websocket sends |
| `esp_timer` | one task | `portd_toggle_cb` |
| `uart_read_task`, `uart_write_task` | 10 | the web terminal |
| `xvc_server_task` | 5 | one XVC client at a time |
| GDB server | 15 | Black Magic Probe (a submodule, not in the tree) |
| test runner | 5 | one hardware test, created per request |

There is no lock anywhere between these contexts; they share globals.

### Components

For each: its state, its operations, with whom it interacts, what is hard, and
what makes it correct.

**CherryRB byte ring** (`components/CherryDAP/CherryRB/chry_ringbuffer.c`).
Pool, two free-running counters. Init, reset, size queries, byte and block
write, overwrite, peek, read, drop, and zero-copy setup/done pairs. Used by the
CDC bridge between an interrupt and a task, without a lock, as its header
comments allow for one writer and one reader. Hard: the two sides interleave
inside a call; the counters wrap; a chunk is split at the pool's end. Correct:
it is a bounded FIFO.

**CMSIS-DAP packet pipeline** (`components/CherryDAP/dap_main.c`). Request and
response slots, indices, 16-bit counters, two idle flags, the abort flag. USB
OUT and IN callbacks, reset and configuration events, the task's loop. Hard:
interrupt and task share everything, on one core or two; the host aborts,
queues commands and resets the bus. Correct: answers in order and once, no
packet received over a pending one, reception and responses never stop.

**DAP command interpreter** (`components/CherryDAP/DAP/Source`). ARM's
reference code with this board's pins (`DAP_config.h`). A packet is a list of
commands; each takes bytes and gives bytes. Transfers are loops with posted
reads, retry and match counts; below them are the scans of a JTAG chain and the
transfers on the two wires of SWD. Hard: values arrive a transfer late, an
abort arrives in between, the line may be disturbed, and every length from none
to the longest counts differently. Correct: each value in the place of its
read, each register accessed once, the addressed device and no other, a
disturbed transfer noticed, the pins do what the host meant, the response is
what the line said.

**CDC to UART bridge** (`dap_main.c`, `projects/esp32s3/main/usb2uart.c`). One
ring, two idle flags, one buffer for all USB writes. Hard: the buffer is cleared and refilled
while it is being sent; a reset in the middle of a packet; one flag says who
may start the next read. Correct: bytes arrive in order, none is lost or
overwritten while flow control holds, reception resumes.

**FPGA control registers** (`main/main.c`: `set_cfga`, `set_la_input_sel`,
`set_sreset`, `set_portd_output`, `set_portd_freq`). Two shadow registers and
the FPGA's own. Called from `app_main`, `httpd`, `esp_timer` and the GDB server.
Hard: unlocked read-modify-write; every frame carries both registers; the web
server runs before the FPGA is set up; a stopped timer's callback may still
run. Correct: shadow and FPGA agree, the target is never left in reset, the
ports stay connected, the pins do what was asked.

**Logic analyzer** (`main/ice40up5k/ice.c`, `main/network/web_server.c`,
`main/web/logic_analyzer.html`). Live settings, settings saved at the start of
a capture, the FPGA's capture state, a page that polls. Hard: settings change
while a capture is armed; polls overlap; two pages. Correct: the page shows the
whole capture it asked for, and the FPGA triggers on what was set.

**FPGA configuration** (`ICE_FPGA_Config`, `load_fpga`). Bit-banged load, three
attempts. Correct: nothing talks to an FPGA that is not configured.

**XVC server** (`components/lcd/xvc_server.c`, `pack_jtag_data.c`). A request
buffer and vectors of bits, cut into transfers of 256 bits. Hard: TCP delivers
a command in pieces, TDO comes a clock late, lengths are not whole bytes.
Correct: the bits shifted and answered are those of an unbounded shift, for
every length, and a client lost in between leaves the target as it was.

**UART terminal and log monitor** (`main/network/uart_websocket.c`). One
session (`resp_arg`), a stream buffer, a queue, the log hook. Hard: the session
is replaced field by field while other tasks send; the log hook runs in every
task; socket numbers are used again. Correct: data goes to the live session only,
in order, and nothing older than the session.

**Settings and credentials** (`main/storage.c`, `web_server.c`). NVS keys.
Hard: many keys, one commit each, power loss, a second writer at boot. Correct:
a boot reads settings somebody chose, and the device can be reached again.

**Network manager** (`main/network/network*.c`). Event bits set by events,
consumed by waits. Hard: stale bits, time-outs, fall-back to access point mode.
Correct: `connected` means connected; a failure ends in the access point mode.

**Firmware upload** (`web_server.c: ota_upload_handler`). A multipart scanner
that holds back a tail. Hard: the boundary falls anywhere between two receives;
the connection breaks. Correct: what is written is exactly the payload, and
only a complete image boots.

**Test runner** (`web_server.c`). A flag, a status and a result string between
the handlers and a task. Correct: one test at a time; `done` is this test's.

**Boot, target files, display, part tables, compatibility shims, CherryUSB,
Black Magic Probe**: see section 6.

The hazards of all of these, each at its line, are in `PROJECT.json`.

## 2. What is modelled

| module | models |
|---|---|
| `BoundedFifo` | what the ring promises: a bounded queue of bytes |
| `RingBuffer` | `chry_ringbuffer.c`, every function |
| `PacketServer` | what the pipeline promises a host: each request answered once, in order |
| `DapPackets` | the packet pipeline of `dap_main.c` |
| `DapCommands` | a packet of commands, byte by byte and clock by clock: `DAP_ExecuteCommand`, connect, pins, settings, sequences |
| `DapTransfer` | `DAP_Transfer`, `DAP_TransferBlock`, their aborts |
| `JtagChain` | `JTAG_DP.c` against a chain of devices |
| `SwdWire` | `SW_DP.c: SWD_Transfer` against a debug port, with a disturbed line |
| `CdcBridge` | the serial port of `dap_main.c`, `usb2uart.c` |
| `FpgaRegs` | the register functions of `main.c` and their callers |
| `LaCapture` | capture functions of `ice.c`, their handlers, the page |
| `UartWs` | `uart_websocket.c` |
| `Device` | settings in flash, boot, network manager |
| `OtaUpload` | `ota_upload_handler` |
| `TestRunner` | the test handlers and the task |
| `XvcServer` | `xvc_handle_client_v3`, `pack_jtag_data.c` |
| `MC*` | instances for TLC; `MCPins`, `MCServices` and `MCDapPackets` hold several instances, one per behaviour |
| `*Proofs` | theorems about the module named; `PinsProofs` about `FpgaRegs`, alone and inside `MCPins`, and about `SwdWire`, `JtagProofs` about `JtagChain`, `ServicesProofs` about the parts of `MCServices` |

The definitions of the form `<Name><Something>` under a comment `Mutant: ...`
are altered copies of the definition that follows them. Nothing uses them; they
exist so that each property can be shown to notice a plausible mistake.
Variables under the word *observation* are read by properties only, never by an
action's guard. *External* definitions stand for what is not in the tree, as
the code uses it.

### RingBuffer

`in`, `out`, `pool` are the fields of the C structure. A call in progress is a
record: `prod` for the writer (what it was given, how many bytes it may store,
how many it has stored), `cons` for the reader. A call is split where the other
side may run: reading the other counter (`Write`, `Peek`, `Read`, `Drop`, the
setups), moving one byte (`WriteCopy`, `ReadCopy`), storing the own counter
(`WriteDone`, `ReadDone`, ...). `Reset` and `Overwrite*`, which the header says
need a lock, are one step with both sides idle. `ResetRead` belongs to the
reader. The arithmetic is modulo `Word`, the slot is the counter modulo `Size`.

Order of memory accesses: the model stores in program order. The code relies on
that too (the counters are neither atomic nor volatile and there is no
barrier); whether the compiler and a second core keep it is assumed here.

### DapPackets

The state is the variables of `dap_main.c` of the same meaning (`reqIn` is
`USB_RequestIndexI`, and so on), the two endpoints, and where the interrupt and
the task stand. An OUT packet is `OutCallback` (count it or raise the abort
flag), `OutCheck` (compare the counters), then `OutArm` or `OutIdle`; an IN
completion is `InCallback`, then `InSend` or `InIdle`. The task's loop is
`TaskLook` to `TaskSend` in the order of the code. With `OneCore` the task
takes no step during a handler; otherwise the two interleave, as
`cherry_dap_task` has no affinity. `BusReset` and `Configured` are the two USB
events; `BusReset` also forgets what the endpoints held. The host (`HostSend`,
`HostAbort`, `HostReceive`) and the endpoint hardware (`StartRead`,
`StartWrite`, `LoadFifo`) are external: they do what `dap_main.c` and the
vendored driver's interface let them do.

A command is one step `TaskExecute` (which clears the abort flag, as the
transfer commands do) and one step `TaskAnswer` (which reads it): what happens
to the flag in between is what an abort is about; what a command does is in the
next four modules.

`PacketServer` is the host's view: its numbered requests, how many were
answered, the last answer. `ServerSpec` says that the pipeline implements it,
with the identity as the mapping; a bus reset ends the promise.

### DapCommands

A behaviour is one packet. `script` is what the host asks for, `request` the
bytes it makes of it; the state is the two pointers of `DAP_ExecuteCommand`,
the response, the commands left, the command that is being clocked and the
pins. `Execute` reads a command's number as `DAP_ProcessCommand` does;
`Connect`, `Disconnect`, `SwjPins`, `Set`, `Other` are commands of one step;
`SwjSequence`, `SwdSequence`, `JtagSequence` begin those that clock, `Begin`,
`Clock`, `End` do their sequences bit by bit, and `Leave` returns how much was
taken and given. These counts are kept apart from the pointers, as in the code;
the next command starts where they say. What happens on the pins is compared
with what the script asks for one event after the other.

### DapTransfer

One command's list of requests, or a block. A step is one transfer on the wire
with the code up to the next one; `pc` names the place, `s` holds the locals,
`resp` the response. A read's value is posted and comes with a later transfer:
`target` (external) holds it and the log of accesses. The target may answer OK,
WAIT, FAULT or a protocol error to anything, so retries, matches, the final
RDBUFF check and the cancelled requests are all taken. `Abort` is the USB
interrupt's store, between any two steps; `late` counts the transfers after it.

### JtagChain

A command is turned into the clock cycles of `JTAG_IR`, `JTAG_Transfer`,
`JTAG_ReadIDCode` or `JTAG_WriteAbort` (`todo`: TMS, TDI, whether TDO is read),
and the chain takes them one by one: TAP states, instruction and data
registers, the shift path through all devices. The chain is IEEE 1149.1 and
ARM's debug interface; the program's side is only what it clocks and what it
makes of what it reads. `AckRead` is where the source goes on by the
acknowledge.

### SwdWire

Two ends each have a list of cycles: drive 0, drive 1, read, keep off. `Cycle`
takes one of each; `Disturbed` is the same with the line inverted for the
receiver. `AckRead` continues `SWD_Transfer` by the acknowledge it has read,
which need not be what the target sent; `LineReset` is the host's recovery
after an error.

### CdcBridge

From the host: `BulkOut` stores a packet in the ring (a bounded queue, which
`RingBufferProofs` licenses), `OutCheck`, `OutArm`, `OutIdle` decide about
the next read; the task's loop (`task` from `events` to `startRead`) writes
chunks to the UART and arms the read when the flag says so. From the UART: the
task moves what the driver holds to one buffer and starts a write from it; the
endpoint loads packets from that buffer as it is then (`LoadFifo`). Bytes are
numbered, 0 is a cleared byte. Two sizes are kept apart: what the UART driver
holds (`RxCap`, 8192) and the buffer `dtmp` (`BufSize`, 1024). `ReadUart` takes
as many bytes as the driver holds, whatever the buffer's size; `dtmp` therefore is
modelled with the memory behind it, which a clearing leaves alone and which
its owner may write at any time (`OwnerWrites`). `overrun` remembers that more was
read than the buffer holds; what that does to the owner is not followed.

### FpgaRegs

`reg0` and `reg1` are the shadow registers, reduced to the fields the callers
tell apart: the SRESET level, the LA input, the port bits; what drives Port D.
A call of `set_sreset`, `set_la_input_sel` or `set_cfga` is `Load` (read the
register into the edit and the frame), `Store`, `Transfer`; `set_portd_output`
is `StoreOutput`, `FillFrame`, `Transfer`. Every task has the calls it still
must make (`todo`) and the frame it is building. `Transfer` does nothing while
the SPI device does not exist: the error is ignored by every caller.

`Overlap` lets two tasks be inside these functions together; without it they
take turns at whole calls, which isolates the mistakes that are not races.
`EarlyHttp` lets web requests arrive before `app_main` has finished, as the
code does: it starts the server first. The port functions assumed are Port B =
UART and SRESET, Port D = logic analyzer; for other settings the handlers
return early. Boards without an FPGA return from all of these functions.

### LaCapture

All handlers run in the one `httpd` task, so a handler is one step (`Serve`);
the instant capture waits in a loop and is several (`InstantPoll`,
`InstantRead`). A page has several connections: `Serve`, `Deliver` and `Fail`
happen per connection in any order. `ClickStart`, `ClickInstant`, `PollTimer`
and what `Deliver` does with an answer are the page's script. `checkStatus` awaits
twice, and is cut at both: `CheckPoll` is what follows the fetch, the test for a
polling that was cancelled; `UsePoll` what follows `response.json()`, which acts on
the body without another test; `FailPoll` its catch. Between the two any other
request may be served and any other answer used, so two polls that overlap may
both fetch; `late` remembers that one did when the polling was already over.
`Configure` is a settings request; `Trigger` the FPGA's stop. Captures are numbered, which
neither firmware nor page does. The trigger mode and the channels belong to
what arms the FPGA and are not told apart; rate and position are one value of
`Configs`.

### UartWs

`fd` is `resp_arg`; `sock` says what became of each socket, whose number may be
used again. `Handshake`, `Close`, `LogOn`, `LogOff`, `Message` are what
`httpd` does for a frame (a handshake is several steps, because it resets the
stream between two of them), `AsyncSend` is the queued call. `ReadChunk` and
`Reader` are `uart_read_task`, `WriteUart` the writer, `LogStep` the log hook
in each kind of task. A failing send logs an error, and the log queues another
send, as in the code.

### Device

`nvs` has the keys with their values or `none`, `ram` what `app_main` has read.
`Main` is the boot up to its idle loop with every branch of the fall-back,
`Httpd` one key of a request at a time; `Join`, `Refuse`, `Leave` are the
network, `PowerLoss` a restart anywhere. `Save` and `FactoryReset` are the
requests. The key `rest` stands for all settings that have no part in choosing a network;
`UART_PORT_SEL` is one of them, although boot gives it a default and the others
none: no property looks at which of them is missing. The event bits are set by the radio and consumed by the waits, as in
`network_mngr.c`.

### OtaUpload, TestRunner, XvcServer

`OtaUpload` gets the body of a form in pieces of any size (`ScanDiscard`,
`ScanFound`, `StreamOn`, `StreamEnd`, `RecvEnds`) and finishes (`End`). Bytes are
tokens, so that a boundary, or half of one, may also be part of the image.
`TestRunner` has the three handlers and `Task(t)`, whose steps store the status,
the result and the flag one after another. Any number of clients start tests, poll
and fetch results, in any order: the start handler looks at nothing but the flag,
the other two tell no client apart. So a client may start a test between another's
"done" and its request for the result, and the other is then given the later
test's result, or what is formatted of it so far. `ResultIsOwn` says that this is
all that can happen to one that has read "running".
`XvcServer` receives a command in
pieces, transfers it in blocks (`ByteBits`, `BlockBits` stand for 8 and 256),
and answers; a TDO bit is named by the clock that produced it. A failed SPI
transfer, which ends the command and closes the connection (`xvc_server.c:342`),
is left out.

## 3. Runs

`tlc -config <cfg> <module>`, each under five minutes. *Counterexample* runs
check one statement of a comment or a document that the code does not keep.

| run | module | shows |
|---|---|---|
| `ring` | `MCRingBuffer` | a writer's slots are never unread ones; the inductive invariant; FIFO refinement; a finished write accepted what was offered or what fitted |
| `dap` | `MCDapPackets` | two cores, 5 packets, 2 aborts: answers in order and once, queued packets are converted, an abort ends an earlier transfer only, no packet into a pending slot, a busy IN endpoint is never written, a hand-over of responses is never lost; the host sees the server of `PacketServer`. One core, 3 packets, an abort, a bus reset: reception always resumes; every request is answered unless the bus was reset |
| `dap_two_cores` | `MCDapTwoCores` | counterexample: reception stops |
| `pins` | `MCPins` | five parts: registers with whole calls in turn and requests during boot; registers with calls interleaved; JTAG chains; SWD with noise; packets of commands |
| `capture` | `MCLaCapture` | an instant capture returns its own samples; a page shows the capture it started, or, when a poll that overlaps fetches late, that one or nobody's; settings of the start are kept; a stopped capture is noticed; `httpd` is freed |
| `capture_stale` | `MCLaCapture` | counterexample: an answer for an earlier capture is taken for the new one's |
| `cdc` | `MCCdcBridge` | who may start a read is alone and has room; the host's bytes reach the UART in order, all of them unless the bus is reset; UART bytes are accounted for; ring and reception resume after a reset |
| `cdc_burst` | `MCCdcBridge` | counterexample: the host reads cleared bytes |
| `ws` | `MCUartWs` | the terminal's and the UART's order, no data older than the session, a session ends with its own connection, data is sent, the log monitor's own errors die out |
| `services` | `MCServices` | five parts: settings, boot and network; upload; tests; transfer commands; XVC |
| `device_short` | `MCDevice` | counterexample: the device restarts for ever |
| `transfer_consumed` | `MCTransfer` | counterexample: a request's data are not counted as consumed |

In `pins`, `services`, `dap` and `capture` a variable (`part`, `oneCore`) chooses
the instance in the initial state and never changes; the others stand still. In
`capture` and `capture_stale` it chooses bounds of one model, as guards (`Within`); the fairness of
a page's timer is that of the guarded action.
`TypeOK` of a module is a conjunct of one of the properties of its run.

### Bounds

*Ring*: a pool of 2 with a word of 4 makes the counters wrap after two laps and
every second chunk cross the pool's end, and chunks of 3 do not fit; only
differences of counters and slots modulo the pool matter, so larger pools bring
no new case, and the proofs cover them. Two byte values tell an order apart.

*DAP packets*: two slots; `Wrap` need only exceed `Count`, since counters are
used in differences; five packets go around two slots more than twice; `Window`
is the number of requests a host keeps unanswered, which CMSIS-DAP bounds by the
packet count the device reports.

*Commands*: every one and every two of 22 commands, every three of those that
clock or connect, the longest sequences (256 and 64 bits), the settings with
their usual and their odd arguments. A counting mistake in one command shows in
the next, so two are what it takes; three have one in the middle. Two patterns
of the line tell bits apart.

*JTAG*: words of three bits (a first, an inner, a last), chains of one to three
devices with IR lengths 2 to 5, every device addressed and one that does not
exist, two commands in a row. *SWD*: words of eight bits, turnarounds 1, 2 and 4, one
disturbed bit per transfer, anywhere but in the idle cycles: a false start bit there,
together with the next request, may form a valid packet, a limit of SWD itself.
A word must not be shorter, because the back-off after an error has to outlast
what the target may still send.

*Registers*: no bound; the state space is finite.

*Captures*: a page with two connections, three captures, two settings, one
poll of the instant loop. The second connection is what overlaps; a third
capture follows one that was cancelled or taken over. The part `overlaps` has three
connections, two captures and no failures: two polls that both fetch, and a third
served between the two fetches.

*CDC*: packets of 2, a ring of 4, a UART driver that holds 4 and a buffer of 3;
four sets of limits, each long in one direction, two of them with a bus reset.
Packets that fill the ring exactly, short ones, bursts longer than a packet, bursts
longer than the buffer and one that the driver has to drop all happen.

*Web terminal*: two sockets, a stream of two chunks taken one at a time, a queue
of two calls and one of two messages; four sets of limits that combine
terminals, data, logs and messages. *Services*: `MaxRetry` 2 (a first, a last),
requests with every kind of difference, up to two power losses, or one lost
connection; images that contain
pieces of the boundary, pieces up to 12 tokens; two clients, four tests, a failed creation;
every list of two transfers and those of three that tell the pipeline's
transitions apart, blocks up to three words, one retry; shift lengths 0 to 17
with a block of 8 and bytes of 4 bits: around every boundary of byte and block;
two clients, two commands.

**Deadlock** is not checked: a host may stop sending, a bound may be used up,
nobody may press a button, a packet or a command ends.

### Fairness

Whatever the firmware's own tasks and interrupts can do is done (weak
fairness), because they are scheduled, poll or have a time-out, and never wait
for each other. Nothing is assumed of a user, a target or a network, except
where named.

- `DapPackets`: interrupt, task; a host that collects a ready response and
  configures a device it has reset.
- `CdcBridge`: interrupt, task, the same configuration. `uart_write_bytes`
  returns because the UART has no flow control.
- `LaCapture`: `httpd` serves each connection and answers arrive or fail;
  strong fairness of a page's timer, which gets a connection when there is
  always again a free one; the instant loop goes on. No trigger need come.
- `UartWs`: reader, writer, `httpd` in a handler, log hook; strong fairness of
  the queued calls and of the notice of a dead connection, because `httpd`
  looks at all of them in one `select` between handlers.
- `Device`: `app_main` (its waits have time-outs) and `httpd`. `TestRunner`:
  each task. `DapTransfer`: the execution of a command.

## 4. What the checks found

Five runs have a counterexample; `PROJECT.json` quotes the lines.

1. `dap_two_cores`: with the task on the other core (nothing pins it), the
   interrupt can decide to go idle, the task can pop the request and find the
   idle flag not yet set, and nobody starts the next read: the adapter is deaf
   until it is reset. On one core it cannot happen (`dap`).
2. `capture_stale`: a page cannot tell the answer of a cancelled capture from
   that of the next one.
3. `cdc_burst`: a burst of more than a packet from the UART is cleared by the
   next event while the endpoint still sends it.
4. `device_short`: a password of fewer than eight characters for the access
   point is stored, and no boot gets past it.
5. `transfer_consumed`: when RDBUFF cannot be read after a write was begun, the
   write's data are taken for the next command.

The passing properties are stated with the condition under which they hold, so
that each counterexample has a passing neighbour. The conditions, and what was
met on the way that no run checks:

*USB.* The race of `dap_two_cores` exists on the way back too: the host has read a
response and sent its next request, the task publishes the answer and looks at
`USB_ResponseIdle` (`dap_main.c:417`) after the IN callback has found nothing to send
(277) and before it says so (286). The answer stays in its slot until the next one is
published, and with one slot, or a host that waits for it, none is.
`RequestsAnswered` therefore promises answers on one core, and on two that the flag is
up when nothing is being sent (`HandOverKept`). A reset while a response is in the endpoint leaves
`USB_ResponseIdle` at 0 for ever; one with a request pending starts a read
without a free slot, and from then on the equality test never stops reception;
after a reset `dap_out_callback` looks at slot `USB_RequestIndexI` while the
endpoint stores into slot 0. With one slot an abort can never arrive in time.
Nothing but the host's own window protects the response slots. A zero-length
packet may be started over a new write (`dap_main.c:312`). `usb2uart.c:33` reads up to the
8192 bytes of the driver into a buffer of 1024 (12, 135): the rest is written to, and
sent from, the memory behind it. `UartBytesAccounted` holds until that happens
(`overrun`). `uart_send` and its completion call each other (`dap_main.c:522`).

*Commands.* `DAP_CPU_CLOCK` is 0 (`port_common.h`), so `SWJ_Clock` always
selects the fast clock and `DAP_Delay` does not delay. `TIMESTAMP_CLOCK` says 1 MHz
(`DAP_config.h:128`), but the time stamp counts FreeRTOS ticks, so a wait of
`SWJ_Pins` lasts far longer than asked; output-only pins read back 0, and nRESET
and nTRST always do, so waits for them run to the end. `SWJ_Pins` compares
bits that are not masked. `PORT_SWD_SETUP`'s comment has TDI at high
impedance; it becomes an output. `PORT_OFF` leaves `SWDIO_RDnWR` as it is. An SWD
sequence does not check whether the port is set up. `JTAG_Configure` with no
device computes `ir_length - 1`. `TransferBlock` looks at the abort flag
inside a word's retries, not between words.

*Registers.* A reset configuration with a bad pulse width is refused
(`web_server.c:1811`) after its polarity has taken effect: the idle level is now
the asserted one. A toggle callback that runs past `set_portd_freq(0)` drives
the port after its release (`main.c:961`); while the toggle runs, a fixed
output asked for is overwritten (`web_server.c:1780`). An analyzer input
selected during boot is lost (`main.c:1225`).

*Captures.* `checkStatus` tests for a cancelled polling before it awaits the body
(`logic_analyzer.html:876`) and not after it. Two polls that overlap both fetch; a
poll served between the fetches may start the engine anew, and the second fetch then replaces
the capture on the page by samples of none: the second case of
`PageShowsItsCapture`. `read_capture_status` and `la_status` use the live trigger mode and
position, not those of the start (`ice.c:1264`, `web_server.c:1522`).

*Terminal.* The log hook is a second writer of the stream buffer
(`uart_websocket.c:197`). A reset of the stream is refused while the reader
waits to send, and then old data reaches the new session.

*Network and upload.* A station that loses its network never reconnects
(`network_mngr.c:99`). An upload that arrives whole in one receive is found, but what is held
back is never written: the image is cut and refused by its own check
(`web_server.c:604`). `load_fpga` reports success after three failures.

*Tests.* The result belongs to no client: one who asks late is sent another's
(`web_server.c:1512`). One who polls before the task has run reads the "done" of
the test before (1497). A task that cannot be created leaves the flag set for good (1486).

*XVC.* A header that TCP delivers in two segments ends the connection; a silent
client blocks the server; without memory the handler returns with the socket
open.

## 5. Proofs

All by `tlapm`, with SMT, Zenon and, for the temporal steps, LS4. Assumptions
are the named assumptions of the modules: `Size >= 2` and a word that is a
multiple of it, at least one slot and a counter range larger than the slot
count, an OUT ring no smaller than a packet, bytes of an even number of bits
and blocks of whole bytes, a boundary without line ends that does not occur in
an image and fits the bytes held back, words of SWD of an even number of bits
from 8 on and turnarounds of 1 to 4, devices of a chain with instruction
registers of two bits at least, Boolean switches, bounds that are
numbers. The bounds themselves, and which requests, images, chains, words and
lengths are sent, are arbitrary: TLC's choices of them are in the configurations,
or named there.

Induction over data (the prefix of a list, the bits of a byte) is by the least
number at which a statement fails (`SetInduction`), which needs no theorem with
an operator parameter; folds and flattened sequences are unfolded by the
recursive functions that define them.

**Ring.** `IInv` = `TypeOK`, `GrantsFit`, `CopiesAgree`. The disjointness of
writer and reader is not inductive: a writer computed its room from an old
`out`. `GrantsFit` says that the grant of each side still fits what the
counters say now (the other side only makes more room); `CopiesAgree`, that the
bytes copied so far are those of the pool. `Invariant` proves `[]IInv`, by one
lemma per operation over arithmetic lemmas about slots (`SlotDistinct`,
`SlotPlus`, `UsedPlus`). `TypeCorrect` and `NoOverlap` follow. `Refines` proves
`Spec => FifoSpec`: with the queue read off the pool (`Contents`), a write's
final store is the abstract append, a read's or drop's final store the removal,
every other step a stutter. `Accepts` is the action property from the same
invariant.

**Packets.** `TypeCorrect` for every count, on one core or two, with resets.
`RequestInv` is inductive with the types until the bus is reset: an OUT transfer,
a handler about to start one, and the idle flag exclude each other, and whoever
has that token has seen a free slot. The race on the flag does not endanger
it: it costs the token, not its uniqueness. `NoOverwrite` and `Bounded` follow.
`NeverAborts` is proved for one slot. The response side has a token of its own
(`ResponseToken`: the IN endpoint, the handler, the flag), which survives a bus
reset: `OneWrite`. That no response slot is filled before it was sent is nowhere
tested by the code; it follows from the host keeping at most `Count` requests
unanswered (`Window <= Count`, a hypothesis of the theorems that need it).
`AnswerInv` makes this inductive: the places a request passes through - received
and not counted, pending, executed, ready, in the endpoint - together hold
`sent - got` requests, and each holds the numbers that follow those of the places
further on, so the slot written next is none of those in use. `InOrder`
follows. `AllConverted` needs that the scan has passed the request at hand
unless it stands there, and that no packet overwrites that one;
`AbortsEarlier`, that a raised flag belongs to an abort that was sent after
the request at hand (`Timely`). `Serves` puts them together: `Spec =>
ServerSpec`, where only `HostReceive` is an answer and the steps of the
handlers and of the task are stutters.

**Serial port.** `ReadsHaveRoom` is the same argument for the OUT ring, with
two contexts and one flag: `OneOwner` (the endpoint, the handler, the flag and the
task exclude each other), `HasRoom` (a read in progress fits), `NoneYet`
(before the first configuration nobody has the token). `TypeCorrect` adds the
types with what makes the steps defined: a write fits what the driver can hold, and,
until an `overrun`, the buffer; a chunk fits what the ring holds. `HostBytes` rests on two invariants. `InTransit`, until the
first reset: ring and packet buffer are consecutive from `Base`, the last byte
that left the ring, and `HasRoom` is what keeps a packet from being cut.
`Ordered`, always: every byte in the ring is beyond `written` and not beyond
`Low`, the last byte that came to the ring or was lost before it, so a reset
loses bytes and repeats none. `UartBytes` is the same idea the other way:
`InPlaces` numbers the bytes of the FIFO, of what is still to be loaded, of what is
still to be written and of the driver one after the other; a write takes over
what is to be written only if the endpoint is free, a clearing of the buffer
is harmless only when everything has been loaded, and what the owner of the memory
behind the buffer writes is harmless only while no byte is there, which is what the
four observations `overlapped`, `torn`, `dropped` and `overrun` say.

**Terminal.** `IInv` has a part for each direction. `StreamInv`: the chunks in the
stream are in their order and not beyond the last one put in, and the chunk at
hand comes after them; `Unsent`: what is in the stream is newer than what the
session has been sent, so a stream that is cleared, full or read by a call that fails
leaves gaps and no repetition. `MessagesInv` is the same for messages between
`httpd` and the UART. `SpecBridge` follows by steps. `SpecNoOldData` needs
`Cleared`, which holds in the middle of the other handlers too: once the handshake
has reset the stream, what is in it came after the session began. `SpecSessionKept`
needs `InvalidIsClosed`: a session that is about to be given up has lost its
connection, and `httpd` accepts no other on that number before it has been.

**Registers.** `TypeCorrect`; and `PortsKept`, under `EarlyHttp = FALSE`, from
`PortsInv`: until its last call `app_main` is alone, and after the transfer of
`set_cfga` every copy of register 0 - shadow, FPGA and each frame in progress -
has the port bits, so an unlocked edit can only bring back a value with them.
`SerialPins` is `PinsAsAsked`, which `SerialAsAsked` checks, for `Overlap = FALSE` and
no `bad_pulse`, with `EarlyHttp` either way. `ShadowInv`: from the first transfer
of `app_main` on the FPGA has the shadow, except between a store and its
transfer, where the frame has it. `ReleaseInv`: when no release of SRESET is
still `Due`, the level in the register, or in the frame about to be stored, is the
released one for the polarity of now: a change of the polarity makes one due.
`PortDInv`: without the toggle, Port D is as asked or the call that makes it so
is still to come. `SerialPinsOfAll` is the same theorem for the behaviours of
`MCPins`, where the registers are one of five parts.

**Captures.** `LoopIsAlone`: `IInv` = `TypeOK`, `StartSettingsKept`,
`LoopOwnsEngine`, for any number of pages and connections. That an instant
answer has its own samples is not inductive: it needs that, while `httpd` waits
in the loop, nobody else changed the engine, its capture number or the stop
position. `InstantCaptureIsOwn` follows from the step that answers. `PageShows` is the
page's side, from `CleanInv`: as long as nothing else is clicked there is one page
that is `Busy`; while it waits the engine holds its capture, a poll that says so
has read the stop position of that capture (`Ready`), and after it there is one request
for data (`FirstFetch`), or `late` is set. Polls that overlap it may read the status
again, which an engine that has stopped survives, and one whose memory is being read
need not: the first fetch has taken its samples by then. A second fetch may find an engine
that has started anew, and then its samples are nobody's; no step makes them another
capture's, because nobody else starts one (`fpga.cap \in {mine[t], Junk}`).

**Tests.** `ResultsOwn`, for any number of clients. Of the tests: a running task is
that of the last test and the flag is set (`RunningIsLast`), so one test runs at a
time; the status tells where that task stands (`StatusOfLast`); the result is whole
when the status says so (`ResultOfLast`). Of each client: once another test was
started after its own, what is stored is its own test's whole result or a later
test's (`OwnOrLater`); until then, a "running" it has read was its own test's, so the
"done" it reads next is told when the result has been stored (`SeenIsLast`); what it is
then sent is what `AnswerIsOwn` allows.

**Upload.** `UploadsExact`. While the handler streams, the image with its closing
is exactly what has been written, what is held back and what is still to come, one
after the other (`Parts`, `Streaming`), and what has been written begins the image
(`Begins`). Two facts about the boundary carry this: it has no line ends and is
not in the image, so that in the two together its first place is in the closing
(`OnlyInClosing`), where the search then finds it; and `Holdback` bytes cover the
closing, so that what is written without having seen the boundary is image. A
connection that breaks leaves a part of the image, which is refused, or the whole.

**XVC.** `AnswersExact`. `Flow` counts what is still to come of a command at every
place the server may stand, so that the next byte read is the first of a
command exactly when the server expects one. `Shifted` says of a transfer under way
that the bits driven are those up to `offset`, in order, by consecutive clocks,
and that each finished byte of the answer is the TDO of its own clocks; a block
shifts whole bytes, and its late bit is read with the next transfer or with
the extra clock at the end. The step (`Transfer`) is proved bit by bit from the
positions in a block, whatever `ByteBits`, `BlockBits` and the length are.

**Settings.** `RunsAsAskedAlways`. What runs need not be what the flash holds, and
the flash need not hold what was asked, so the invariant has two halves.
`WillHold`: each key that a handler is still to write will agree with what was
asked, and each other key does now, where an erased key counts as its default.
`RunsAsStored`: when neither `app_main` nor a handler is going to restart, the device
runs with what the flash holds, and what is still to be written changes nothing of
it. `Save` keeps the first half because a write is left out only when the stored
value is the same, and the second because every write of another value comes
with a restart; `Fallback` keeps it because the access point is written before
the restart, or the handler's write comes later and wins. A restart in the
middle of the writes makes the pending keys unknown and leaves the rest.

**Transfers.** `AbortsPrompt`: `Budget` gives each point of a command the
transfers it may still make after an abort; every step spends at least one of
them or goes to a point with a smaller budget, whatever the target answers.
`SpecInOrder` and `SpecOnce` share one invariant that says, for each place of
`DAP_SWD_Transfer` and its siblings, how far the loop is, which request's value
is posted, and what the response and the target's log of accesses hold: a prefix
of the values and accesses of the requests, short of the posted one. A read
adds the value of the request before it; WAIT and a fault leave both as they
are. What the response of a prefix of the requests is, a fold in the model, is
unfolded by one request at a time.

**SWD wire.** `WireOfAll`. Both ends follow lists of cycles, so the invariant says
what is left of each list. Its stages: `Resting` between transfers; `Asking`, the
request under way, with what the target has heard of it; `Astray`, after a request
that was not heard or not as it was sent; `Answering`, the target sending its
acknowledge; `Matching` and `Mismatched`, the data, with an acknowledge that both
understand alike or not. In each of them the cycles left to the probe and to the
target are compared place by place: where one drives, the other reads or keeps
off. At most one bit of a transfer is disturbed (`noise`), and this makes the
stages exclusive: a request with one wrong bit fails its start, parity, stop or
park bit, or is heard one bit late and is not over before the line is idle for a
word; an acknowledge with one wrong bit is none of OK, WAIT and FAULT. After any
other answer the probe keeps off for the turnaround, a word and its parity: that is
what the target may still drive or read, and longer than a packet that the target
has begun to hear, which is why a word must not be shorter than one. That parity
notices one wrong bit is proved of a sum over any word; the width is even because
a target that waits for data from a probe that keeps off reads ones, and must not
find their parity right.

**JTAG chain.** `ChainOfAll`. For a chain and a command, `Moves` says what the
cycle is that has `p` before it, and `TapAt` where the TAPs are then; the invariant
(`JtagStages`) is that no command has been made (`Unused`), that it was for a
device that is not configured (`Refused`), or that `p` cycles of it have been
(`Scanned(p)`) and the cycles to come are those of `Moves` from `p` on, the TAPs
are at `TapAt(p)`, and the shift registers hold what `p` shifts have made of what
they loaded. `IrShifted` and `DrShifted` say this of all devices as of one register: its
end nearest to the probe holds the bits driven so far, the rest what was loaded.
So behind the last instruction bit the device meant has its instruction and the
others ones (`Addressed`: the sums of the register lengths before and behind it are
what `JTAG_IR` drives); then a device that is bypassed counts one bit, and the bits
kept (`Kept`) are those of the word, neither one early nor one late. `Effected`:
nothing is executed before Update-DR, and then once. That the four functions of
`JTAG_DP.c` clock `Moves`, whether none, one or several bits stand before and behind
the device, is proved of each of them (`IdcodeRuns`, `AbortRuns`, `TransferRuns`,
`RestRuns`). The invariant was
checked by TLC on the chains of `MCPins` before it was proved.

**Model-checked only.** Liveness (`ReceptionResumes`, `HostBytesDrain`,
`ReachableAgain`, `WorkEnds` and the others): fairness is beyond the prover. Of
the safety properties the packets of commands (`PacketExact`).

## 6. Not modelled

Every component is listed in `PROJECT.json` with its reason.

- *Not reached in this build*: the bit-banged JTAG of `jtag.c` and of
  `xvc_server.c`, `SWO.c` and `UART.c` of the DAP, `fpga_loader_handler`, the
  download of a firmware from a URL, provisioning, `g_uartrx`.
- *Target files*: the handlers for `/upload/*` and `/delete/*` are registered
  on a server without wildcard matching and never called. Reading them: the
  directory they write to is never created, `storage.c:345` compares a string
  with NULL when no configuration file was sent, the count of targets is not
  read again after a deletion, a timed-out receive does not count as a try.
- *FPGA load*: sequential, before anything else uses the FPGA.
- *No behaviour of its own*: the display is output only, the part tables are
  data, the shims have no state, the web pages other than the analyzer's show
  what the handlers return.
- *Not ours*: CherryUSB is vendored and Black Magic Probe is not in the tree;
  what the code uses of them is external actions.

The map covers about 5,000 lines, a twelfth of all implementation lines. Most
of the others are fonts, tables, the vendored USB stack and drivers: the
firmware's own logic is some 12,000 lines, of which formatting of pages and
logs, argument parsing and initialisation of drivers is what is left.

Time is not modelled: a pulse is the interval between two calls, a time-out an
action that may happen. Memory order between cores is program order. A handler
of the web server is one step where it runs alone against the state it uses,
and several where another task or a restart can come in between.

## 7. Plan

1. `PacketExact` as a theorem, for every length of a packet and of its sequences.
2. `CdcBridge` with `RingBuffer` itself in the place of the queue, on a pool
   and chunks small enough for both.
3. Captures with the trigger mode of the live settings told apart, once a
   document says which is meant.
