------------------------------ MODULE FpgaRegs ------------------------------
(***************************************************************************)
(* The two FPGA registers that decide what the target's pins do (main.c,   *)
(* set_cfga to set_portd_freq), and everyone who writes them: app_main,    *)
(* the web server, the Port D toggle timer and the GDB server.             *)
(*                                                                         *)
(* The firmware keeps a shadow of both, and every SPI frame carries both:  *)
(* a function edits its half of the shadow without a lock and sends the    *)
(* whole.  An edit of register 0 is a load, a store and a transfer.        *)
(***************************************************************************)
EXTENDS Sequences

CONSTANTS Overlap,   \* TRUE: two tasks may be inside these functions at once
          EarlyHttp, \* TRUE: requests come before app_main has set up the FPGA
          Requests,  \* the kinds of web request that are sent
          UsesGdb    \* TRUE: Port C is configured for the GDB server

ASSUME RegsAssumption == /\ Overlap \in BOOLEAN /\ EarlyHttp \in BOOLEAN
                         /\ UsesGdb \in BOOLEAN

Tasks == {"main", "httpd", "timer", "gdb"}

\* data_reg_1: what drives Port D (outsig_sel and gpio_output_data).
Outputs == {"tristate", "counter", "low", "high"}

\* data_reg_0: the level of SRESET, the LA input, the CFGP* port bits.
Register0 == [sreset : BOOLEAN, la : BOOLEAN, ports : BOOLEAN]
Frame     == [reg0 : Register0, reg1 : Outputs]

VARIABLES
  reg0, reg1,    \* global_data_reg_0, global_data_reg_1
  polarity,      \* gbl_sreset_polarity
  testSignal,    \* gbl_capture_internal_test_signal
  fpga,          \* the registers in the FPGA
  spi,           \* the SPI devices have been added
  timer, toggle, \* s_portd_toggle_timer runs; s_portd_toggle_state
  todo,          \* per task, the calls it still has to make
  pc, frame,     \* per task, where it stands in the first of them; its tx buffer
  asked,         \* what the last web request wanted of Port D
  held           \* the last set_sreset was the GDB server's, to assert

vars == <<reg0, reg1, polarity, testSignal, fpga, spi, timer, toggle, todo, pc, frame,
          asked, held>>

Zero == [reg0 |-> [sreset |-> FALSE, la |-> FALSE, ports |-> FALSE], reg1 |-> "tristate"]

Sreset(b)  == [fn |-> "set_sreset", arg |-> b]
LaInput(b) == [fn |-> "set_la_input_sel", arg |-> b]
Cfga       == [fn |-> "set_cfga", arg |-> TRUE]
PortD(v)   == [fn |-> "set_portd_output", arg |-> v]
StartToggle == [fn |-> "esp_timer_start", arg |-> TRUE]
SpiInit    == [fn |-> "spi_master_init", arg |-> TRUE]

\* app_main, from web_server_start on.
Boot == <<SpiInit, Sreset(FALSE), Cfga, LaInput(FALSE)>>

Init ==
  /\ reg0 = Zero.reg0 /\ reg1 = Zero.reg1 /\ fpga = Zero
  /\ polarity = "low" /\ testSignal = FALSE
  /\ spi = FALSE /\ timer = FALSE /\ toggle = FALSE
  /\ todo = [t \in Tasks |-> IF t = "main" THEN Boot ELSE <<>>]
  /\ pc = [t \in Tasks |-> "none"] /\ frame = [t \in Tasks |-> Zero]
  /\ asked = "tristate" /\ held = FALSE

Booted == todo["main"] = <<>>

-----------------------------------------------------------------------------
(* The register functions.                                                 *)

\* Task t may take a step of the call fn it has come to.
May(t, fns) ==
  /\ todo[t] # <<>> /\ Head(todo[t]).fn \in fns
  /\ Overlap \/ \A u \in Tasks \ {t} : pc[u] = "none"

\* Mutant: the polarity is not applied.
EditIgnoringPolarity(c) ==
  CASE c.fn = "set_sreset"       -> [reg0 EXCEPT !.sreset = ~c.arg]
    [] c.fn = "set_la_input_sel" -> [reg0 EXCEPT !.la = c.arg]
    [] c.fn = "set_cfga"         -> [reg0 EXCEPT !.ports = TRUE]

\* Mutant: the LA input bit is written alone, without the shadow.
EditAlone(c) ==
  CASE c.fn = "set_sreset"       -> [reg0 EXCEPT !.sreset = (polarity = "low") # c.arg]
    [] c.fn = "set_la_input_sel" -> [Zero.reg0 EXCEPT !.la = c.arg]
    [] c.fn = "set_cfga"         -> [reg0 EXCEPT !.ports = TRUE]

\* The value of data_reg_0 after call c edited it.
Edit(c) ==
  CASE c.fn = "set_sreset"       -> [reg0 EXCEPT !.sreset = (polarity = "low") # c.arg]
    [] c.fn = "set_la_input_sel" -> [reg0 EXCEPT !.la = c.arg]
    [] c.fn = "set_cfga"         -> [reg0 EXCEPT !.ports = TRUE]

\* The header byte and the register are read ...
Load(t) ==
  /\ May(t, {"set_sreset", "set_la_input_sel", "set_cfga"}) /\ pc[t] = "none"
  /\ frame' = [frame EXCEPT ![t] = [reg0 |-> Edit(Head(todo[t])), reg1 |-> reg1]]
  /\ pc' = [pc EXCEPT ![t] = "loaded"]
  /\ held' = IF Head(todo[t]).fn = "set_sreset" THEN t = "gdb" /\ Head(todo[t]).arg ELSE held
  /\ UNCHANGED <<reg0, reg1, polarity, testSignal, fpga, spi, timer, toggle, todo, asked>>

\* ... and the edited register is stored.
Store(t) ==
  /\ May(t, {"set_sreset", "set_la_input_sel", "set_cfga"}) /\ pc[t] = "loaded"
  /\ reg0' = frame[t].reg0
  /\ pc' = [pc EXCEPT ![t] = "framed"]
  /\ UNCHANGED <<reg1, polarity, testSignal, fpga, spi, timer, toggle, todo, frame,
                 asked, held>>

\* set_portd_output replaces its whole register, then reads the other one.
StoreOutput(t) ==
  /\ May(t, {"set_portd_output"}) /\ pc[t] = "none"
  /\ reg1' = Head(todo[t]).arg
  /\ pc' = [pc EXCEPT ![t] = "stored"]
  /\ UNCHANGED <<reg0, polarity, testSignal, fpga, spi, timer, toggle, todo, frame,
                 asked, held>>

FillFrame(t) ==
  /\ May(t, {"set_portd_output"}) /\ pc[t] = "stored"
  /\ frame' = [frame EXCEPT ![t] = [reg0 |-> reg0, reg1 |-> Head(todo[t]).arg]]
  /\ pc' = [pc EXCEPT ![t] = "framed"]
  /\ UNCHANGED <<reg0, reg1, polarity, testSignal, fpga, spi, timer, toggle, todo,
                 asked, held>>

\* spi_device_transmit: fails while there is no device, else both registers
\* change at once.  The result is ignored by every caller.
Transfer(t) ==
  /\ pc[t] = "framed"
  /\ May(t, {Head(todo[t]).fn})
  /\ fpga' = IF spi THEN frame[t] ELSE fpga
  /\ todo' = [todo EXCEPT ![t] = Tail(@)]
  /\ pc' = [pc EXCEPT ![t] = "none"] /\ frame' = [frame EXCEPT ![t] = Zero]
  /\ UNCHANGED <<reg0, reg1, polarity, testSignal, spi, timer, toggle, asked, held>>

-----------------------------------------------------------------------------
(* The callers.                                                            *)

SpiMasterInit ==
  /\ May("main", {"spi_master_init"})
  /\ spi' = TRUE
  /\ todo' = [todo EXCEPT !["main"] = Tail(@)]
  /\ UNCHANGED <<reg0, reg1, polarity, testSignal, fpga, timer, toggle, pc, frame,
                 asked, held>>

\* The web server handles one request at a time, in its one task.
Request(kind) == /\ kind \in Requests
                 /\ todo["httpd"] = <<>>
                 /\ EarlyHttp \/ Booted

Serve(calls) == todo' = [todo EXCEPT !["httpd"] = calls]

\* reset_target_handler: the pulse is the time between the two calls.
ResetTarget ==
  /\ Request("reset_target")
  /\ Serve(<<Sreset(TRUE), Sreset(FALSE)>>)
  /\ UNCHANGED <<reg0, reg1, polarity, testSignal, fpga, spi, timer, toggle, pc, frame,
                 asked, held>>

\* sreset_config_handler, the pulse width absent or in range.
SresetConfig(p) ==
  /\ Request("sreset_config")
  /\ polarity' = p
  /\ Serve(<<Sreset(FALSE)>>)
  /\ UNCHANGED <<reg0, reg1, testSignal, fpga, spi, timer, toggle, pc, frame,
                 asked, held>>

\* The same with a pulse width out of range: 400, after the polarity was set.
SresetConfigBadPulse(p) ==
  /\ Request("bad_pulse")
  /\ polarity' = p
  /\ UNCHANGED <<reg0, reg1, testSignal, fpga, spi, timer, toggle, todo, pc, frame,
                 asked, held>>

\* la_configure_handler, as far as it concerns the registers.
LaConfigure(b) ==
  /\ Request("la_configure")
  /\ testSignal' = b
  /\ Serve(<<LaInput(b)>>)
  /\ UNCHANGED <<reg0, reg1, polarity, fpga, spi, timer, toggle, pc, frame, asked, held>>

\* portd_output_handler leaves the toggle timer alone.
PortdOutput(v) ==
  /\ Request("portd_output")
  /\ asked' = v
  /\ Serve(<<PortD(v)>>)
  /\ UNCHANGED <<reg0, reg1, polarity, testSignal, fpga, spi, timer, toggle, pc, frame,
                 held>>

\* set_portd_freq(0), and set_portd_freq of one of the four frequencies.
PortdStop ==
  /\ Request("portd_freq") /\ (Overlap \/ todo["timer"] = <<>>)
  /\ timer' = FALSE /\ asked' = "tristate"
  /\ Serve(<<PortD("tristate")>>)
  /\ UNCHANGED <<reg0, reg1, polarity, testSignal, fpga, spi, toggle, pc, frame, held>>

PortdFreq ==
  /\ Request("portd_freq")
  /\ timer' = FALSE /\ asked' = "toggle"
  /\ Serve(<<StartToggle>>)
  /\ UNCHANGED <<reg0, reg1, polarity, testSignal, fpga, spi, toggle, pc, frame, held>>

StartTimer ==
  /\ May("httpd", {"esp_timer_start"})
  /\ timer' = TRUE /\ toggle' = FALSE
  /\ Serve(<<>>)
  /\ UNCHANGED <<reg0, reg1, polarity, testSignal, fpga, spi, pc, frame, asked, held>>

\* portd_toggle_cb in the timer task.  Stopping the timer does not wait for a
\* callback that is running.
Toggle ==
  /\ timer /\ todo["timer"] = <<>>
  /\ Overlap \/ \A u \in Tasks : pc[u] = "none"
  /\ toggle' = ~toggle
  /\ todo' = [todo EXCEPT !["timer"] = <<PortD(IF toggle' THEN "high" ELSE "low")>>]
  /\ UNCHANGED <<reg0, reg1, polarity, testSignal, fpga, spi, timer, pc, frame,
                 asked, held>>

\* The GDB server sets SRESET for its reset command; it is started last.
GdbReset(b) ==
  /\ UsesGdb /\ Booted /\ todo["gdb"] = <<>>
  /\ todo' = [todo EXCEPT !["gdb"] = <<Sreset(b)>>]
  /\ UNCHANGED <<reg0, reg1, polarity, testSignal, fpga, spi, timer, toggle, pc, frame,
                 asked, held>>

-----------------------------------------------------------------------------
Registers(t) == Load(t) \/ Store(t) \/ StoreOutput(t) \/ FillFrame(t) \/ Transfer(t)

Web == \/ ResetTarget
       \/ \E p \in {"low", "high"} : SresetConfig(p) \/ SresetConfigBadPulse(p)
       \/ \E b \in BOOLEAN : LaConfigure(b)
       \/ \E v \in Outputs : PortdOutput(v)
       \/ PortdStop \/ PortdFreq \/ StartTimer

Next == \/ \E t \in Tasks : Registers(t)
        \/ SpiMasterInit \/ Web \/ Toggle
        \/ \E b \in BOOLEAN : GdbReset(b)

Spec == Init /\ [][Next]_vars

-----------------------------------------------------------------------------
Calls == {Sreset(b) : b \in BOOLEAN} \cup {LaInput(b) : b \in BOOLEAN}
           \cup {Cfga, StartToggle, SpiInit} \cup {PortD(v) : v \in Outputs}

TypeOK ==
  /\ reg0 \in Register0 /\ reg1 \in Outputs /\ fpga \in Frame
  /\ polarity \in {"low", "high"} /\ testSignal \in BOOLEAN
  /\ spi \in BOOLEAN /\ timer \in BOOLEAN /\ toggle \in BOOLEAN
  /\ todo \in [Tasks -> Seq(Calls)]
  /\ pc \in [Tasks -> {"none", "loaded", "stored", "framed"}]
  /\ frame \in [Tasks -> Frame]
  /\ asked \in Outputs \cup {"toggle"} /\ held \in BOOLEAN

Quiet == \A t \in Tasks : todo[t] = <<>>

\* sreset_is_asserted, of the level at the pin.
Asserted(high) == IF polarity = "low" THEN ~high ELSE high

\* The shadow is what the FPGA has, once nobody is inside a register function:
\* sreset_is_asserted answers from the shadow alone.
ShadowMatches == Quiet => fpga = [reg0 |-> reg0, reg1 |-> reg1]

\* Outside a pulse, and unless the GDB server holds it, the target is not left
\* in reset, whatever the polarity was changed to and when.
NeverLeftAsserted == Quiet /\ ~held => ~Asserted(fpga.reg0.sreset)

\* With the toggle stopped, Port D is what the last request asked for.
PortDAsAsked == Quiet /\ ~timer => fpga.reg1 = asked

\* Together, for tasks that do not overlap: the pins of the target.
PinsAsAsked == ShadowMatches /\ NeverLeftAsserted /\ PortDAsAsked

\* Once app_main has connected the ports they stay connected: no edit of
\* another bit may bring an old value of these back.
PortsStayConnected == Booted => reg0.ports /\ fpga.reg0.ports

-----------------------------------------------------------------------------
\* Why the ports stay connected: app_main is alone until its last call, and
\* from the transfer of set_cfga on every copy of register 0 has the port bits.
AfterSpi     == <<Sreset(FALSE), Cfga, LaInput(FALSE)>>
AfterSreset  == <<Cfga, LaInput(FALSE)>>
AfterCfga    == <<LaInput(FALSE)>>

InRegisterCall(t) ==
  /\ todo[t] # <<>>
  /\ Head(todo[t]).fn \in {"set_sreset", "set_la_input_sel", "set_cfga", "set_portd_output"}

HasFrame(t) == pc[t] \in {"loaded", "framed"}

PortsInv ==
  /\ todo["main"] \in {Boot, AfterSpi, AfterSreset, AfterCfga, <<>>}
  /\ spi <=> todo["main"] # Boot
  /\ ~Booted => ~timer /\ \A t \in Tasks \ {"main"} : todo[t] = <<>>
  /\ \A t \in Tasks : pc[t] # "none" => InRegisterCall(t)
  /\ todo["main"] = AfterSreset /\ HasFrame("main") => frame["main"].reg0.ports
  /\ todo["main"] = AfterSreset /\ pc["main"] = "framed" => reg0.ports
  /\ todo["main"] \in {AfterCfga, <<>>} =>
       /\ reg0.ports /\ fpga.reg0.ports
       /\ \A t \in Tasks : HasFrame(t) => frame[t].reg0.ports
=============================================================================
