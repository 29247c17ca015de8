---------------------------- MODULE PinsProofs -----------------------------
(* Theorems about what decides the levels on the pins.  The registers of     *)
(* the FPGA: type correctness; that no race on the shadow registers can      *)
(* disconnect a port once app_main has connected it; that without races the  *)
(* pins are as they were asked for.  The wire of SWD: one disturbed bit is   *)
(* noticed.                                                                  *)
EXTENDS MCPins, SequencesExt, WellFoundedInduction, SequenceTheorems, TLAPS


\* What a call carries.
LEMMA CallArgs ==
  ASSUME NEW c \in Calls
  PROVE  /\ c.fn \in {"set_sreset", "set_la_input_sel"} => c.arg \in BOOLEAN
         /\ c.fn = "set_portd_output" => c.arg \in Outputs
  BY DEF Calls, Sreset, LaInput, Cfga, StartToggle, SpiInit, PortD

LEMMA CallsTyped ==
  /\ \A b \in BOOLEAN : Sreset(b) \in Calls /\ LaInput(b) \in Calls
  /\ \A v \in Outputs : PortD(v) \in Calls
  /\ Cfga \in Calls /\ StartToggle \in Calls /\ SpiInit \in Calls
  BY DEF Calls

LEMMA Singletons ==
  /\ \A S : \A a \in S : <<a>> \in Seq(S)
  /\ \A S : \A a, b \in S : <<a, b>> \in Seq(S)
  /\ \A S : \A a, b, c, d \in S : <<a, b, c, d>> \in Seq(S)
  OBVIOUS

\* The first call of a task that may move.
LEMMA HeadTyped ==
  ASSUME TypeOK, NEW t \in Tasks, NEW fns, May(t, fns)
  PROVE  /\ Head(todo[t]) \in Calls /\ Head(todo[t]).fn \in fns
         /\ Tail(todo[t]) \in Seq(Calls)
<1>1. todo[t] \in Seq(Calls) /\ todo[t] # <<>>
  BY DEF TypeOK, May
<1>2. QED BY <1>1 DEF May

\* An edit changes one bit, and none of them clears the port bits.
LEMMA EditTyped ==
  ASSUME TypeOK, NEW c \in Calls,
         c.fn \in {"set_sreset", "set_la_input_sel", "set_cfga"}
  PROVE  /\ Edit(c) \in Register0
         /\ Edit(c).ports = (c.fn = "set_cfga" \/ reg0.ports)
<1>1. reg0 \in Register0 /\ reg0.ports \in BOOLEAN
  BY DEF TypeOK, Register0
<1>2. CASE c.fn = "set_sreset"
  <2>1. Edit(c) = [reg0 EXCEPT !.sreset = (polarity = "low") # c.arg]
    BY <1>2 DEF Edit
  <2>2. ((polarity = "low") # c.arg) \in BOOLEAN
    OBVIOUS
  <2>3. QED BY <1>1, <1>2, <2>1, <2>2 DEF Register0
<1>3. CASE c.fn = "set_la_input_sel"
  <2>1. Edit(c) = [reg0 EXCEPT !.la = c.arg] /\ c.arg \in BOOLEAN
    BY <1>3, CallArgs DEF Edit
  <2>2. QED BY <1>1, <1>3, <2>1 DEF Register0
<1>4. CASE c.fn = "set_cfga"
  <2>1. Edit(c) = [reg0 EXCEPT !.ports = TRUE]
    BY <1>4 DEF Edit
  <2>2. QED BY <1>1, <1>4, <2>1 DEF Register0
<1>5. QED BY <1>2, <1>3, <1>4

-----------------------------------------------------------------------------
(* Types.                                                                  *)

LEMMA InitTyped == Init => TypeOK
<1> SUFFICES ASSUME Init PROVE TypeOK
  OBVIOUS
<1>1. Zero \in Frame
  BY DEF Zero, Frame, Register0, Outputs
<1>2. Zero.reg0 \in Register0 /\ Zero.reg1 \in Outputs
  BY DEF Zero, Register0, Outputs
<1>3. Boot \in Seq(Calls)
  <2>1. Sreset(FALSE) \in Calls /\ LaInput(FALSE) \in Calls
    BY CallsTyped, Zenon
  <2>2. QED BY <2>1, CallsTyped, Singletons DEF Boot
<1>4. todo \in [Tasks -> Seq(Calls)]
  BY <1>3 DEF Init
<1>5. frame \in [Tasks -> Frame] /\ pc \in [Tasks -> {"none", "loaded", "stored", "framed"}]
  BY <1>1 DEF Init
<1>6. asked \in Outputs \cup {"toggle"}
  BY DEF Init, Outputs
<1>7. QED BY <1>1, <1>2, <1>4, <1>5, <1>6 DEF Init, TypeOK

LEMMA RegistersTyped ==
  ASSUME TypeOK, NEW t \in Tasks, Registers(t) PROVE TypeOK'
<1>1. CASE Load(t)
  <2> DEFINE c == Head(todo[t])
  <2>1. c \in Calls /\ c.fn \in {"set_sreset", "set_la_input_sel", "set_cfga"}
    BY <1>1, HeadTyped DEF Load
  <2>2. [reg0 |-> Edit(c), reg1 |-> reg1] \in Frame
    BY <2>1, EditTyped DEF TypeOK, Frame
  <2>3. frame' \in [Tasks -> Frame]
    BY <1>1, <2>2 DEF Load, TypeOK
  <2>4. held' \in BOOLEAN
    <3>1. CASE c.fn = "set_sreset"
      <4>1. c.arg \in BOOLEAN
        BY <2>1, <3>1, CallArgs
      <4>2. QED BY <1>1, <3>1, <4>1 DEF Load
    <3>2. CASE c.fn # "set_sreset"
      BY <1>1, <3>2 DEF Load, TypeOK
    <3>3. QED BY <3>1, <3>2
  <2>5. QED BY <1>1, <2>3, <2>4 DEF Load, TypeOK
<1>2. CASE Store(t)
  <2>1. frame[t].reg0 \in Register0
    BY DEF TypeOK, Frame
  <2>2. QED BY <1>2, <2>1 DEF Store, TypeOK
<1>3. CASE StoreOutput(t)
  <2>1. Head(todo[t]) \in Calls /\ Head(todo[t]).fn = "set_portd_output"
    BY <1>3, HeadTyped DEF StoreOutput
  <2>2. Head(todo[t]).arg \in Outputs
    BY <2>1, CallArgs
  <2>3. QED BY <1>3, <2>2 DEF StoreOutput, TypeOK
<1>4. CASE FillFrame(t)
  <2>1. Head(todo[t]) \in Calls /\ Head(todo[t]).fn = "set_portd_output"
    BY <1>4, HeadTyped DEF FillFrame
  <2>2. [reg0 |-> reg0, reg1 |-> Head(todo[t]).arg] \in Frame
    BY <2>1, CallArgs DEF TypeOK, Frame
  <2>3. frame' \in [Tasks -> Frame]
    BY <1>4, <2>2 DEF FillFrame, TypeOK
  <2>4. QED BY <1>4, <2>3 DEF FillFrame, TypeOK
<1>5. CASE Transfer(t)
  <2>1. Tail(todo[t]) \in Seq(Calls)
    BY <1>5, HeadTyped DEF Transfer
  <2>2. todo' \in [Tasks -> Seq(Calls)]
    BY <1>5, <2>1 DEF Transfer, TypeOK
  <2>3. Zero \in Frame
    BY DEF Zero, Frame, Register0, Outputs
  <2>4. frame' \in [Tasks -> Frame] /\ fpga' \in Frame
    BY <1>5, <2>3 DEF Transfer, TypeOK
  <2>5. QED BY <1>5, <2>2, <2>4 DEF Transfer, TypeOK
<1>6. QED BY <1>1, <1>2, <1>3, <1>4, <1>5 DEF Registers

\* A step that only hands a task its calls.
LEMMA ServeTyped ==
  ASSUME TypeOK, NEW t \in Tasks, NEW calls \in Seq(Calls)
  PROVE  [todo EXCEPT ![t] = calls] \in [Tasks -> Seq(Calls)]
  BY DEF TypeOK

LEMMA WebTyped == ASSUME TypeOK, Web PROVE TypeOK'
<1> USE DEF Serve
<1>0. "httpd" \in Tasks
  BY DEF Tasks
<1>b. Sreset(TRUE) \in Calls /\ Sreset(FALSE) \in Calls
  BY CallsTyped, Zenon
<1>1. CASE ResetTarget
  <2>1. <<Sreset(TRUE), Sreset(FALSE)>> \in Seq(Calls)
    BY <1>b, Singletons
  <2>2. todo' \in [Tasks -> Seq(Calls)]
    BY <1>0, <1>1, <2>1, ServeTyped DEF ResetTarget
  <2>3. QED BY <1>1, <2>2 DEF ResetTarget, TypeOK
<1>2. ASSUME NEW p \in {"low", "high"}, SresetConfig(p) PROVE TypeOK'
  <2>1. <<Sreset(FALSE)>> \in Seq(Calls)
    BY <1>b, Singletons
  <2>2. todo' \in [Tasks -> Seq(Calls)]
    BY <1>0, <1>2, <2>1, ServeTyped DEF SresetConfig
  <2>3. QED BY <1>2, <2>2 DEF SresetConfig, TypeOK
<1>3. ASSUME NEW p \in {"low", "high"}, SresetConfigBadPulse(p) PROVE TypeOK'
  BY <1>3 DEF SresetConfigBadPulse, TypeOK
<1>4. ASSUME NEW b \in BOOLEAN, LaConfigure(b) PROVE TypeOK'
  <2>1. <<LaInput(b)>> \in Seq(Calls)
    BY CallsTyped
  <2>2. todo' \in [Tasks -> Seq(Calls)]
    BY <1>0, <1>4, <2>1, ServeTyped DEF LaConfigure
  <2>3. QED BY <1>4, <2>2 DEF LaConfigure, TypeOK
<1>5. ASSUME NEW v \in Outputs, PortdOutput(v) PROVE TypeOK'
  <2>1. <<PortD(v)>> \in Seq(Calls)
    BY CallsTyped
  <2>2. todo' \in [Tasks -> Seq(Calls)]
    BY <1>0, <1>5, <2>1, ServeTyped DEF PortdOutput
  <2>3. QED BY <1>5, <2>2 DEF PortdOutput, TypeOK
<1>6. CASE PortdStop
  <2>1. <<PortD("tristate")>> \in Seq(Calls) /\ "tristate" \in Outputs
    BY CallsTyped DEF Outputs
  <2>2. todo' \in [Tasks -> Seq(Calls)]
    BY <1>0, <1>6, <2>1, ServeTyped DEF PortdStop
  <2>3. QED BY <1>6, <2>1, <2>2 DEF PortdStop, TypeOK
<1>7. CASE PortdFreq
  <2>1. <<StartToggle>> \in Seq(Calls)
    BY CallsTyped
  <2>2. todo' \in [Tasks -> Seq(Calls)]
    BY <1>0, <1>7, <2>1, ServeTyped DEF PortdFreq
  <2>3. QED BY <1>7, <2>2 DEF PortdFreq, TypeOK
<1>8. CASE StartTimer
  <2>1. <<>> \in Seq(Calls)
    OBVIOUS
  <2>2. todo' \in [Tasks -> Seq(Calls)]
    BY <1>0, <1>8, <2>1, ServeTyped DEF StartTimer
  <2>3. QED BY <1>8, <2>2 DEF StartTimer, TypeOK
<1>9. QED BY <1>1, <1>2, <1>3, <1>4, <1>5, <1>6, <1>7, <1>8 DEF Web

LEMMA OthersTyped ==
  ASSUME TypeOK, SpiMasterInit \/ Toggle \/ \E b \in BOOLEAN : GdbReset(b)
  PROVE  TypeOK'
<1>0. {"main", "timer", "gdb"} \subseteq Tasks
  BY DEF Tasks
<1>1. CASE SpiMasterInit
  <2>1. Tail(todo["main"]) \in Seq(Calls)
    BY <1>0, <1>1, HeadTyped DEF SpiMasterInit
  <2>2. todo' \in [Tasks -> Seq(Calls)]
    BY <1>0, <1>1, <2>1, ServeTyped DEF SpiMasterInit
  <2>3. QED BY <1>1, <2>2 DEF SpiMasterInit, TypeOK
<1>2. CASE Toggle
  <2>1. "high" \in Outputs /\ "low" \in Outputs
    BY DEF Outputs
  <2>2. <<PortD(IF toggle' THEN "high" ELSE "low")>> \in Seq(Calls)
    BY <2>1, CallsTyped
  <2>3. todo' \in [Tasks -> Seq(Calls)]
    BY <1>0, <1>2, <2>2, ServeTyped DEF Toggle
  <2>4. QED BY <1>2, <2>3 DEF Toggle, TypeOK
<1>3. ASSUME NEW b \in BOOLEAN, GdbReset(b) PROVE TypeOK'
  <2>1. <<Sreset(b)>> \in Seq(Calls)
    BY CallsTyped
  <2>2. todo' \in [Tasks -> Seq(Calls)]
    BY <1>0, <1>3, <2>1, ServeTyped DEF GdbReset
  <2>3. QED BY <1>3, <2>2 DEF GdbReset, TypeOK
<1>4. QED BY <1>1, <1>2, <1>3

LEMMA NextTyped == TypeOK /\ [Next]_vars => TypeOK'
<1> SUFFICES ASSUME TypeOK, [Next]_vars PROVE TypeOK'
  OBVIOUS
<1>1. CASE UNCHANGED vars
  BY <1>1 DEF vars, TypeOK
<1>2. CASE Next
  BY <1>2, RegistersTyped, WebTyped, OthersTyped DEF Next
<1>3. QED BY <1>1, <1>2

\* main.c: the registers, the frames and the calls in progress keep their
\* types, whoever runs and however the tasks interleave.
THEOREM TypeCorrect == Spec => []TypeOK
BY NextTyped, InitTyped, PTL DEF Spec

-----------------------------------------------------------------------------
(* The ports stay connected.                                               *)

\* The stages of app_main are told apart by what is left of them.
LEMMA Stages ==
  /\ Head(Boot) = SpiInit /\ Tail(Boot) = AfterSpi
  /\ Head(AfterSpi) = Sreset(FALSE) /\ Tail(AfterSpi) = AfterSreset
  /\ Head(AfterSreset) = Cfga /\ Tail(AfterSreset) = AfterCfga
  /\ Head(AfterCfga) = LaInput(FALSE) /\ Tail(AfterCfga) = <<>>
  /\ Boot # AfterSpi /\ Boot # AfterSreset /\ Boot # AfterCfga /\ Boot # <<>>
  /\ AfterSpi # AfterSreset /\ AfterSpi # AfterCfga /\ AfterSpi # <<>>
  /\ AfterSreset # AfterCfga /\ AfterSreset # <<>> /\ AfterCfga # <<>>
<1>1. Len(Boot) = 4 /\ Len(AfterSpi) = 3 /\ Len(AfterSreset) = 2 /\ Len(AfterCfga) = 1
  BY DEF Boot, AfterSpi, AfterSreset, AfterCfga
<1>2. Len(<<>>) = 0 /\ 0 # 1 /\ 0 # 2 /\ 0 # 3 /\ 0 # 4 /\ 1 # 2 /\ 1 # 3 /\ 1 # 4
      /\ 2 # 3 /\ 2 # 4 /\ 3 # 4
  OBVIOUS
<1>3. /\ Boot # AfterSpi /\ Boot # AfterSreset /\ Boot # AfterCfga /\ Boot # <<>>
      /\ AfterSpi # AfterSreset /\ AfterSpi # AfterCfga /\ AfterSpi # <<>>
      /\ AfterSreset # AfterCfga /\ AfterSreset # <<>> /\ AfterCfga # <<>>
  BY <1>1, <1>2, Zenon
<1>4. /\ Head(Boot) = SpiInit /\ Tail(Boot) = AfterSpi
      /\ Head(AfterSpi) = Sreset(FALSE) /\ Tail(AfterSpi) = AfterSreset
  <2> DEFINE a == SpiInit
             b == Sreset(FALSE)
             c == Cfga
             d == LaInput(FALSE)
  <2>1. Boot = <<a, b, c, d>> /\ AfterSpi = <<b, c, d>> /\ AfterSreset = <<c, d>>
    BY Zenon DEF Boot, AfterSpi, AfterSreset
  <2> HIDE DEF a, b, c, d
  <2>2. Head(Boot) = a /\ Tail(Boot) = AfterSpi /\ Head(AfterSpi) = b
        /\ Tail(AfterSpi) = AfterSreset
    BY <2>1
  <2>3. QED BY <2>2 DEF a, b, c, d
<1>5. /\ Head(AfterSreset) = Cfga /\ Tail(AfterSreset) = AfterCfga
      /\ Head(AfterCfga) = LaInput(FALSE) /\ Tail(AfterCfga) = <<>>
  <2> DEFINE c == Cfga
             d == LaInput(FALSE)
  <2>1. AfterSreset = <<c, d>> /\ AfterCfga = <<d>>
    BY Zenon DEF AfterSreset, AfterCfga
  <2> HIDE DEF c, d
  <2>2. Head(AfterSreset) = c /\ Tail(AfterSreset) = AfterCfga
        /\ Head(AfterCfga) = d /\ Tail(AfterCfga) = <<>>
    BY <2>1
  <2>3. QED BY <2>2 DEF c, d
<1>6. QED BY <1>3, <1>4, <1>5

LEMMA InitPorts == Init => PortsInv
<1> SUFFICES ASSUME Init PROVE PortsInv
  OBVIOUS
<1>1. /\ todo["main"] = Boot /\ ~spi /\ ~timer
      /\ \A t \in Tasks \ {"main"} : todo[t] = <<>>
      /\ \A t \in Tasks : pc[t] = "none"
  BY DEF Init, Tasks
<1>2. /\ todo["main"] # AfterSreset
      /\ ~(todo["main"] \in {AfterCfga, <<>>})
  BY <1>1, Stages, Zenon
<1>3. spi <=> todo["main"] # Boot
  BY <1>1
<1>4. QED BY <1>1, <1>2, <1>3 DEF PortsInv, Booted

\* Until app_main is through, no other task has a call to make.
LEMMA MainAlone ==
  ASSUME PortsInv, NEW t \in Tasks, NEW fns, May(t, fns), ~Booted
  PROVE  t = "main"
  BY DEF PortsInv, May

\* Frames that are loaded from a connected register are connected.
LEMMA LoadPorts ==
  ASSUME TypeOK, PortsInv, NEW t \in Tasks, Load(t) PROVE PortsInv'
<1> DEFINE c == Head(todo[t])
           fns == {"set_sreset", "set_la_input_sel", "set_cfga"}
<1>1. c \in Calls /\ c.fn \in fns
  BY HeadTyped DEF Load
<1>2. /\ UNCHANGED <<reg0, fpga, spi, timer, todo>>
      /\ frame' = [frame EXCEPT ![t] = [reg0 |-> Edit(c), reg1 |-> reg1]]
      /\ pc' = [pc EXCEPT ![t] = "loaded"]
  BY DEF Load
<1>3. /\ frame'[t].reg0 = Edit(c) /\ pc'[t] = "loaded" /\ todo[t] # <<>>
      /\ \A u \in Tasks \ {t} : frame'[u] = frame[u] /\ pc'[u] = pc[u]
  BY <1>2 DEF TypeOK, Load, May
<1>4. Edit(c).ports = (c.fn = "set_cfga" \/ reg0.ports)
  BY <1>1, EditTyped
<1>5. ~Booted => t = "main"
  BY MainAlone DEF Load
<1>6. todo["main"] = AfterSreset => t = "main" /\ c.fn = "set_cfga"
  BY <1>5, Stages DEF Booted, Cfga
<1>7. "main" \in Tasks
  BY DEF Tasks
<1> HIDE DEF c, fns
<1>8. todo["main"] = AfterSreset =>
        /\ HasFrame("main")' => frame'["main"].reg0.ports
        /\ pc'["main"] # "framed"
  BY <1>3, <1>4, <1>6
<1>9. todo["main"] \in {AfterCfga, <<>>} =>
        \A u \in Tasks : HasFrame(u)' => frame'[u].reg0.ports
  BY <1>3, <1>4 DEF PortsInv, HasFrame
<1>10. \A u \in Tasks : pc'[u] # "none" => InRegisterCall(u)'
  <2>1. InRegisterCall(t)
    BY <1>1, <1>3 DEF InRegisterCall, c, fns
  <2>2. \A u \in Tasks : pc'[u] # "none" => InRegisterCall(u)
    BY <1>3, <2>1 DEF PortsInv
  <2>3. QED BY <1>2, <2>2 DEF InRegisterCall
<1>11. QED BY <1>2, <1>8, <1>9, <1>10 DEF PortsInv, Booted

LEMMA StorePorts ==
  ASSUME TypeOK, PortsInv, NEW t \in Tasks, Store(t) PROVE PortsInv'
<1>1. /\ UNCHANGED <<fpga, spi, timer, todo, frame>> /\ pc[t] = "loaded"
      /\ reg0' = frame[t].reg0 /\ pc' = [pc EXCEPT ![t] = "framed"] /\ todo[t] # <<>>
  BY DEF Store, May
<1>2. pc'[t] = "framed" /\ \A u \in Tasks \ {t} : pc'[u] = pc[u]
  BY <1>1 DEF TypeOK
<1>3. ~Booted => t = "main"
  BY MainAlone DEF Store
<1>4. HasFrame(t)
  BY <1>1 DEF HasFrame
<1>5. \A u \in Tasks : HasFrame(u)' => HasFrame(u)
  BY <1>2, <1>4 DEF HasFrame
<1>6. todo["main"] = AfterSreset => t = "main"
  BY <1>3, Stages DEF Booted
<1>7. todo["main"] = AfterSreset => frame["main"].reg0.ports /\ reg0'.ports
  BY <1>1, <1>4, <1>6 DEF PortsInv
<1>8. todo["main"] \in {AfterCfga, <<>>} => reg0'.ports
  BY <1>1, <1>4 DEF PortsInv
<1>9. \A u \in Tasks : pc'[u] # "none" => InRegisterCall(u)'
  <2>1. \A u \in Tasks : pc'[u] # "none" => InRegisterCall(u)
    BY <1>1, <1>2 DEF PortsInv
  <2>2. QED BY <1>1, <2>1 DEF InRegisterCall
<1>10. QED BY <1>1, <1>5, <1>7, <1>8, <1>9 DEF PortsInv, Booted

LEMMA OutputPorts ==
  ASSUME TypeOK, PortsInv, NEW t \in Tasks, StoreOutput(t) \/ FillFrame(t)
  PROVE  PortsInv'
<1>1. /\ UNCHANGED <<reg0, fpga, spi, timer, todo>> /\ todo[t] # <<>>
      /\ Head(todo[t]).fn = "set_portd_output"
  BY DEF StoreOutput, FillFrame, May
<1>2. \A u \in Tasks \ {t} : pc'[u] = pc[u] /\ frame'[u] = frame[u]
  BY DEF TypeOK, StoreOutput, FillFrame
<1>3. \/ ~HasFrame(t)'
      \/ frame'[t].reg0 = reg0
  <2>1. CASE StoreOutput(t)
    <3>1. pc'[t] = "stored"
      BY <2>1 DEF TypeOK, StoreOutput
    <3>2. QED BY <3>1 DEF HasFrame
  <2>2. CASE FillFrame(t)
    BY <2>2 DEF TypeOK, FillFrame
  <2>3. QED BY <2>1, <2>2
<1>4. Booted
  <2>1. ~Booted => t = "main"
    BY MainAlone DEF StoreOutput, FillFrame
  <2>2. SpiInit.fn # "set_portd_output" /\ Sreset(FALSE).fn # "set_portd_output"
        /\ Cfga.fn # "set_portd_output" /\ LaInput(FALSE).fn # "set_portd_output"
    BY DEF SpiInit, Sreset, Cfga, LaInput
  <2>3. QED BY <1>1, <2>1, <2>2, Stages DEF PortsInv, Booted
<1>5. \A u \in Tasks : HasFrame(u)' => frame'[u].reg0.ports
  <2>1. reg0.ports /\ \A u \in Tasks : HasFrame(u) => frame[u].reg0.ports
    BY <1>4 DEF PortsInv, Booted
  <2>2. QED BY <1>2, <1>3, <2>1 DEF HasFrame
<1>6. \A u \in Tasks : pc'[u] # "none" => InRegisterCall(u)'
  <2>1. InRegisterCall(t)
    BY <1>1 DEF InRegisterCall
  <2>2. \A u \in Tasks : pc'[u] # "none" => InRegisterCall(u)
    BY <1>2, <2>1 DEF PortsInv
  <2>3. QED BY <1>1, <2>2 DEF InRegisterCall
<1>7. todo["main"] = <<>> /\ todo'["main"] = <<>>
  BY <1>1, <1>4 DEF Booted
<1>8. QED BY <1>1, <1>5, <1>6, <1>7, Stages DEF PortsInv, Booted

LEMMA TransferPorts ==
  ASSUME TypeOK, PortsInv, NEW t \in Tasks, Transfer(t) PROVE PortsInv'
<1>1. /\ UNCHANGED <<reg0, spi, timer>> /\ pc[t] = "framed" /\ todo[t] # <<>>
      /\ fpga' = IF spi THEN frame[t] ELSE fpga
      /\ todo' = [todo EXCEPT ![t] = Tail(@)]
      /\ pc' = [pc EXCEPT ![t] = "none"] /\ frame' = [frame EXCEPT ![t] = Zero]
  BY DEF Transfer, May
<1>2. /\ todo'[t] = Tail(todo[t]) /\ pc'[t] = "none"
      /\ \A u \in Tasks \ {t} : todo'[u] = todo[u] /\ pc'[u] = pc[u] /\ frame'[u] = frame[u]
  BY <1>1 DEF TypeOK
<1>3. ~Booted => t = "main"
  BY MainAlone DEF Transfer
<1>4. HasFrame(t) /\ ~HasFrame(t)'
  BY <1>1, <1>2 DEF HasFrame
<1>5. \A u \in Tasks : pc'[u] # "none" => InRegisterCall(u)'
  BY <1>2 DEF PortsInv, InRegisterCall
<1>6. "main" \in Tasks
  BY DEF Tasks
<1>7. CASE Booted
  <2>1. t # "main" /\ todo["main"] = <<>> /\ todo'["main"] = <<>>
    BY <1>1, <1>2, <1>6, <1>7 DEF Booted
  <2>2. frame[t].reg0.ports /\ reg0.ports /\ fpga.reg0.ports
    BY <1>4, <2>1 DEF PortsInv
  <2>3. fpga'.reg0.ports
    BY <1>1, <2>2
  <2>4. \A u \in Tasks : HasFrame(u)' => frame'[u].reg0.ports
    BY <1>2, <1>4, <2>1 DEF PortsInv, HasFrame
  <2>5. spi' <=> todo'["main"] # Boot
    BY <1>1, <2>1 DEF PortsInv
  <2>6. QED BY <1>1, <1>5, <2>1, <2>2, <2>3, <2>4, <2>5, Stages DEF PortsInv, Booted
<1>8. CASE ~Booted
  <2>1. t = "main" /\ todo["main"] # <<>>
    BY <1>3, <1>8 DEF Booted
  <2>2. \A u \in Tasks \ {"main"} : todo[u] = <<>> /\ pc[u] = "none"
    BY <1>8 DEF PortsInv, InRegisterCall
  <2>3. \A u \in Tasks : ~HasFrame(u)'
    BY <1>2, <1>4, <2>1, <2>2 DEF HasFrame
  <2>4. \A u \in Tasks \ {"main"} : todo'[u] = <<>>
    BY <1>2, <2>1, <2>2
  <2>5. todo["main"] \in {AfterSpi, AfterSreset, AfterCfga} /\ spi
    <3>1. Head(todo["main"]).fn # "spi_master_init"
      BY <1>1, <2>1 DEF PortsInv, InRegisterCall
    <3>2. todo["main"] # Boot
      BY <3>1, Stages DEF SpiInit
    <3>3. QED BY <2>1, <3>2 DEF PortsInv
  <2>6. todo'["main"] = Tail(todo["main"]) /\ fpga' = frame["main"] /\ spi'
    BY <1>1, <1>2, <2>1, <2>5
  <2>7. todo'["main"] \in {AfterSreset, AfterCfga, <<>>}
    BY <2>5, <2>6, Stages
  <2>8. todo'["main"] = AfterSreset => ~HasFrame("main")' /\ pc'["main"] # "framed"
    BY <1>2, <2>1, <2>3, <1>6
  <2>9. todo'["main"] \in {AfterCfga, <<>>} => reg0'.ports /\ fpga'.reg0.ports
    <3>1. CASE todo["main"] = AfterSpi
      BY <2>6, <3>1, Stages
    <3>2. CASE todo["main"] = AfterSreset
      BY <1>1, <1>4, <2>1, <2>6, <3>2 DEF PortsInv
    <3>3. CASE todo["main"] = AfterCfga
      BY <1>1, <1>4, <2>1, <2>6, <3>3 DEF PortsInv
    <3>4. QED BY <2>5, <3>1, <3>2, <3>3
  <2>10. ~timer'
    BY <1>1, <1>8 DEF PortsInv
  <2>11. todo'["main"] # Boot
    BY <2>7, Stages
  <2>12. QED BY <1>5, <2>3, <2>4, <2>6, <2>7, <2>8, <2>9, <2>10, <2>11 DEF PortsInv
<1>9. QED BY <1>7, <1>8

\* The callers only hand out calls, and none but app_main does before the end
\* of the boot.
LEMMA CallersPorts ==
  ASSUME TypeOK, PortsInv, EarlyHttp = FALSE,
         Web \/ Toggle \/ \E b \in BOOLEAN : GdbReset(b)
  PROVE  PortsInv'
<1>1. Booted
  <2>1. CASE Web
    <3>1. CASE StartTimer
      BY <3>1, MainAlone DEF StartTimer, Tasks
    <3>2. CASE ~StartTimer
      BY <2>1, <3>2 DEF Web, ResetTarget, SresetConfig, SresetConfigBadPulse,
         LaConfigure, PortdOutput, PortdStop, PortdFreq, Request
    <3>3. QED BY <3>1, <3>2
  <2>2. CASE Toggle
    BY <2>2 DEF Toggle, PortsInv
  <2>3. CASE \E b \in BOOLEAN : GdbReset(b)
    BY <2>3 DEF GdbReset
  <2>4. QED BY <2>1, <2>2, <2>3
<1>2. UNCHANGED <<reg0, fpga, spi, pc, frame>>
  BY DEF Web, ResetTarget, SresetConfig, SresetConfigBadPulse, LaConfigure, PortdOutput,
         PortdStop, PortdFreq, StartTimer, Toggle, GdbReset
<1>3. PICK t \in Tasks \ {"main"} : \/ \E calls : todo' = [todo EXCEPT ![t] = calls]
                                    \/ todo' = todo
  BY DEF Web, ResetTarget, SresetConfig, SresetConfigBadPulse, LaConfigure, PortdOutput,
         PortdStop, PortdFreq, StartTimer, Toggle, GdbReset, Serve, Tasks
<1>4. todo'["main"] = <<>> /\ todo["main"] = <<>>
  <2>1. todo["main"] = <<>> /\ "main" \in Tasks
    BY <1>1 DEF Booted, Tasks
  <2>2. todo'["main"] = todo["main"]
    BY <1>3, <2>1 DEF TypeOK
  <2>3. QED BY <2>1, <2>2
<1>5. \A u \in Tasks : pc'[u] # "none" => InRegisterCall(u)'
  <2> SUFFICES ASSUME NEW u \in Tasks, pc'[u] # "none" PROVE InRegisterCall(u)'
    OBVIOUS
  <2>1. InRegisterCall(u)
    BY <1>2 DEF PortsInv
  <2>2. todo'[u] = todo[u]
    <3>1. CASE StartTimer
      <4>1. Head(todo["httpd"]).fn = "esp_timer_start"
        BY <3>1 DEF StartTimer, May
      <4>2. u # "httpd"
        BY <2>1, <4>1 DEF InRegisterCall
      <4>3. QED BY <3>1, <4>2 DEF StartTimer, Serve, TypeOK
    <3>2. CASE ~StartTimer
      BY <2>1, <3>2 DEF TypeOK, InRegisterCall, Web, ResetTarget, SresetConfig,
         SresetConfigBadPulse, LaConfigure, PortdOutput, PortdStop, PortdFreq, Request,
         Toggle, GdbReset, Serve
    <3>3. QED BY <3>1, <3>2
  <2>3. QED BY <2>1, <2>2 DEF InRegisterCall
<1>6. QED BY <1>2, <1>4, <1>5, Stages DEF PortsInv, Booted, HasFrame

LEMMA SpiPorts == ASSUME TypeOK, PortsInv, SpiMasterInit PROVE PortsInv'
<1>1. /\ Head(todo["main"]).fn = "spi_master_init" /\ todo["main"] # <<>>
      /\ UNCHANGED <<reg0, fpga, timer, pc, frame>> /\ spi'
      /\ todo' = [todo EXCEPT !["main"] = Tail(@)]
  BY DEF SpiMasterInit, May
<1>2. todo["main"] = Boot
  <2>1. Sreset(FALSE).fn # "spi_master_init" /\ Cfga.fn # "spi_master_init"
        /\ LaInput(FALSE).fn # "spi_master_init"
    BY DEF Sreset, Cfga, LaInput
  <2>2. QED BY <1>1, <2>1, Stages DEF PortsInv
<1>3. /\ todo'["main"] = AfterSpi
      /\ \A u \in Tasks \ {"main"} : todo'[u] = todo[u]
  BY <1>1, <1>2, Stages DEF TypeOK, Tasks
<1>4. ~InRegisterCall("main") /\ "main" \in Tasks
  BY <1>1 DEF InRegisterCall, Tasks
<1>5. \A u \in Tasks : pc'[u] # "none" => InRegisterCall(u)'
  BY <1>1, <1>3, <1>4 DEF PortsInv, InRegisterCall
<1>6. ~timer' /\ \A u \in Tasks \ {"main"} : todo'[u] = <<>>
  BY <1>1, <1>2, <1>3, Stages DEF PortsInv, Booted
<1>7. /\ todo'["main"] # Boot /\ todo'["main"] # AfterSreset
      /\ ~(todo'["main"] \in {AfterCfga, <<>>})
  BY <1>3, Stages
<1>8. QED BY <1>1, <1>3, <1>5, <1>6, <1>7 DEF PortsInv

\* main.c, set_cfga to app_main: when requests come only after the boot, no
\* interleaving of the register functions takes the port bits out of the shadow
\* or of the FPGA again, although every edit is an unlocked load and store.
THEOREM PortsKept == ASSUME EarlyHttp = FALSE PROVE Spec => []PortsStayConnected
<1>1. TypeOK /\ PortsInv /\ [Next]_vars => PortsInv'
  <2> SUFFICES ASSUME TypeOK, PortsInv, [Next]_vars PROVE PortsInv'
    OBVIOUS
  <2>1. CASE UNCHANGED vars
    BY <2>1 DEF vars, PortsInv, Booted, InRegisterCall, HasFrame
  <2>2. ASSUME NEW t \in Tasks, Registers(t) PROVE PortsInv'
    BY <2>2, LoadPorts, StorePorts, OutputPorts, TransferPorts DEF Registers
  <2>3. CASE SpiMasterInit
    BY <2>3, SpiPorts
  <2>4. CASE Web \/ Toggle \/ \E b \in BOOLEAN : GdbReset(b)
    BY <2>4, CallersPorts
  <2>5. QED BY <2>1, <2>2, <2>3, <2>4 DEF Next
<1>2. PortsInv => PortsStayConnected
  BY DEF PortsInv, PortsStayConnected, Booted
<1>3. QED BY <1>1, <1>2, InitPorts, TypeCorrect, PTL DEF Spec

-----------------------------------------------------------------------------
(* One register function at a time: the pins are as they were asked for.   *)

Pulse   == <<Sreset(TRUE), Sreset(FALSE)>>
Release == <<Sreset(FALSE)>>

\* What each task may still have to call.
Shapes ==
  /\ todo["main"] \in {Boot, AfterSpi, AfterSreset, AfterCfga, <<>>}
  /\ spi <=> todo["main"] # Boot
  /\ \/ todo["httpd"] \in {<<>>, Pulse, Release, <<StartToggle>>}
     \/ \E b \in BOOLEAN : todo["httpd"] = <<LaInput(b)>>
     \/ \E v \in Outputs : todo["httpd"] = <<PortD(v)>>
  /\ todo["timer"] # <<>> => \E v \in Outputs : todo["timer"] = <<PortD(v)>>
  /\ todo["gdb"] # <<>> => \E b \in BOOLEAN : todo["gdb"] = <<Sreset(b)>>

\* One task is inside a register function, and stands in it where it can.
Alone ==
  /\ \A t, u \in Tasks : pc[t] # "none" /\ pc[u] # "none" => t = u
  /\ \A t \in Tasks : pc[t] # "none" => InRegisterCall(t)
  /\ \A t \in Tasks : pc[t] = "loaded" => Head(todo[t]).fn # "set_portd_output"
  /\ \A t \in Tasks : pc[t] = "stored" => Head(todo[t]).fn = "set_portd_output"

\* From the first transfer of app_main on, the FPGA has the shadow, except
\* between the store and the transfer of a register function.
ShadowInv ==
  /\ \A t \in Tasks :
       /\ pc[t] = "loaded" => frame[t].reg1 = reg1
       /\ pc[t] = "stored" => reg1 = Head(todo[t]).arg
       /\ pc[t] = "framed" => frame[t] = [reg0 |-> reg0, reg1 |-> reg1]
  /\ todo["main"] \notin {Boot, AfterSpi} /\ (\A t \in Tasks : pc[t] \in {"none", "loaded"}) =>
       fpga = [reg0 |-> reg0, reg1 |-> reg1]

\* A release of SRESET is still to come, with the polarity as it will be then.
Due ==
  \/ todo["main"] = Boot
  \/ todo["main"] = AfterSpi /\ pc["main"] = "none"
  \/ todo["httpd"] = Pulse
  \/ todo["httpd"] = Release /\ pc["httpd"] = "none"
  \/ todo["gdb"] # <<>> /\ pc["gdb"] = "none"

ReleaseInv ==
  ~held /\ ~Due =>
    /\ (\A t \in Tasks : pc[t] # "loaded") => ~Asserted(reg0.sreset)
    /\ \A t \in Tasks : pc[t] = "loaded" => ~Asserted(frame[t].reg0.sreset)

\* With the toggle stopped, Port D is as asked or about to be.
PortDInv ==
  /\ \A v \in Outputs : todo["httpd"] = <<PortD(v)>> => asked = v
  /\ ~timer => IF asked = "toggle"
               THEN todo["httpd"] = <<StartToggle>>
               ELSE /\ todo["timer"] = <<>>
                    /\ \/ reg1 = asked
                       \/ todo["httpd"] = <<PortD(asked)>> /\ pc["httpd"] = "none"

SerialInv == Shapes /\ Alone /\ ShadowInv /\ ReleaseInv /\ PortDInv

LEMMA Tuples ==
  /\ \A c : <<c>> # <<>> /\ Head(<<c>>) = c /\ Tail(<<c>>) = <<>>
  /\ \A a, b : /\ <<a, b>> # <<>> /\ Head(<<a, b>>) = a /\ Tail(<<a, b>>) = <<b>>
               /\ \A c : <<a, b>> # <<c>>
  /\ \A a, b : <<a>> = <<b>> => a = b
  OBVIOUS

LEMMA CallFields ==
  /\ \A b : Sreset(b).fn = "set_sreset" /\ Sreset(b).arg = b
  /\ \A b : LaInput(b).fn = "set_la_input_sel" /\ LaInput(b).arg = b
  /\ \A v : PortD(v).fn = "set_portd_output" /\ PortD(v).arg = v
  /\ Cfga.fn = "set_cfga" /\ StartToggle.fn = "esp_timer_start" /\ SpiInit.fn = "spi_master_init"
  BY DEF Sreset, LaInput, PortD, Cfga, StartToggle, SpiInit

LEMMA PulseFacts ==
  /\ Pulse # <<>> /\ Head(Pulse) = Sreset(TRUE) /\ Tail(Pulse) = Release /\ Pulse # Release
  /\ Release # <<>> /\ Head(Release) = Sreset(FALSE) /\ Tail(Release) = <<>>
<1> DEFINE a == Sreset(TRUE)  b == Sreset(FALSE)
<1>1. Pulse = <<a, b>> /\ Release = <<b>>
  BY Zenon DEF Pulse, Release
<1> HIDE DEF a, b
<1>2. /\ Pulse # <<>> /\ Head(Pulse) = a /\ Tail(Pulse) = <<b>> /\ Pulse # <<b>>
      /\ Release # <<>> /\ Head(Release) = b /\ Tail(Release) = <<>>
  BY <1>1, Tuples, Zenon
<1>3. QED BY <1>1, <1>2 DEF a, b

\* The call a task has come to, by the task.
LEMMA MainHead ==
  ASSUME Shapes, todo["main"] # <<>>
  PROVE  /\ Head(todo["main"]).fn \notin {"set_portd_output", "esp_timer_start"}
         /\ Head(todo["main"]).fn = "set_sreset" <=> todo["main"] = AfterSpi
         /\ Head(todo["main"]).fn = "set_sreset" => Head(todo["main"]).arg = FALSE
         /\ Head(todo["main"]).fn = "spi_master_init" <=> todo["main"] = Boot
         /\ Tail(todo["main"]) \in {AfterSpi, AfterSreset, AfterCfga, <<>>}
         /\ todo["main"] # Boot => Tail(todo["main"]) # AfterSpi
<1>1. CASE todo["main"] = Boot
  BY <1>1, Stages, CallFields
<1>2. CASE todo["main"] = AfterSpi
  <2>1. Head(todo["main"]).fn = "set_sreset" /\ Head(todo["main"]).arg = FALSE
    <3>1. Sreset(FALSE).fn = "set_sreset" /\ Sreset(FALSE).arg = FALSE
      BY DEF Sreset
    <3>2. QED BY <1>2, <3>1, Stages
  <2>2. Tail(todo["main"]) = AfterSreset /\ todo["main"] # Boot
    BY <1>2, Stages
  <2>3. Tail(todo["main"]) # AfterSpi
    BY <2>2, Stages
  <2>4. QED BY <1>2, <2>1, <2>2, <2>3
<1>3. CASE todo["main"] = AfterSreset
  BY <1>3, Stages, CallFields
<1>4. CASE todo["main"] = AfterCfga
  BY <1>4, Stages, CallFields
<1>5. QED BY <1>1, <1>2, <1>3, <1>4 DEF Shapes

LEMMA HttpdHead ==
  ASSUME Shapes, todo["httpd"] # <<>>
  PROVE  LET c == Head(todo["httpd"])
         IN  /\ c.fn = "set_sreset" <=> todo["httpd"] \in {Pulse, Release}
             /\ todo["httpd"] = Pulse => c.arg = TRUE /\ Tail(todo["httpd"]) = Release
             /\ todo["httpd"] # Pulse => Tail(todo["httpd"]) = <<>>
             /\ todo["httpd"] = Release => c.arg = FALSE
             /\ c.fn = "set_portd_output" =>
                  c.arg \in Outputs /\ todo["httpd"] = <<PortD(c.arg)>>
             /\ c.fn = "esp_timer_start" <=> todo["httpd"] = <<StartToggle>>
<1> DEFINE c == Head(todo["httpd"])
<1>0. /\ \A b : c = Sreset(b) => c.fn = "set_sreset" /\ c.arg = b
      /\ \A b : c = LaInput(b) => c.fn = "set_la_input_sel"
      /\ \A v : c = PortD(v) => c.fn = "set_portd_output" /\ c.arg = v
      /\ c = StartToggle => c.fn = "esp_timer_start"
  BY CallFields
<1>00. Head(Pulse).fn = "set_sreset" /\ Head(Release).fn = "set_sreset"
       /\ Head(<<StartToggle>>).fn = "esp_timer_start"
  BY CallFields, PulseFacts, Tuples
<1>1. CASE todo["httpd"] = Pulse
  <2>1. c = Sreset(TRUE) /\ Tail(todo["httpd"]) = Release /\ todo["httpd"] # <<StartToggle>>
        /\ todo["httpd"] # Release
    BY <1>1, <1>00, PulseFacts
  <2>2. Sreset(TRUE).fn = "set_sreset" /\ Sreset(TRUE).arg = TRUE
    BY DEF Sreset
  <2>3. QED BY <1>1, <2>1, <2>2
<1>2. CASE todo["httpd"] = Release
  <2>1. c = Sreset(FALSE) /\ Tail(todo["httpd"]) = <<>> /\ todo["httpd"] # Pulse
        /\ todo["httpd"] # <<StartToggle>>
    BY <1>2, <1>00, PulseFacts
  <2>2. QED BY <1>0, <1>2, <2>1
<1>3. CASE todo["httpd"] = <<StartToggle>>
  <2>1. c = StartToggle /\ Tail(todo["httpd"]) = <<>>
    BY <1>3, Tuples
  <2>2. todo["httpd"] # Pulse /\ todo["httpd"] # Release
    BY <1>0, <1>00, <2>1
  <2>3. QED BY <1>0, <1>3, <2>1, <2>2
<1>4. ASSUME NEW b \in BOOLEAN, todo["httpd"] = <<LaInput(b)>>
      PROVE  /\ c.fn = "set_la_input_sel" /\ Tail(todo["httpd"]) = <<>>
             /\ todo["httpd"] # Pulse /\ todo["httpd"] # Release /\ todo["httpd"] # <<StartToggle>>
  <2>1. c = LaInput(b) /\ Tail(todo["httpd"]) = <<>>
    BY <1>4, Tuples
  <2>2. c.fn = "set_la_input_sel"
    BY <1>0, <2>1
  <2>3. QED BY <1>00, <2>1, <2>2
<1>5. ASSUME NEW v \in Outputs, todo["httpd"] = <<PortD(v)>>
      PROVE  /\ c.fn = "set_portd_output" /\ c.arg = v /\ Tail(todo["httpd"]) = <<>>
             /\ todo["httpd"] # Pulse /\ todo["httpd"] # Release /\ todo["httpd"] # <<StartToggle>>
  <2>1. c = PortD(v) /\ Tail(todo["httpd"]) = <<>>
    BY <1>5, Tuples
  <2>2. c.fn = "set_portd_output" /\ c.arg = v
    BY <1>0, <2>1
  <2>3. QED BY <1>00, <2>1, <2>2
<1>6. QED BY <1>1, <1>2, <1>3, <1>4, <1>5 DEF Shapes

LEMMA OtherHeads ==
  ASSUME Shapes
  PROVE  /\ todo["timer"] # <<>> =>
              Head(todo["timer"]).fn = "set_portd_output" /\ Tail(todo["timer"]) = <<>>
         /\ todo["gdb"] # <<>> =>
              Head(todo["gdb"]).fn = "set_sreset" /\ Tail(todo["gdb"]) = <<>>
<1>1. ASSUME NEW v \in Outputs, todo["timer"] = <<PortD(v)>>
      PROVE  Head(todo["timer"]).fn = "set_portd_output" /\ Tail(todo["timer"]) = <<>>
  BY <1>1, Tuples, CallFields
<1>2. ASSUME NEW b \in BOOLEAN, todo["gdb"] = <<Sreset(b)>>
      PROVE  Head(todo["gdb"]).fn = "set_sreset" /\ Tail(todo["gdb"]) = <<>>
  BY <1>2, Tuples, CallFields
<1>3. QED BY <1>1, <1>2 DEF Shapes

LEMMA InitSerial == Init => SerialInv
<1> SUFFICES ASSUME Init PROVE SerialInv
  OBVIOUS
<1>1. /\ todo["main"] = Boot /\ todo["httpd"] = <<>> /\ todo["timer"] = <<>>
      /\ todo["gdb"] = <<>> /\ \A t \in Tasks : pc[t] = "none"
      /\ ~spi /\ ~timer /\ asked = "tristate" /\ reg1 = "tristate"
  BY DEF Init, Tasks, Zero
<1>2. Shapes
  BY <1>1 DEF Shapes
<1>3. \A v \in Outputs : todo["httpd"] # <<PortD(v)>>
  BY <1>1, Tuples
<1>4. QED BY <1>1, <1>2, <1>3 DEF SerialInv, Alone, ShadowInv, ReleaseInv, Due, PortDInv

-----------------------------------------------------------------------------
(* The steps of a register function.                                       *)

\* Whoever may step, when one register function runs at a time, is the only
\* one inside.
LEMMA OthersOut ==
  ASSUME Overlap = FALSE, NEW t \in Tasks, NEW fns, May(t, fns)
  PROVE  /\ todo[t] # <<>> /\ Head(todo[t]).fn \in fns
         /\ \A u \in Tasks \ {t} : pc[u] = "none"
  BY DEF May

\* Only a step that takes a call off, or starts one, can make a release not due.
LEMMA DueKept ==
  ASSUME Due, UNCHANGED todo,
         \A t \in {"main", "httpd", "gdb"} :
           pc[t] = "none" /\ todo[t] # <<>> /\ Head(todo[t]).fn = "set_sreset" => pc'[t] = "none",
         Shapes
  PROVE  Due'
<1>1. CASE todo["main"] = AfterSpi /\ pc["main"] = "none"
  BY <1>1, MainHead, Stages DEF Due
<1>2. CASE todo["httpd"] = Release /\ pc["httpd"] = "none"
  BY <1>2, HttpdHead, PulseFacts DEF Due
<1>3. CASE todo["gdb"] # <<>> /\ pc["gdb"] = "none"
  BY <1>3, OtherHeads DEF Due
<1>4. QED BY <1>1, <1>2, <1>3 DEF Due

LEMMA LoadSerial ==
  ASSUME Overlap = FALSE, TypeOK, SerialInv, NEW t \in Tasks, Load(t) PROVE SerialInv'
<1> DEFINE c == Head(todo[t])
           fns == {"set_sreset", "set_la_input_sel", "set_cfga"}
<1>1. c \in Calls /\ c.fn \in fns
  BY HeadTyped DEF Load
<1>2. /\ UNCHANGED <<reg0, reg1, polarity, fpga, spi, timer, todo, asked>> /\ pc[t] = "none"
      /\ frame' = [frame EXCEPT ![t] = [reg0 |-> Edit(c), reg1 |-> reg1]]
      /\ pc' = [pc EXCEPT ![t] = "loaded"]
      /\ held' = IF c.fn = "set_sreset" THEN t = "gdb" /\ c.arg ELSE held
  BY DEF Load
<1>3. /\ frame'[t].reg0 = Edit(c) /\ frame'[t].reg1 = reg1 /\ pc'[t] = "loaded"
      /\ \A u \in Tasks \ {t} : frame'[u] = frame[u] /\ pc'[u] = pc[u] /\ pc[u] = "none"
      /\ todo[t] # <<>>
  <2>1. todo[t] # <<>> /\ \A u \in Tasks \ {t} : pc[u] = "none"
    BY OthersOut DEF Load
  <2>2. QED BY <1>2, <2>1 DEF TypeOK
<1> HIDE DEF c
<1>4. Shapes'
  BY <1>2 DEF SerialInv, Shapes
<1>5. Alone'
  <2>1. InRegisterCall(t)
    BY <1>1, <1>3 DEF InRegisterCall, c
  <2>2. \A u \in Tasks : pc'[u] # "none" => u = t
    BY <1>3
  <2>3. InRegisterCall(t)' /\ Head(todo'[t]).fn # "set_portd_output"
    BY <1>1, <1>2, <2>1 DEF InRegisterCall, c
  <2>4. QED BY <1>3, <2>2, <2>3 DEF Alone
<1>6. ShadowInv'
  <2>1. \A u \in Tasks : pc[u] \in {"none", "loaded"}
    BY <1>2, <1>3
  <2>2. QED BY <1>2, <1>3, <2>1 DEF SerialInv, ShadowInv
<1>7. ReleaseInv'
  <2> SUFFICES ASSUME ~held', ~Due' PROVE ~Asserted(Edit(c).sreset)
    BY <1>2, <1>3 DEF ReleaseInv, Asserted
  <2> USE DEF SerialInv
  <2>1. CASE c.fn = "set_sreset"
    <3>1. c.arg = FALSE
      <4>1. t \in {"main", "httpd", "timer", "gdb"}
        BY DEF Tasks
      <4>2. CASE t = "main"
        BY <1>3, <2>1, <4>2, MainHead DEF c
      <4>3. CASE t = "httpd"
        <5>1. todo["httpd"] # Pulse
          BY <1>2 DEF Due
        <5>2. QED BY <1>3, <2>1, <4>3, <5>1, HttpdHead DEF c
      <4>4. CASE t = "timer"
        BY <1>3, <2>1, <4>4, OtherHeads DEF c
      <4>5. CASE t = "gdb"
        <5>1. c.arg \in BOOLEAN
          BY <1>1, <2>1, CallArgs
        <5>2. QED BY <1>2, <2>1, <4>5, <5>1
      <4>6. QED BY <4>1, <4>2, <4>3, <4>4, <4>5
    <3>2. reg0 \in Register0 /\ polarity \in {"low", "high"}
      BY DEF TypeOK
    <3>3. Edit(c) = [reg0 EXCEPT !.sreset = (polarity = "low") # c.arg]
      BY <2>1 DEF Edit
    <3>4. Edit(c).sreset = ((polarity = "low") # FALSE)
      BY <3>1, <3>2, <3>3 DEF Register0
    <3>5. QED BY <3>2, <3>4 DEF Asserted
  <2>2. CASE c.fn # "set_sreset"
    <3>1. Edit(c).sreset = reg0.sreset
      <4>1. reg0 \in Register0
        BY DEF TypeOK
      <4>2. CASE c.fn = "set_la_input_sel"
        BY <4>1, <4>2 DEF Edit, Register0
      <4>3. CASE c.fn = "set_cfga"
        BY <4>1, <4>3 DEF Edit, Register0
      <4>4. QED BY <1>1, <2>2, <4>2, <4>3
    <3>2. ~Due
      <4>1. \A u \in {"main", "httpd", "gdb"} :
              pc[u] = "none" /\ todo[u] # <<>> /\ Head(todo[u]).fn = "set_sreset"
                => pc'[u] = "none"
        BY <1>3, <2>2 DEF c, Tasks
      <4>2. QED BY <1>2, <4>1, DueKept
    <3>3. ~held
      BY <1>2, <2>2
    <3>4. ~Asserted(reg0.sreset)
      BY <1>2, <1>3, <3>2, <3>3 DEF ReleaseInv
    <3>5. QED BY <3>1, <3>4
  <2>3. QED BY <2>1, <2>2
<1>8. PortDInv'
  <2>1. \A v \in Outputs : todo["httpd"] = <<PortD(v)>> => t # "httpd"
    <3>1. \A v : Head(<<PortD(v)>>).fn = "set_portd_output"
      BY Tuples, CallFields
    <3>2. QED BY <1>1, <3>1 DEF c
  <2>2. todo["httpd"] = <<PortD(asked)>> => t # "httpd"
    <3>1. Head(<<PortD(asked)>>).fn = "set_portd_output"
      BY Tuples, CallFields
    <3>2. QED BY <1>1, <3>1 DEF c
  <2>3. "httpd" \in Tasks
    BY DEF Tasks
  <2>4. QED BY <1>2, <1>3, <2>2, <2>3 DEF SerialInv, PortDInv
<1>9. QED BY <1>4, <1>5, <1>6, <1>7, <1>8 DEF SerialInv

LEMMA StoreSerial ==
  ASSUME Overlap = FALSE, TypeOK, SerialInv, NEW t \in Tasks, Store(t) PROVE SerialInv'
<1>1. /\ UNCHANGED <<reg1, polarity, fpga, spi, timer, todo, frame, asked, held>>
      /\ pc[t] = "loaded" /\ reg0' = frame[t].reg0 /\ pc' = [pc EXCEPT ![t] = "framed"]
  BY DEF Store
<1>2. /\ pc'[t] = "framed" /\ Head(todo[t]).fn # "set_portd_output"
      /\ \A u \in Tasks \ {t} : pc'[u] = pc[u] /\ pc[u] = "none"
  <2>1. \A u \in Tasks \ {t} : pc[u] = "none"
    BY OthersOut DEF Store
  <2>2. Head(todo[t]).fn # "set_portd_output"
    BY <1>1 DEF SerialInv, Alone
  <2>3. QED BY <1>1, <2>1, <2>2 DEF TypeOK
<1>3. Shapes'
  BY <1>1 DEF SerialInv, Shapes
<1>4. Alone'
  BY <1>1, <1>2 DEF SerialInv, Alone, InRegisterCall
<1>5. ShadowInv'
  <2>1. frame[t] \in Frame /\ frame[t].reg1 = reg1
    BY <1>1 DEF TypeOK, SerialInv, ShadowInv
  <2>2. frame[t] = [reg0 |-> frame[t].reg0, reg1 |-> frame[t].reg1]
    BY <2>1 DEF Frame
  <2>3. QED BY <1>1, <1>2, <2>1, <2>2 DEF ShadowInv
<1>6. ReleaseInv'
  <2>1. Due => Due'
    <3>1. \A u \in Tasks : pc[u] = "none" => pc'[u] = "none"
      BY <1>1, <1>2
    <3>2. QED BY <1>1, <3>1, DueKept DEF SerialInv, Tasks
  <2>2. ~held /\ ~Due => ~Asserted(reg0'.sreset)
    BY <1>1 DEF SerialInv, ReleaseInv
  <2>3. QED BY <1>1, <1>2, <2>1, <2>2 DEF ReleaseInv, Asserted
<1>7. PortDInv'
  <2>1. "httpd" \in Tasks /\ pc["httpd"] = "none" => pc'["httpd"] = "none"
    BY <1>1, <1>2 DEF Tasks
  <2>2. QED BY <1>1, <2>1 DEF SerialInv, PortDInv, Tasks
<1>8. QED BY <1>3, <1>4, <1>5, <1>6, <1>7 DEF SerialInv

\* Who writes Port D, and with what.
LEMMA OutputSerial ==
  ASSUME Overlap = FALSE, TypeOK, SerialInv, NEW t \in Tasks, StoreOutput(t) \/ FillFrame(t)
  PROVE  SerialInv'
<1> DEFINE c == Head(todo[t])
<1>1. /\ UNCHANGED <<reg0, polarity, fpga, spi, timer, todo, asked, held>>
      /\ \/ /\ pc[t] = "none" /\ reg1' = c.arg /\ pc' = [pc EXCEPT ![t] = "stored"]
            /\ frame' = frame
         \/ /\ pc[t] = "stored" /\ reg1' = reg1 /\ pc' = [pc EXCEPT ![t] = "framed"]
            /\ frame' = [frame EXCEPT ![t] = [reg0 |-> reg0, reg1 |-> c.arg]]
  BY DEF StoreOutput, FillFrame
<1>2. /\ \/ pc[t] = "none" /\ reg1' = c.arg /\ pc'[t] = "stored"
         \/ /\ pc[t] = "stored" /\ reg1' = reg1 /\ pc'[t] = "framed"
            /\ frame'[t] = [reg0 |-> reg0, reg1 |-> c.arg]
      /\ todo[t] # <<>> /\ c.fn = "set_portd_output"
      /\ \A u \in Tasks \ {t} : pc'[u] = pc[u] /\ pc[u] = "none"
  <2>1. todo[t] # <<>> /\ c.fn = "set_portd_output" /\ \A u \in Tasks \ {t} : pc[u] = "none"
    BY OthersOut DEF StoreOutput, FillFrame
  <2> HIDE DEF c
  <2>2. QED BY <1>1, <2>1 DEF TypeOK
<1> HIDE DEF c
<1>3. Shapes'
  BY <1>1 DEF SerialInv, Shapes
<1>4. Alone'
  <2>1. InRegisterCall(t)' /\ Head(todo'[t]).fn = "set_portd_output"
    BY <1>1, <1>2 DEF InRegisterCall, c
  <2>2. QED BY <1>2, <2>1 DEF Alone
<1>5. reg1' = c.arg
  BY <1>2 DEF SerialInv, ShadowInv, c
<1>6. ShadowInv'
  <2>1. reg1' = Head(todo'[t]).arg
    BY <1>1, <1>5 DEF c
  <2>2. QED BY <1>1, <1>2, <1>5, <2>1 DEF ShadowInv
<1>7. ReleaseInv'
  <2>1. Due => Due'
    <3>1. \A u \in {"main", "httpd", "gdb"} :
            pc[u] = "none" /\ todo[u] # <<>> /\ Head(todo[u]).fn = "set_sreset"
              => pc'[u] = "none"
      BY <1>2 DEF c, Tasks
    <3>2. QED BY <1>1, <3>1, DueKept DEF SerialInv
  <2>2. ~held /\ ~Due => ~Asserted(reg0.sreset)
    BY <1>2 DEF SerialInv, ReleaseInv
  <2>3. QED BY <1>1, <1>2, <2>1, <2>2 DEF ReleaseInv, Asserted
<1>8. PortDInv'
  <2> USE DEF SerialInv
  <2>1. t \in {"httpd", "timer"}
    BY <1>2, MainHead, OtherHeads DEF c, Tasks
  <2>2. CASE t = "httpd"
    <3>1. c.arg \in Outputs /\ todo["httpd"] = <<PortD(c.arg)>>
          /\ todo["httpd"] # <<StartToggle>>
      BY <1>2, <2>2, HttpdHead DEF c
    <3>2. asked = c.arg
      BY <3>1 DEF PortDInv
    <3>3. QED BY <1>1, <1>5, <3>1, <3>2 DEF PortDInv
  <2>3. CASE t = "timer"
    BY <1>1, <1>2, <2>3 DEF PortDInv
  <2>4. QED BY <2>1, <2>2, <2>3
<1>9. QED BY <1>3, <1>4, <1>6, <1>7, <1>8 DEF SerialInv

LEMMA TransferSerial ==
  ASSUME Overlap = FALSE, TypeOK, SerialInv, NEW t \in Tasks, Transfer(t) PROVE SerialInv'
<1>1. /\ UNCHANGED <<reg0, reg1, polarity, spi, timer, asked, held>> /\ pc[t] = "framed"
      /\ fpga' = (IF spi THEN frame[t] ELSE fpga)
      /\ todo' = [todo EXCEPT ![t] = Tail(@)] /\ pc' = [pc EXCEPT ![t] = "none"]
  BY DEF Transfer
<1>2. /\ todo'[t] = Tail(todo[t]) /\ todo[t] # <<>>
      /\ \A u \in Tasks \ {t} : todo'[u] = todo[u]
      /\ \A u \in Tasks : pc'[u] = "none"
  BY <1>1, OthersOut DEF TypeOK, Transfer
<1>3. /\ Head(todo[t]).fn \notin {"spi_master_init", "esp_timer_start"}
      /\ frame[t] = [reg0 |-> reg0, reg1 |-> reg1]
  BY <1>1 DEF SerialInv, Alone, InRegisterCall, ShadowInv
<1>4. t \in {"main", "httpd", "timer", "gdb"} /\ Tasks = {"main", "httpd", "timer", "gdb"}
  BY DEF Tasks
<1> USE DEF SerialInv
<1>5. todo["main"] = Boot => t # "main"
  BY <1>2, <1>3, MainHead, CallFields, Stages
<1>6. /\ todo'["main"] \in {Boot, AfterSpi, AfterSreset, AfterCfga, <<>>}
      /\ spi' <=> todo'["main"] # Boot
      /\ todo'["main"] \in {Boot, AfterSpi} => t # "main" /\ todo'["main"] = todo["main"]
  <2>1. CASE t = "main"
    <3>1. /\ todo["main"] # Boot /\ spi
          /\ todo'["main"] \in {AfterSpi, AfterSreset, AfterCfga, <<>>}
          /\ todo'["main"] # AfterSpi
      BY <1>2, <1>5, <2>1, MainHead DEF Shapes
    <3>2. todo'["main"] # Boot
      BY <3>1, Stages
    <3>3. QED BY <1>1, <3>1, <3>2
  <2>2. CASE t # "main"
    BY <1>1, <1>2, <1>4, <2>2 DEF Shapes
  <2>3. QED BY <2>1, <2>2
<1>7. Shapes'
  <2>1. \/ todo'["httpd"] \in {<<>>, Pulse, Release, <<StartToggle>>}
        \/ \E b \in BOOLEAN : todo'["httpd"] = <<LaInput(b)>>
        \/ \E v \in Outputs : todo'["httpd"] = <<PortD(v)>>
    <3>1. CASE t = "httpd"
      BY <1>2, <3>1, HttpdHead
    <3>2. CASE t # "httpd"
      BY <1>2, <1>4, <3>2 DEF Shapes
    <3>3. QED BY <3>1, <3>2
  <2>2. /\ todo'["timer"] # <<>> => \E v \in Outputs : todo'["timer"] = <<PortD(v)>>
        /\ todo'["gdb"] # <<>> => \E b \in BOOLEAN : todo'["gdb"] = <<Sreset(b)>>
    BY <1>2, <1>4, OtherHeads DEF Shapes
  <2>3. QED BY <1>6, <2>1, <2>2 DEF Shapes
<1>8. Alone'
  BY <1>2 DEF Alone
<1>9. ShadowInv'
  <2>1. todo'["main"] \notin {Boot, AfterSpi} => spi
    BY <1>1, <1>6
  <2>2. QED BY <1>1, <1>2, <1>3, <2>1 DEF ShadowInv
<1>10. ReleaseInv'
  <2>1. Due => Due'
    <3>1. CASE todo["main"] = Boot
      BY <1>2, <1>4, <1>5, <3>1 DEF Due
    <3>2. CASE todo["main"] = AfterSpi /\ pc["main"] = "none"
      BY <1>1, <1>2, <1>4, <3>2 DEF Due
    <3>3. CASE todo["httpd"] = Pulse
      <4>1. t = "httpd" => todo'["httpd"] = Release
        BY <1>2, <3>3, HttpdHead
      <4>2. QED BY <1>2, <1>4, <3>3, <4>1 DEF Due
    <3>4. CASE todo["httpd"] = Release /\ pc["httpd"] = "none"
      BY <1>1, <1>2, <1>4, <3>4 DEF Due
    <3>5. CASE todo["gdb"] # <<>> /\ pc["gdb"] = "none"
      BY <1>1, <1>2, <1>4, <3>5 DEF Due
    <3>6. QED BY <3>1, <3>2, <3>3, <3>4, <3>5 DEF Due
  <2>2. \A u \in Tasks : pc[u] # "loaded"
    BY <1>1 DEF Alone
  <2>3. ~held /\ ~Due => ~Asserted(reg0.sreset)
    BY <2>2 DEF ReleaseInv
  <2>4. QED BY <1>1, <1>2, <2>1, <2>3 DEF ReleaseInv, Asserted
<1>11. PortDInv'
  <2>1. CASE t = "httpd"
    <3>1. todo["httpd"] # <<StartToggle>> /\ todo'["timer"] = todo["timer"]
      BY <1>2, <1>3, <1>4, <2>1, HttpdHead
    <3>2. ~timer => asked # "toggle" /\ todo["timer"] = <<>> /\ reg1 = asked
      BY <1>1, <2>1, <3>1 DEF PortDInv
    <3>3. \A v \in Outputs : todo'["httpd"] # <<PortD(v)>>
      <4>1. todo'["httpd"] \in {<<>>, Release}
        BY <1>2, <2>1, HttpdHead
      <4>2. \A v : Head(<<PortD(v)>>).fn = "set_portd_output" /\ <<PortD(v)>> # <<>>
        BY Tuples, CallFields
      <4>3. Head(Release).fn = "set_sreset"
        BY PulseFacts, CallFields
      <4>4. QED BY <4>1, <4>2, <4>3
    <3>4. QED BY <1>1, <3>1, <3>2, <3>3 DEF PortDInv
  <2>2. CASE t # "httpd"
    <3>1. todo'["httpd"] = todo["httpd"] /\ pc'["httpd"] = "none"
      BY <1>2, <1>4, <2>2
    <3>2. todo["timer"] = <<>> => todo'["timer"] = <<>>
      BY <1>2, <1>4
    <3>3. QED BY <1>1, <3>1, <3>2 DEF PortDInv
  <2>3. QED BY <2>1, <2>2
<1>12. QED BY <1>7, <1>8, <1>9, <1>10, <1>11

-----------------------------------------------------------------------------
(* The callers.                                                            *)

\* A task outside the register functions is handed its calls.
LEMMA HandOut ==
  ASSUME TypeOK, SerialInv, NEW t \in Tasks, NEW calls, todo[t] = <<>>,
         todo' = [todo EXCEPT ![t] = calls], UNCHANGED <<reg0, reg1, fpga, spi, pc, frame>>
  PROVE  /\ todo'[t] = calls /\ pc[t] = "none" /\ \A u \in Tasks \ {t} : todo'[u] = todo[u]
         /\ Alone' /\ (t # "main" => ShadowInv')
<1>1. todo'[t] = calls /\ \A u \in Tasks \ {t} : todo'[u] = todo[u]
  BY DEF TypeOK
<1>2. pc[t] = "none"
  BY DEF SerialInv, Alone, InRegisterCall
<1>3. Alone'
  BY <1>1, <1>2 DEF SerialInv, Alone, InRegisterCall
<1>4. t # "main" => ShadowInv'
  <2>1. \A u \in Tasks : pc[u] = "stored" => todo'[u] = todo[u]
    BY <1>1, <1>2
  <2>2. t # "main" => todo'["main"] = todo["main"]
    BY <1>1 DEF Tasks
  <2>3. QED BY <2>1, <2>2 DEF SerialInv, ShadowInv
<1>5. QED BY <1>1, <1>2, <1>3, <1>4

\* None of the sequences of calls is taken for another.
LEMMA Distinct ==
  /\ \A v, w : <<PortD(v)>> = <<PortD(w)>> => v = w
  /\ \A v : /\ <<PortD(v)>> # <<>> /\ <<PortD(v)>> # Pulse /\ <<PortD(v)>> # Release
            /\ <<PortD(v)>> # <<StartToggle>> /\ \A b : <<PortD(v)>> # <<LaInput(b)>>
  /\ \A b : <<LaInput(b)>> # <<>> /\ <<LaInput(b)>> # Pulse /\ <<LaInput(b)>> # Release
  /\ <<StartToggle>> # <<>> /\ <<StartToggle>> # Pulse /\ <<StartToggle>> # Release
<1>1. /\ Head(Pulse).fn = "set_sreset" /\ Head(Release).fn = "set_sreset"
      /\ \A v : Head(<<PortD(v)>>).fn = "set_portd_output" /\ Head(<<PortD(v)>>).arg = v
      /\ \A b : Head(<<LaInput(b)>>).fn = "set_la_input_sel"
      /\ Head(<<StartToggle>>).fn = "esp_timer_start"
  <2>1. /\ \A v : Head(<<PortD(v)>>) = PortD(v)
        /\ \A b : Head(<<LaInput(b)>>) = LaInput(b)
        /\ Head(<<StartToggle>>) = StartToggle
    BY Tuples, Zenon
  <2>2. Head(Pulse).fn = "set_sreset" /\ Head(Release).fn = "set_sreset"
    BY PulseFacts, CallFields, Zenon
  <2>3. ASSUME NEW v
        PROVE  Head(<<PortD(v)>>).fn = "set_portd_output" /\ Head(<<PortD(v)>>).arg = v
    <3>1. PortD(v).fn = "set_portd_output" /\ PortD(v).arg = v
      BY CallFields, Zenon
    <3>2. Head(<<PortD(v)>>) = PortD(v)
      BY <2>1, Zenon
    <3>3. QED BY <3>1, <3>2, Zenon
  <2>4. ASSUME NEW b PROVE Head(<<LaInput(b)>>).fn = "set_la_input_sel"
    <3>1. LaInput(b).fn = "set_la_input_sel"
      BY CallFields, Zenon
    <3>2. Head(<<LaInput(b)>>) = LaInput(b)
      BY <2>1, Zenon
    <3>3. QED BY <3>1, <3>2, Zenon
  <2>5. Head(<<StartToggle>>).fn = "esp_timer_start"
    BY <2>1, CallFields, Zenon
  <2>6. QED BY <2>2, <2>3, <2>4, <2>5, Zenon
<1>2. \A v, w : <<PortD(v)>> = <<PortD(w)>> => v = w
  <2> SUFFICES ASSUME NEW v, NEW w, <<PortD(v)>> = <<PortD(w)>> PROVE v = w
    OBVIOUS
  <2>1. PortD(v) = PortD(w)
    BY Tuples, Zenon
  <2>2. PortD(v).arg = v /\ PortD(w).arg = w
    BY CallFields, Zenon
  <2>3. QED BY <2>1, <2>2, Zenon
<1>3. /\ \A v : /\ <<PortD(v)>> # Pulse /\ <<PortD(v)>> # Release
                /\ <<PortD(v)>> # <<StartToggle>> /\ \A b : <<PortD(v)>> # <<LaInput(b)>>
      /\ \A b : <<LaInput(b)>> # Pulse /\ <<LaInput(b)>> # Release
      /\ <<StartToggle>> # Pulse /\ <<StartToggle>> # Release
  BY <1>1
<1>4. QED BY <1>2, <1>3, Tuples, Zenon

\* Requests that do not concern Port D: one that pulses or releases SRESET makes
\* a release due, another one leaves what is due.
LEMMA ResetsSerial ==
  ASSUME TypeOK, SerialInv, ResetTarget \/ \E p \in {"low", "high"} : SresetConfig(p)
  PROVE  SerialInv'
<1>1. PICK calls \in {Pulse, Release} : todo' = [todo EXCEPT !["httpd"] = calls]
  BY DEF ResetTarget, SresetConfig, Serve, Pulse, Release
<1>2. /\ todo["httpd"] = <<>> /\ "httpd" \in Tasks
      /\ UNCHANGED <<reg0, reg1, fpga, spi, timer, pc, frame, asked, held>>
  BY DEF ResetTarget, SresetConfig, Request, Tasks
<1>3. /\ todo'["httpd"] = calls /\ pc["httpd"] = "none" /\ Alone' /\ ShadowInv'
      /\ \A u \in Tasks \ {"httpd"} : todo'[u] = todo[u]
  BY <1>1, <1>2, HandOut
<1>4. /\ todo'["main"] = todo["main"] /\ todo'["timer"] = todo["timer"]
      /\ todo'["gdb"] = todo["gdb"]
  BY <1>3 DEF Tasks
<1>5. Shapes'
  BY <1>2, <1>3, <1>4 DEF SerialInv, Shapes
<1>6. ReleaseInv'
  BY <1>2, <1>3 DEF ReleaseInv, Due
<1>7. PortDInv'
  <2>1. ~timer => asked # "toggle" /\ todo["timer"] = <<>> /\ reg1 = asked
    BY <1>2, Distinct DEF SerialInv, PortDInv
  <2>2. \A v : calls # <<PortD(v)>>
    BY Distinct
  <2>3. QED BY <1>2, <1>3, <1>4, <2>1, <2>2 DEF PortDInv
<1>8. QED BY <1>3, <1>5, <1>6, <1>7 DEF SerialInv

LEMMA InputSerial ==
  ASSUME TypeOK, SerialInv, NEW b \in BOOLEAN, LaConfigure(b) PROVE SerialInv'
<1> DEFINE calls == <<LaInput(b)>>
<1>1. /\ todo["httpd"] = <<>> /\ "httpd" \in Tasks /\ todo' = [todo EXCEPT !["httpd"] = calls]
      /\ UNCHANGED <<reg0, reg1, polarity, fpga, spi, timer, pc, frame, asked, held>>
  BY DEF LaConfigure, Request, Serve, Tasks
<1>2. calls # Pulse /\ calls # Release /\ \A v : calls # <<PortD(v)>>
  BY Distinct
<1> HIDE DEF calls
<1>3. /\ todo'["httpd"] = calls /\ pc["httpd"] = "none" /\ Alone' /\ ShadowInv'
      /\ \A u \in Tasks \ {"httpd"} : todo'[u] = todo[u]
  BY <1>1, HandOut
<1>4. /\ todo'["main"] = todo["main"] /\ todo'["timer"] = todo["timer"]
      /\ todo'["gdb"] = todo["gdb"]
  BY <1>3 DEF Tasks
<1>5. Shapes'
  BY <1>1, <1>3, <1>4 DEF SerialInv, Shapes, calls
<1>6. ReleaseInv'
  <2>1. Due => Due'
    BY <1>1, <1>4, PulseFacts DEF Due
  <2>2. QED BY <1>1, <2>1 DEF SerialInv, ReleaseInv, Asserted
<1>7. PortDInv'
  <2>1. ~timer => asked # "toggle" /\ todo["timer"] = <<>> /\ reg1 = asked
    BY <1>1, Distinct DEF SerialInv, PortDInv
  <2>2. QED BY <1>1, <1>2, <1>3, <1>4, <2>1 DEF PortDInv
<1>8. QED BY <1>3, <1>5, <1>6, <1>7 DEF SerialInv

\* The requests for Port D.
LEMMA PortDSerial ==
  ASSUME Overlap = FALSE, TypeOK, SerialInv,
         PortdStop \/ PortdFreq \/ \E v \in Outputs : PortdOutput(v)
  PROVE  SerialInv'
<1>0. "toggle" \notin Outputs /\ "tristate" \in Outputs
  BY DEF Outputs
<1>1. PICK calls :
        /\ todo' = [todo EXCEPT !["httpd"] = calls]
        /\ \/ /\ calls = <<StartToggle>> /\ asked' = "toggle"
           \/ \E v \in Outputs : /\ calls = <<PortD(v)>> /\ asked' = v
                                 /\ ~timer' => ~timer \/ todo["timer"] = <<>>
  <2>1. CASE PortdStop
    BY <1>0, <2>1 DEF PortdStop, Serve
  <2>2. CASE PortdFreq
    BY <2>2 DEF PortdFreq, Serve
  <2>3. CASE \E v \in Outputs : PortdOutput(v)
    <3>1. PICK v \in Outputs : PortdOutput(v)
      BY <2>3
    <3>2. /\ todo' = [todo EXCEPT !["httpd"] = <<PortD(v)>>] /\ asked' = v
          /\ ~timer' => ~timer \/ todo["timer"] = <<>>
      BY <3>1 DEF PortdOutput, Serve
    <3>3. QED BY <3>2
  <2>4. QED BY <2>1, <2>2, <2>3
<1>2. /\ todo["httpd"] = <<>> /\ "httpd" \in Tasks
      /\ UNCHANGED <<reg0, reg1, polarity, fpga, spi, pc, frame, held>>
  BY DEF PortdStop, PortdFreq, PortdOutput, Request, Tasks
<1>3. /\ todo'["httpd"] = calls /\ pc["httpd"] = "none" /\ Alone' /\ ShadowInv'
      /\ \A u \in Tasks \ {"httpd"} : todo'[u] = todo[u]
  BY <1>1, <1>2, HandOut
<1>4. /\ todo'["main"] = todo["main"] /\ todo'["timer"] = todo["timer"]
      /\ todo'["gdb"] = todo["gdb"]
  BY <1>3 DEF Tasks
<1>5. Shapes'
  BY <1>1, <1>2, <1>3, <1>4 DEF SerialInv, Shapes
<1>6. ReleaseInv'
  <2>1. Due => Due'
    BY <1>2, <1>4, PulseFacts DEF Due
  <2>2. QED BY <1>2, <2>1 DEF SerialInv, ReleaseInv, Asserted
<1>7. PortDInv'
  <2>1. CASE calls = <<StartToggle>> /\ asked' = "toggle"
    <3>1. \A v : calls # <<PortD(v)>>
      BY <2>1, Distinct
    <3>2. QED BY <1>3, <2>1, <3>1 DEF PortDInv
  <2>2. ASSUME NEW v \in Outputs, calls = <<PortD(v)>>, asked' = v,
               ~timer' => ~timer \/ todo["timer"] = <<>>
        PROVE  PortDInv'
    <3>1. ~timer => todo["timer"] = <<>>
      BY <1>2, Distinct DEF SerialInv, PortDInv
    <3>2. \A w \in Outputs : calls = <<PortD(w)>> => w = v
      BY <2>2, Distinct
    <3>3. ~timer' => todo'["timer"] = <<>>
      BY <1>4, <2>2, <3>1
    <3>4. QED BY <1>0, <1>2, <1>3, <2>2, <3>2, <3>3 DEF PortDInv
  <2>3. QED BY <1>1, <2>1, <2>2
<1>8. QED BY <1>3, <1>5, <1>6, <1>7 DEF SerialInv

\* The steps that start the toggle, and the one that initialises SPI.
LEMMA StartSerial ==
  ASSUME Overlap = FALSE, TypeOK, SerialInv, StartTimer \/ SpiMasterInit PROVE SerialInv'
<1> DEFINE t == IF StartTimer THEN "httpd" ELSE "main"
<1> USE DEF SerialInv
<1>1. /\ t \in Tasks /\ UNCHANGED <<reg0, reg1, polarity, fpga, pc, frame, asked, held>>
      /\ \A u \in Tasks \ {t} : todo'[u] = todo[u]
  BY DEF StartTimer, SpiMasterInit, Serve, Tasks, TypeOK
<1>2. \/ /\ t = "httpd" /\ todo["httpd"] = <<StartToggle>> /\ todo'["httpd"] = <<>>
         /\ timer' = TRUE /\ spi' = spi /\ Head(todo["httpd"]).fn = "esp_timer_start"
      \/ /\ t = "main" /\ todo["main"] = Boot /\ todo'["main"] = AfterSpi
         /\ spi' = TRUE /\ timer' = timer /\ Head(todo["main"]).fn = "spi_master_init"
  <2>1. CASE StartTimer
    <3>1. todo["httpd"] # <<>> /\ Head(todo["httpd"]).fn = "esp_timer_start"
      BY <2>1, OthersOut DEF StartTimer, May
    <3>2. todo["httpd"] = <<StartToggle>>
      BY <3>1, HttpdHead
    <3>3. QED BY <2>1, <3>1, <3>2 DEF StartTimer, Serve, TypeOK, Tasks
  <2>2. CASE ~StartTimer
    <3>1. todo["main"] # <<>> /\ Head(todo["main"]).fn = "spi_master_init"
      BY <2>2, OthersOut DEF SpiMasterInit, May
    <3>2. todo["main"] = Boot
      BY <3>1, MainHead
    <3>3. todo'["main"] = AfterSpi
      BY <2>2, <3>2, Stages DEF SpiMasterInit, TypeOK, Tasks
    <3>4. QED BY <2>2, <3>1, <3>2, <3>3 DEF SpiMasterInit
  <2>3. QED BY <2>1, <2>2
<1> HIDE DEF t
<1>3. pc[t] = "none"
  BY <1>1, <1>2 DEF Alone, InRegisterCall
<1>4. Alone'
  BY <1>1, <1>3 DEF Alone, InRegisterCall
<1>5. ShadowInv'
  <2>1. \A u \in Tasks : pc[u] # "none" => todo'[u] = todo[u]
    BY <1>1, <1>3
  <2>2. todo'["main"] = todo["main"] \/ todo'["main"] = AfterSpi
    BY <1>1, <1>2 DEF Tasks
  <2>3. QED BY <1>1, <2>1, <2>2 DEF ShadowInv
<1>6. Shapes'
  <2>1. t = "httpd" => todo'["main"] = todo["main"]
    BY <1>1 DEF Tasks
  <2>2. t = "main" => todo'["httpd"] = todo["httpd"]
    BY <1>1 DEF Tasks
  <2>3. todo'["timer"] = todo["timer"] /\ todo'["gdb"] = todo["gdb"]
    BY <1>1, <1>2 DEF Tasks
  <2>4. CASE t = "httpd"
    BY <1>2, <2>1, <2>3, <2>4 DEF Shapes
  <2>5. CASE t = "main"
    BY <1>2, <2>2, <2>3, <2>5, Stages DEF Shapes
  <2>6. QED BY <1>2, <2>4, <2>5
<1>7. ReleaseInv'
  <2>1. CASE t = "httpd"
    <3>1. todo'["main"] = todo["main"] /\ todo'["gdb"] = todo["gdb"]
      BY <1>1, <2>1 DEF Tasks
    <3>2. Due => Due'
      BY <1>1, <1>2, <2>1, <3>1, Distinct DEF Due
    <3>3. QED BY <1>1, <3>2 DEF ReleaseInv, Asserted
  <2>2. CASE t = "main"
    BY <1>1, <1>2, <1>3, <2>2 DEF ReleaseInv, Due
  <2>3. QED BY <1>2, <2>1, <2>2
<1>8. PortDInv'
  <2>1. todo'["timer"] = todo["timer"]
    BY <1>1, <1>2 DEF Tasks
  <2>2. CASE t = "httpd"
    <3>1. timer' = TRUE /\ todo'["httpd"] = <<>>
      BY <1>2, <2>2
    <3>2. \A v : todo'["httpd"] # <<PortD(v)>>
      BY <3>1, Distinct
    <3>3. QED BY <3>1, <3>2 DEF PortDInv
  <2>3. CASE t = "main"
    <3>1. todo'["httpd"] = todo["httpd"] /\ timer' = timer
      BY <1>1, <1>2, <2>3 DEF Tasks
    <3>2. QED BY <1>1, <2>1, <3>1 DEF PortDInv
  <2>4. QED BY <1>2, <2>2, <2>3
<1>9. QED BY <1>4, <1>5, <1>6, <1>7, <1>8

\* The toggle only calls while the timer runs; the GDB server's call is due.
LEMMA TickSerial ==
  ASSUME Overlap = FALSE, TypeOK, SerialInv, Toggle \/ \E b \in BOOLEAN : GdbReset(b)
  PROVE  SerialInv'
<1> DEFINE Gets(t, calls) ==
             /\ todo[t] = <<>> /\ todo' = [todo EXCEPT ![t] = calls]
             /\ t = "timer" => timer /\ \E v \in Outputs : calls = <<PortD(v)>>
             /\ t = "gdb" => \E b \in BOOLEAN : calls = <<Sreset(b)>>
<1>0. \E t \in {"timer", "gdb"} : \E calls : Gets(t, calls)
  <2>1. CASE Toggle
    <3> DEFINE v == IF toggle' THEN "high" ELSE "low"
    <3>1. v \in Outputs
      BY DEF Outputs
    <3>2. Gets("timer", <<PortD(v)>>)
      BY <2>1, <3>1 DEF Toggle
    <3>3. QED BY <3>2
  <2>2. ASSUME NEW b \in BOOLEAN, GdbReset(b)
        PROVE  \E t \in {"timer", "gdb"} : \E calls : Gets(t, calls)
    <3>1. Gets("gdb", <<Sreset(b)>>)
      BY <2>2 DEF GdbReset
    <3>2. QED BY <3>1
  <2>3. QED BY <2>1, <2>2
<1>1. PICK t \in {"timer", "gdb"}, calls \in {todo'["timer"], todo'["gdb"]} :
        Gets(t, calls)
  BY <1>0 DEF TypeOK, Tasks
<1>2. UNCHANGED <<reg0, reg1, polarity, fpga, spi, timer, pc, frame, asked, held>>
  BY DEF Toggle, GdbReset
<1>3. t \in Tasks /\ t # "main" /\ t # "httpd"
  BY <1>1 DEF Tasks
<1>4. /\ todo'[t] = calls /\ pc[t] = "none" /\ Alone' /\ ShadowInv'
      /\ \A u \in Tasks \ {t} : todo'[u] = todo[u]
  BY <1>1, <1>2, <1>3, HandOut
<1>5. todo'["main"] = todo["main"] /\ todo'["httpd"] = todo["httpd"]
  BY <1>3, <1>4 DEF Tasks
<1>6. CASE t = "timer"
  <2>1. todo'["gdb"] = todo["gdb"] /\ \E v \in Outputs : todo'["timer"] = <<PortD(v)>>
    BY <1>1, <1>4, <1>6 DEF Tasks
  <2>2. Shapes'
    BY <1>2, <1>5, <2>1 DEF SerialInv, Shapes
  <2>3. ReleaseInv'
    <3>1. Due => Due'
      BY <1>2, <1>5, <2>1 DEF Due
    <3>2. QED BY <1>2, <3>1 DEF SerialInv, ReleaseInv, Asserted
  <2>4. PortDInv'
    BY <1>1, <1>2, <1>5, <1>6 DEF SerialInv, PortDInv
  <2>5. QED BY <1>4, <2>2, <2>3, <2>4 DEF SerialInv
<1>7. CASE t = "gdb"
  <2>1. todo'["timer"] = todo["timer"] /\ \E b \in BOOLEAN : todo'["gdb"] = <<Sreset(b)>>
    BY <1>1, <1>4, <1>7 DEF Tasks
  <2>2. Shapes'
    BY <1>2, <1>5, <2>1 DEF SerialInv, Shapes
  <2>3. ReleaseInv'
    <3>1. todo'["gdb"] # <<>>
      BY <2>1, Tuples
    <3>2. Due'
      BY <1>2, <1>4, <1>7, <3>1 DEF Due
    <3>3. QED BY <3>2 DEF ReleaseInv
  <2>4. PortDInv'
    BY <1>2, <1>5, <2>1 DEF SerialInv, PortDInv
  <2>5. QED BY <1>4, <2>2, <2>3, <2>4 DEF SerialInv
<1>8. QED BY <1>6, <1>7

LEMMA SerialImplies == ASSUME TypeOK, SerialInv PROVE PinsAsAsked
<1>1. "main" \in Tasks /\ "httpd" \in Tasks /\ "gdb" \in Tasks /\ "timer" \in Tasks
  BY DEF Tasks
<1> SUFFICES ASSUME Quiet PROVE PinsAsAsked
  BY DEF PinsAsAsked, ShadowMatches, NeverLeftAsserted, PortDAsAsked
<1>2. \A t \in Tasks : todo[t] = <<>> /\ pc[t] = "none"
  BY DEF Quiet, SerialInv, Alone, InRegisterCall
<1>3. fpga = [reg0 |-> reg0, reg1 |-> reg1]
  BY <1>1, <1>2, Stages DEF SerialInv, ShadowInv
<1>4. ~held => ~Asserted(reg0.sreset)
  BY <1>1, <1>2, Stages, PulseFacts DEF SerialInv, ReleaseInv, Due
<1>5. ~timer => reg1 = asked
  BY <1>1, <1>2, Distinct DEF SerialInv, PortDInv
<1>6. QED
  BY <1>3, <1>4, <1>5 DEF PinsAsAsked, ShadowMatches, NeverLeftAsserted, PortDAsAsked

LEMMA NextSerial ==
  ASSUME Overlap = FALSE, "bad_pulse" \notin Requests
  PROVE  TypeOK /\ SerialInv /\ [Next]_vars => SerialInv'
<1> SUFFICES ASSUME TypeOK, SerialInv, [Next]_vars PROVE SerialInv'
  OBVIOUS
<1>1. CASE UNCHANGED vars
  BY <1>1 DEF vars, SerialInv, Shapes, Alone, InRegisterCall, ShadowInv, ReleaseInv, Due,
     Asserted, PortDInv
<1>2. ASSUME NEW t \in Tasks, Registers(t) PROVE SerialInv'
  BY <1>2, LoadSerial, StoreSerial, OutputSerial, TransferSerial DEF Registers
<1>3. CASE Web
  <2>1. \A p \in {"low", "high"} : ~SresetConfigBadPulse(p)
    BY DEF SresetConfigBadPulse, Request
  <2>2. QED BY <1>3, <2>1, ResetsSerial, InputSerial, PortDSerial, StartSerial DEF Web
<1>4. CASE SpiMasterInit
  BY <1>4, StartSerial
<1>5. CASE Toggle \/ \E b \in BOOLEAN : GdbReset(b)
  BY <1>5, TickSerial
<1>6. QED BY <1>1, <1>2, <1>3, <1>4, <1>5 DEF Next

\* main.c: when no two tasks are in the register functions at once, and no request
\* sets the polarity and then fails, the shadow is what the FPGA has, the target is
\* not left in reset, and Port D is what was last asked for, also with requests
\* during the boot.
THEOREM SerialPins ==
  ASSUME Overlap = FALSE, "bad_pulse" \notin Requests PROVE Spec => []PinsAsAsked
<1>1. TypeOK /\ SerialInv => PinsAsAsked
  BY SerialImplies
<1>2. QED BY <1>1, NextSerial, NextTyped, InitSerial, InitTyped, PTL DEF Spec

\* The same of the registers among the other parts of MCPins.tla, whatever these
\* are and do: only the register functions write the registers.
THEOREM SerialPinsOfAll ==
  ASSUME Overlap = FALSE, "bad_pulse" \notin Requests PROVE MCSpec => []SerialAsAsked
<1> DEFINE all == <<part, vars, jtagVars, swdVars, packetVars>>
           I == part = "serial" => TypeOK /\ SerialInv
<1>1. MCInit => I
  BY InitSerial, InitTyped DEF MCInit
<1>2. I /\ [MCNext]_all => I'
  <2> SUFFICES ASSUME I, [MCNext]_all PROVE I'
    OBVIOUS
  <2>1. CASE SerialNext
    BY <2>1, NextSerial, NextTyped DEF SerialNext
  <2>2. CASE OverlappingNext \/ JtagNext \/ SwdNext \/ PacketNext
    BY <2>2 DEF OverlappingNext, JtagNext, SwdNext, PacketNext
  <2>3. CASE UNCHANGED all
    BY <2>3, NextSerial, NextTyped
  <2>4. QED BY <2>1, <2>2, <2>3 DEF MCNext
<1>3. I => SerialAsAsked
  BY SerialImplies DEF SerialAsAsked
<1>4. QED BY <1>1, <1>2, <1>3, PTL DEF MCSpec

LEMMA LessThan == \E R : IsWellFoundedOn(R, Nat) /\ \A x, y \in Nat : <<x, y>> \in R <=> x < y
<1>1. \A x, y \in Nat : <<x, y>> \in OpToRel(<, Nat) <=> x < y
  BY DEF OpToRel
<1>2. QED BY <1>1, NatLessThanWellFounded

LEMMA Least == ASSUME NEW T, T \subseteq Nat, T # {} PROVE \E x \in T : \A y \in T : x <= y
<1>1. PICK R : IsWellFoundedOn(R, Nat) /\ \A x, y \in Nat : <<x, y>> \in R <=> x < y
  BY LessThan
<1>2. IsWellFoundedOn(R, Nat)
  BY <1>1
<1> HIDE <1>1
<1>3. \E x \in T : \A y \in T : ~ (<<y, x>> \in R)
  BY <1>2, WFMin
<1>5. PICK x \in T : \A y \in T : ~ (<<y, x>> \in R)
  BY <1>3
<1>4. \A y \in T : ~(y < x)
  BY <1>1, <1>5
<1>6. QED BY <1>4

LEMMA SetInduction ==
  ASSUME NEW S, 0 \in S, \A n \in Nat : n \in S => n + 1 \in S PROVE Nat \subseteq S
<1> SUFFICES ASSUME Nat \ S # {} PROVE FALSE
  OBVIOUS
<1>1. PICK m \in Nat \ S : \A y \in Nat \ S : m <= y
  <2> DEFINE T == Nat \ S
  <2>1. T # {} /\ T \subseteq Nat OBVIOUS
  <2> HIDE DEF T
  <2>2. \E x \in T : \A y \in T : x <= y
    BY <2>1, Least
  <2>3. QED BY <2>2 DEF T
<1>2. m # 0 /\ m - 1 \in Nat /\ m - 1 \notin Nat \ S
  BY <1>1
<1>3. QED BY <1>2

-----------------------------------------------------------------------------
(* Sums of sequences, by the sums of their beginnings.                       *)

Total(s) == FoldLeft(LAMBDA a, b : a + b, 0, s)

\* The recursion that a fold is defined by, on the sets of places D.
Folds(f, s, D) ==
  f = [t \in SUBSET D |-> IF t = {} THEN 0 ELSE f[t \ {Max(t)}] + s[Max(t)]]

FoldStep(f, s, t) == f[t] = IF t = {} THEN 0 ELSE f[t \ {Max(t)}] + s[Max(t)]

LEMMA FoldsAt ==
  ASSUME NEW s, NEW D, NEW f, Folds(f, s, D), NEW t, t \in SUBSET D PROVE FoldStep(f, s, t)
<1>1. PICK g : g = f
  OBVIOUS
<1>2. g = [u \in SUBSET D |-> IF u = {} THEN 0 ELSE f[u \ {Max(u)}] + s[Max(u)]]
  BY <1>1, Zenon DEF Folds
<1>3. g[t] = IF t = {} THEN 0 ELSE f[t \ {Max(t)}] + s[Max(t)]
  BY <1>2, Zenon
<1>4. QED BY <1>1, <1>3, Zenon DEF FoldStep

LEMMA MaxOfPlaces ==
  ASSUME NEW n \in Nat, NEW t \in SUBSET (1 .. n + 1), n + 1 \in t PROVE Max(t) = n + 1
<1>1. \A x \in t : x \in Int /\ x <= n + 1
  OBVIOUS
<1>2. \A x \in t : (\A y \in t : x >= y) <=> x = n + 1
  BY <1>1
<1>3. QED BY <1>2 DEF Max

LEMMA FoldsExist == ASSUME NEW s, NEW n \in Nat PROVE \E f : Folds(f, s, 1 .. n)
<1> DEFINE S == {m \in Nat : \E f : Folds(f, s, 1 .. m)}
<1>1. 0 \in S
  <2> DEFINE f == [t \in SUBSET (1 .. 0) |-> 0]
  <2>1. \A t \in SUBSET (1 .. 0) : t = {}
    OBVIOUS
  <2>2. Folds(f, s, 1 .. 0)
    BY <2>1 DEF Folds
  <2>3. QED BY <2>2
<1>2. ASSUME NEW m \in Nat, m \in S PROVE m + 1 \in S
  <2>1. PICK f : Folds(f, s, 1 .. m)
    BY <1>2
  <2> DEFINE g == [t \in SUBSET (1 .. m + 1) |->
                     IF m + 1 \in t THEN f[t \ {m + 1}] + s[m + 1] ELSE f[t]]
  <2>2. ASSUME NEW t \in SUBSET (1 .. m + 1)
        PROVE  g[t] = IF t = {} THEN 0 ELSE g[t \ {Max(t)}] + s[Max(t)]
    <3>1. CASE m + 1 \in t
      <4>1. Max(t) = m + 1
        BY <3>1, MaxOfPlaces
      <4>2. t \ {m + 1} \in SUBSET (1 .. m + 1) /\ m + 1 \notin t \ {m + 1}
        OBVIOUS
      <4>3. g[t] = f[t \ {m + 1}] + s[m + 1] /\ g[t \ {m + 1}] = f[t \ {m + 1}]
        BY <3>1, <4>2
      <4>4. t # {}
        BY <3>1
      <4>5. QED BY <4>1, <4>3, <4>4
    <3>2. CASE m + 1 \notin t
      <4>1. t \in SUBSET (1 .. m)
        BY <3>2
      <4>2. f[t] = IF t = {} THEN 0 ELSE f[t \ {Max(t)}] + s[Max(t)]
        <5>1. FoldStep(f, s, t)
          BY <2>1, <4>1, FoldsAt
        <5>2. QED BY <5>1 DEF FoldStep
      <4>3. \A x : t \ {x} \in SUBSET (1 .. m + 1) /\ m + 1 \notin t \ {x}
        BY <3>2
      <4>4. \A x : g[t \ {x}] = f[t \ {x}]
        BY <4>3
      <4>5. g[t] = f[t]
        BY <3>2
      <4> HIDE DEF g
      <4>6. QED BY <4>2, <4>4, <4>5
    <3>3. QED BY <3>1, <3>2
  <2>3. Folds(g, s, 1 .. m + 1)
    <3>1. g = [t \in SUBSET (1 .. m + 1) |-> g[t]]
      OBVIOUS
    <3> HIDE DEF g
    <3>2. QED BY <2>2, <3>1 DEF Folds
  <2>4. QED BY <2>3
<1>3. Nat \subseteq S
  <2> HIDE DEF S
  <2>1. QED BY <1>1, <1>2, SetInduction
<1>4. QED BY <1>3

\* The sums of the first i elements.
Sums(g, s, n) ==
  /\ g[0] = 0
  /\ \A i \in 0 .. n : g[i] \in Int
  /\ \A i \in 1 .. n : g[i] = g[i - 1] + s[i]

LEMMA TotalSums ==
  ASSUME NEW n \in Nat, NEW s, DOMAIN s = 1 .. n, \A i \in 1 .. n : s[i] \in Int
  PROVE  \E g : Sums(g, s, n) /\ Total(s) = g[n]
<1> DEFINE f == CHOOSE f : f = [t \in SUBSET (1 .. n) |->
                  IF t = {} THEN 0 ELSE f[t \ {Max(t)}] + s[Max(t)]]
<1>1. Total(s) = f[1 .. n]
  BY DEF Total, FoldLeft, MapThenFoldSet
<1>2. Folds(f, s, 1 .. n)
  <2>1. \E h : h = [t \in SUBSET (1 .. n) |->
                  IF t = {} THEN 0 ELSE h[t \ {Max(t)}] + s[Max(t)]]
    BY FoldsExist DEF Folds
  <2>2. QED BY <2>1 DEF Folds
<1> HIDE DEF f
<1> DEFINE g == [i \in 0 .. n |-> f[1 .. i]]
<1>3. g[0] = 0
  <2>1. (1 .. 0) = {} /\ {} \in SUBSET (1 .. n)
    OBVIOUS
  <2>2. f[{}] = 0
    <3>1. FoldStep(f, s, {})
      BY <1>2, <2>1, FoldsAt
    <3>2. QED BY <3>1 DEF FoldStep
  <2>3. QED BY <2>1, <2>2
<1>4. ASSUME NEW i \in 1 .. n PROVE g[i] = g[i - 1] + s[i]
  <2> DEFINE k == i - 1
             t == 1 .. i
  <2>1. k \in Nat /\ i = k + 1 /\ t \in SUBSET (1 .. k + 1) /\ k + 1 \in t /\ t # {}
        /\ t \in SUBSET (1 .. n)
    OBVIOUS
  <2>2. Max(t) = i
    <3> HIDE DEF k, t
    <3>1. QED BY <2>1, MaxOfPlaces
  <2>3. t \ {i} = 1 .. i - 1
    OBVIOUS
  <2>4. f[t] = f[t \ {Max(t)}] + s[Max(t)]
    <3> HIDE DEF t
    <3>1. FoldStep(f, s, t)
      BY <1>2, <2>1, FoldsAt
    <3>2. QED BY <2>1, <3>1 DEF FoldStep
  <2>5. g[i] = f[t] /\ g[i - 1] = f[1 .. i - 1]
    OBVIOUS
  <2> HIDE DEF g, t, k
  <2>6. QED BY <2>2, <2>3, <2>4, <2>5
<1>5. Total(s) = g[n]
  BY <1>1
<1>6. \A i \in 0 .. n : g[i] \in Int
  <2> DEFINE S == {i \in Nat : i <= n => g[i] \in Int}
  <2> HIDE DEF g
  <2>1. 0 \in S
    BY <1>3
  <2>2. ASSUME NEW i \in Nat, i \in S PROVE i + 1 \in S
    <3> SUFFICES ASSUME i + 1 <= n PROVE g[i + 1] \in Int
      OBVIOUS
    <3>1. i + 1 \in 1 .. n /\ (i + 1) - 1 = i /\ g[i] \in Int
      BY <2>2
    <3>2. g[i + 1] = g[i] + s[i + 1]
      BY <1>4, <3>1
    <3>3. QED BY <3>1, <3>2
  <2>3. Nat \subseteq S
    <3> HIDE DEF S
    <3>1. QED BY <2>1, <2>2, SetInduction
  <2>4. QED BY <2>3
<1> HIDE DEF g
<1>7. QED BY <1>3, <1>4, <1>5, <1>6 DEF Sums

\* Sequences of the same length that differ in one element, or in none.
LEMMA TotalDiffers ==
  ASSUME NEW n \in Nat, NEW s \in [1 .. n -> Int], NEW t \in [1 .. n -> Int],
         NEW j \in 0 .. n, \A i \in 1 .. n : i # j => s[i] = t[i]
  PROVE  Total(s) \in Int /\ Total(t) = Total(s) + IF j = 0 THEN 0 ELSE t[j] - s[j]
<1>10. PICK g : Sums(g, s, n) /\ Total(s) = g[n]
  BY TotalSums
<1>11. PICK h : Sums(h, t, n) /\ Total(t) = h[n]
  BY TotalSums
<1> DEFINE d == IF j = 0 THEN 0 ELSE t[j] - s[j]
           S == {i \in Nat : i <= n => h[i] = g[i] + IF i < j THEN 0 ELSE d}
<1>0. d \in Int
  OBVIOUS
<1>1. 0 \in S
  <2>1. h[0] = 0 /\ g[0] = 0 /\ (0 < j \/ j = 0)
    BY <1>10, <1>11 DEF Sums
  <2>2. 0 = 0 + IF 0 < j THEN 0 ELSE d
    OBVIOUS
  <2>3. QED BY <2>1, <2>2
<1>2. ASSUME NEW i \in Nat, i \in S PROVE i + 1 \in S
  <2> SUFFICES ASSUME i + 1 <= n PROVE h[i + 1] = g[i + 1] + IF i + 1 < j THEN 0 ELSE d
    OBVIOUS
  <2>1. i + 1 \in 1 .. n /\ (i + 1) - 1 = i /\ i \in 0 .. n
    OBVIOUS
  <2>2. h[i + 1] = h[i] + t[i + 1] /\ g[i + 1] = g[i] + s[i + 1] /\ g[i] \in Int /\ h[i] \in Int
    BY <1>10, <1>11, <2>1 DEF Sums
  <2>3. h[i] = g[i] + IF i < j THEN 0 ELSE d
    BY <1>2
  <2>4. CASE i + 1 = j
    BY <1>0, <2>1, <2>2, <2>3, <2>4
  <2>5. CASE i + 1 # j
    <3>1. s[i + 1] = t[i + 1]
      BY <2>1, <2>5
    <3> HIDE DEF d
    <3>2. QED BY <1>0, <2>1, <2>2, <2>3, <2>5, <3>1
  <2>6. QED BY <2>4, <2>5
<1>3. Nat \subseteq S
  <2> HIDE DEF S
  <2>1. QED BY <1>1, <1>2, SetInduction
<1>4. n \in S /\ ~(n < j)
  BY <1>3
<1> HIDE DEF d
<1>5. h[n] = g[n] + d /\ g[n] \in Int
  BY <1>10, <1>4 DEF Sums
<1>6. QED BY <1>10, <1>11, <1>5 DEF d

LEMMA SumOfOnes ==
  ASSUME NEW n \in Nat, NEW s, NEW g, Sums(g, s, n), \A i \in 1 .. n : s[i] = 1
  PROVE  g[n] = n
<1> DEFINE S == {i \in Nat : i <= n => g[i] = i}
<1>1. 0 \in S
  BY DEF Sums
<1>2. ASSUME NEW i \in Nat, i \in S PROVE i + 1 \in S
  <2> SUFFICES ASSUME i + 1 <= n PROVE g[i + 1] = i + 1
    OBVIOUS
  <2>1. i + 1 \in 1 .. n /\ (i + 1) - 1 = i
    OBVIOUS
  <2>2. g[i + 1] = g[i] + s[i + 1]
    BY <2>1 DEF Sums
  <2>3. QED BY <1>2, <2>1, <2>2
<1>3. Nat \subseteq S
  <2> HIDE DEF S
  <2>1. QED BY <1>1, <1>2, SetInduction
<1>4. QED BY <1>3

LEMMA TotalOfOnes ==
  ASSUME NEW n \in Nat, NEW s \in [1 .. n -> Int], \A i \in 1 .. n : s[i] = 1
  PROVE  Total(s) = n
<1>1. PICK g : Sums(g, s, n) /\ Total(s) = g[n]
  BY TotalSums
<1>2. QED BY <1>1, SumOfOnes

-----------------------------------------------------------------------------
(* Transfers on the wires of SWD.  The cycles an end has still to make are   *)
(* told by their number: its plan says what it does when so many follow.     *)

Bits == Swd!WordBits
Turns == conf.turnaround
AckWords == {Swd!Ok, Swd!Wait, Swd!Fault}
Reads == Swd!IsRead(wanted.request)

Ahead(cycles, plan, n) == \A i \in 1 .. Len(cycles) : cycles[i] = plan[Len(cycles) - i + n]
Follows(cycles, plan) == \A i \in 1 .. Len(cycles) : cycles[i] = plan[Len(cycles) - i]

AskPlan(q) ==
  [r \in Nat |-> IF r < 3 THEN Swd!Reading ELSE IF r < Turns + 3 THEN Swd!Released
                 ELSE Swd!Packet(q)[Turns + 11 - r]]

\* A word and its parity.
Checked(w) == [i \in 1 .. Bits + 1 |-> IF i <= Bits THEN w[i] ELSE Swd!Parity(w)]

\* Cycles of the probe behind the acknowledge, those that idle the line last.
Idling(a) == IF a = Swd!Ok THEN conf.idle ELSE 0
RestPlan(a, q, d) ==
  [r \in Nat |->
     IF r < Idling(a) THEN 0
     ELSE IF a = Swd!Ok /\ Swd!IsRead(q)
          THEN (IF r < Idling(a) + Turns THEN Swd!Released ELSE Swd!Reading)
     ELSE IF a = Swd!Ok /\ r < Idling(a) + Bits + 1 THEN Checked(d)[Idling(a) + Bits + 1 - r]
     ELSE IF a \in {Swd!Wait, Swd!Fault} /\ conf.dataPhase /\ ~Swd!IsRead(q) /\ r < Bits + 1 THEN 0
     ELSE Swd!Released]

\* Cycles of the target behind its acknowledge, and the acknowledge before them.
Full == Turns + Bits + 1
TargetLength(a) == IF a = Swd!Ok \/ conf.dataPhase THEN Full ELSE Turns
TargetPlan(a, q, w) ==
  [r \in Nat |->
     IF r >= TargetLength(a) + 3 THEN Swd!Released
     ELSE IF r >= TargetLength(a) THEN a[TargetLength(a) + 3 - r]
     ELSE IF a = Swd!Ok /\ Swd!IsRead(q)
          THEN (IF r < Turns THEN Swd!Released ELSE Checked(w)[Full - r])
     ELSE IF a = Swd!Ok THEN (IF r < Bits + 1 THEN Swd!Reading ELSE Swd!Released)
     ELSE IF conf.dataPhase /\ Swd!IsRead(q) /\ r >= Turns THEN 0
     ELSE Swd!Released]

\* The probe keeps off the line.
OffPlan == [r \in Nat |-> Swd!Released]

\* Bits that were read, against those that were sent: one may be wrong.
Near(bits, sent, disturbed) ==
  /\ ~disturbed => \A i \in 1 .. Len(bits) : bits[i] = sent[i]
  /\ \A i, j \in 1 .. Len(bits) : i # j => bits[i] = sent[i] \/ bits[j] = sent[j]
Ones == [i \in Nat |-> 1]

SwdTyped ==
  /\ conf \in Configs /\ word \in [1 .. Bits -> {0, 1}]
  /\ probe \in Seq(0 .. 3) /\ target \in Seq(0 .. 3)
  /\ port \in {"ready", "request", "lost"}
  /\ heard \in Seq({0, 1}) /\ read \in Seq({0, 1})
  /\ noise \in BOOLEAN /\ transfers \in 0 .. MaxTransfers

InTransfer ==
  wanted.request \in Swd!AllRequests /\ wanted.data \in SwdWords
    /\ wanted.old \in [1 .. Bits -> {0, 1}]

\* Between two transfers.
Resting ==
  /\ probe = <<>> /\ target = <<>> /\ heard = <<>> /\ port \in {"ready", "lost"}
  /\ \/ wanted.request = <<>> /\ ack = <<>> /\ read = <<>>
     \/ InTransfer /\ ack # <<>> /\ Swd!OkMeansDone /\ Swd!RefusedIsUntouched /\ Swd!InStep

\* The packet is sent, and the target takes it bit by bit.
Asking ==
  /\ InTransfer /\ ack = <<>> /\ read = <<>> /\ target = <<>> /\ served = <<>>
  /\ word = wanted.old
  /\ Follows(probe, AskPlan(wanted.request)) /\ Len(probe) \in Turns + 4 .. Turns + 11
  /\ Len(heard) = Turns + 11 - Len(probe)
  /\ port = IF heard = <<>> THEN "ready" ELSE "request"
  /\ Near(heard, Swd!Packet(wanted.request), noise)
  /\ heard # <<>> => heard[1] = 1
  /\ noise => \E i \in 1 .. Len(heard) : heard[i] # Swd!Packet(wanted.request)[i]

\* What the probe has read of an acknowledge.
AckSoFar(sent) ==
  /\ Len(read) = IF Len(probe) <= 3 THEN 3 - Len(probe) ELSE 0
  /\ Near(read, sent, noise)

\* The target does not answer: it listens for a packet where there is none, and
\* comes to no valid one before the transfer ends, or has given up.
Listens ==
  /\ noise
  /\ \/ /\ port = "ready" /\ heard = <<>>
        /\ IF ack = <<>> THEN Len(probe) \in Turns + 4 .. Turns + 10 ELSE Len(probe) >= 8
     \/ /\ port = "request" /\ Len(heard) \in 1 .. 7
        /\ Len(heard) = 7 => heard[7] = 1
        /\ IF ack = <<>> THEN Len(heard) + Len(probe) \in Turns + 4 .. Turns + 10
           ELSE Len(heard) + Len(probe) >= 8
Astray ==
  /\ InTransfer /\ target = <<>> /\ word = wanted.old /\ (served = <<>> \/ noise)
  /\ \/ ack = <<>> /\ Follows(probe, AskPlan(wanted.request)) /\ Len(probe) <= Turns + 11
        /\ AckSoFar(Ones)
     \/ /\ ack \notin AckWords \cup {<<>>}
        /\ Follows(probe, OffPlan) /\ Len(probe) <= Full
  /\ (port = "lost" /\ heard = <<>>) \/ Listens

\* The target has taken the packet and answers.
Answers == /\ InTransfer /\ reply \in AckWords /\ served = wanted.request /\ port = "ready"
           /\ Follows(target, TargetPlan(reply, wanted.request, word))
Answering ==
  /\ Answers /\ ack = <<>> /\ heard = <<>> /\ word = wanted.old
  /\ Follows(probe, AskPlan(wanted.request)) /\ Len(probe) <= Turns + 3
  /\ Len(target) = Len(probe) + TargetLength(reply)
  /\ AckSoFar(reply)

\* The data phase, seen alike by both ends.
DataRead ==
  /\ heard = <<>> /\ word = wanted.old
  /\ Len(read) = IF Len(target) >= Turns THEN Full - Len(target) ELSE Bits + 1
  /\ Near(read, Checked(word), noise)
DataHeard(sent, disturbed) ==
  /\ Len(heard) = IF Len(target) > Bits + 1 \/ target = <<>> THEN 0 ELSE Bits + 1 - Len(target)
  /\ Near(heard, sent, disturbed)
DataWritten ==
  /\ DataHeard(Checked(wanted.data), noise)
  /\ word \in IF target = <<>> THEN {wanted.old, wanted.data} ELSE {wanted.old}
Matching ==
  /\ Answers /\ ack = reply
  /\ Follows(probe, RestPlan(ack, wanted.request, wanted.data))
  /\ Len(probe) <= TargetLength(reply) + Idling(ack)
  /\ Len(target) = IF Len(probe) >= Idling(ack) THEN Len(probe) - Idling(ack) ELSE 0
  /\ IF ack # Swd!Ok THEN heard = <<>> /\ word = wanted.old
     ELSE IF Reads THEN DataRead ELSE DataWritten

\* The acknowledge was disturbed: the probe keeps off the line.
Mismatched ==
  /\ Answers /\ ack \notin AckWords \cup {<<>>} /\ noise /\ word = wanted.old
  /\ Follows(probe, OffPlan) /\ Len(probe) <= Full
  /\ target # <<>>
  /\ Len(probe) = Len(target) + IF TargetLength(reply) = Full THEN 0 ELSE Bits + 1
  /\ IF reply = Swd!Ok /\ ~Reads THEN DataHeard(Ones, FALSE) ELSE heard = <<>>

\* What holds between any two steps, with SwdTyped: a transfer is in one of
\* these stages.
SwdStages == Resting \/ Asking \/ Astray \/ Answering \/ Matching \/ Mismatched
\* A cycle in which the ends read this bit.
Sent(bit) ==
  /\ Swd!Clock(bit)
  /\ \/ bit = Swd!Line /\ noise' = noise
     \/ ~noise /\ noise' = TRUE /\ bit = 1 - Swd!Line /\ (ack = Swd!Ok => Len(probe) > conf.idle)

LEMMA WireFacts ==
  /\ Bits \in Nat /\ Bits >= 8 /\ Bits % 2 = 0
  /\ SwdWords # {} /\ \A w \in SwdWords : w \in [1 .. Bits -> {0, 1}]
  /\ \A c \in Configs : c.turnaround \in 1 .. 4 /\ c.dataPhase \in BOOLEAN /\ c.idle \in Nat
  /\ MaxTransfers \in Nat
BY SwdAssumption DEF Swd!WireAssumption, Bits, Swd!Bit

LEMMA FunctionIsSeq ==
  ASSUME NEW S, NEW n \in Nat, NEW f \in [1 .. n -> S] PROVE f \in Seq(S) /\ Len(f) = n
<1>1. f \in Seq(S)
  BY SeqDef
<1>2. DOMAIN f = 1 .. n
  OBVIOUS
<1>3. QED BY <1>1, <1>2, LenProperties

\* Some elements of a sequence.
PartIs(s, m, n, k, S) ==
  SubSeq(s, m, n) \in [1 .. k -> S] /\ \A i \in 1 .. k : SubSeq(s, m, n)[i] = s[m + i - 1]

LEMMA PartOfSeq ==
  ASSUME NEW S, NEW s \in Seq(S), NEW m \in Nat, NEW n \in Nat, m >= 1, n <= Len(s),
         NEW k, k = n - m + 1
  PROVE  PartIs(s, m, n, k, S)
<1>1. \A i \in m .. n : s[i] \in S
  BY LenProperties
<1>2. m \in Int /\ n \in Int
  OBVIOUS
<1>3. /\ SubSeq(s, m, n) \in Seq(S) /\ Len(SubSeq(s, m, n)) = IF m <= n THEN n - m + 1 ELSE 0
      /\ \A i \in 1 .. n - m + 1 : SubSeq(s, m, n)[i] = s[m + i - 1]
  BY <1>1, <1>2, SubSeqProperties
<1>4. SubSeq(s, m, n) \in [1 .. Len(SubSeq(s, m, n)) -> S]
  BY <1>3, LenProperties
<1>5. CASE m <= n
  BY <1>3, <1>4, <1>5 DEF PartIs
<1>6. CASE ~(m <= n)
  <2>1. 1 .. n - m + 1 = {} /\ 1 .. 0 = {}
    BY <1>6
  <2>2. QED BY <1>3, <1>4, <1>6, <2>1 DEF PartIs
<1>7. QED BY <1>5, <1>6

\* One sequence behind another.
Joint(s, t, m, n) ==
  /\ Len(s \o t) = m + n
  /\ \A i \in 1 .. m : (s \o t)[i] = s[i]
  /\ \A i \in 1 .. n : (s \o t)[m + i] = t[i]

LEMMA Joining ==
  ASSUME NEW S, NEW s \in Seq(S), NEW t \in Seq(S), NEW m, NEW n, m = Len(s), n = Len(t)
  PROVE  s \o t \in Seq(S) /\ Joint(s, t, m, n)
<1>1. m \in Nat /\ n \in Nat
  BY LenProperties
<1>2. /\ s \o t \in Seq(S) /\ Len(s \o t) = m + n
      /\ \A i \in 1 .. m + n : (s \o t)[i] = IF i <= m THEN s[i] ELSE t[i - m]
  BY ConcatProperties
<1>3. ASSUME NEW i \in 1 .. m PROVE (s \o t)[i] = s[i]
  BY <1>1, <1>2
<1>4. ASSUME NEW i \in 1 .. n PROVE (s \o t)[m + i] = t[i]
  <2>1. m + i \in 1 .. m + n /\ ~(m + i <= m) /\ (m + i) - m = i
    BY <1>1
  <2>2. QED BY <1>2, <2>1
<1>5. QED BY <1>2, <1>3, <1>4 DEF Joint

LEMMA ParityIs == \A s : Swd!Parity(s) = Total(s) % 2
BY Zenon DEF Swd!Parity, Total, FoldLeft, Swd!FoldLeft, MapThenFoldSet, Swd!MapThenFoldSet,
         Max, Swd!Max

LEMMA ParityBit ==
  ASSUME NEW n \in Nat, NEW s \in [1 .. n -> {0, 1}] PROVE Swd!Parity(s) \in {0, 1}
<1>1. s \in [1 .. n -> Int] /\ 0 \in 0 .. n
  OBVIOUS
<1>2. Total(s) \in Int
  <2>1. \A i \in 1 .. n : i # 0 => s[i] = s[i]
    OBVIOUS
  <2>2. QED BY <1>1, <2>1, TotalDiffers
<1>3. QED BY <1>2, ParityIs

\* One wrong bit changes the parity.
LEMMA ParityChanges ==
  ASSUME NEW n \in Nat, NEW s \in [1 .. n -> {0, 1}], NEW t \in [1 .. n -> {0, 1}],
         NEW j \in 1 .. n, s[j] # t[j], \A i \in 1 .. n : i # j => s[i] = t[i]
  PROVE  Swd!Parity(s) # Swd!Parity(t)
<1>1. s \in [1 .. n -> Int] /\ t \in [1 .. n -> Int] /\ j \in 0 .. n /\ j # 0
  OBVIOUS
<1>2. Total(s) \in Int /\ Total(t) = Total(s) + IF j = 0 THEN 0 ELSE t[j] - s[j]
  BY <1>1, TotalDiffers
<1>3. t[j] - s[j] \in {-1, 1}
  OBVIOUS
<1>4. Total(t) = Total(s) + 1 \/ Total(t) = Total(s) - 1
  BY <1>1, <1>2, <1>3
<1>5. Total(s) % 2 # Total(t) % 2
  <2> DEFINE a == Total(s)
             b == Total(t)
  <2>1. a \in Int /\ (b = a + 1 \/ b = a - 1)
    BY <1>2, <1>4
  <2> HIDE DEF a, b
  <2>2. a % 2 # b % 2
    BY <2>1
  <2>3. QED BY <2>2 DEF a, b
<1>6. QED BY <1>5, ParityIs

\* The bits of an open line: an even number of ones.
LEMMA ParityOfOnes ==
  ASSUME NEW n \in Nat, n % 2 = 0, NEW s \in [1 .. n -> {0, 1}], \A i \in 1 .. n : s[i] = 1
  PROVE  Swd!Parity(s) = 0
<1>1. s \in [1 .. n -> Int]
  OBVIOUS
<1>2. QED BY <1>1, TotalOfOnes, ParityIs

LEMMA PacketBits ==
  ASSUME NEW q \in Swd!AllRequests
  PROVE  /\ Swd!Packet(q) \in Seq({0, 1}) /\ Len(Swd!Packet(q)) = 8
         /\ Swd!Packet(q)[1] = 1 /\ \A i \in 1 .. 4 : Swd!Packet(q)[i + 1] = q[i]
         /\ Swd!Packet(q)[6] = Swd!Parity(q) /\ Swd!Packet(q)[7] = 0 /\ Swd!Packet(q)[8] = 1
<1>1. q \in [1 .. 4 -> {0, 1}] /\ q \in Seq({0, 1}) /\ Len(q) = 4
  <2>1. q \in [1 .. 4 -> {0, 1}]
    BY DEF Swd!AllRequests, Swd!Bit
  <2>2. QED BY <2>1, FunctionIsSeq
<1>2. Swd!Parity(q) \in {0, 1}
  BY <1>1, ParityBit
<1> DEFINE p == Swd!Parity(q)
           a == <<1>>
           c == <<p, 0, 1>>
<1> HIDE DEF p
<1>3. p \in {0, 1}
  BY <1>2 DEF p
<1>4. a \in Seq({0, 1}) /\ Len(a) = 1 /\ a[1] = 1
  OBVIOUS
<1>5. c \in Seq({0, 1}) /\ Len(c) = 3 /\ c[1] = p /\ c[2] = 0 /\ c[3] = 1
  BY <1>3
<1>6. Swd!Packet(q) = (a \o q) \o c
  BY DEF Swd!Packet, p
<1> HIDE DEF a, c
<1> DEFINE b == a \o q
<1>7. /\ b \in Seq({0, 1}) /\ Len(b) = 5 /\ \A i \in 1 .. 1 : b[i] = a[i]
      /\ \A i \in 1 .. 4 : b[1 + i] = q[i]
  <2>1. b \in Seq({0, 1}) /\ Joint(a, q, 1, 4)
    BY <1>1, <1>4, Joining
  <2>2. QED BY <2>1 DEF Joint
<1> HIDE DEF b
<1>8. /\ b \o c \in Seq({0, 1}) /\ Len(b \o c) = 8
      /\ \A i \in 1 .. 5 : (b \o c)[i] = b[i]
      /\ \A i \in 1 .. 3 : (b \o c)[5 + i] = c[i]
  <2>1. b \o c \in Seq({0, 1}) /\ Joint(b, c, 5, 3)
    BY <1>5, <1>7, Joining
  <2>2. QED BY <2>1 DEF Joint
<1>9. (b \o c)[1] = 1 /\ (b \o c)[6] = p /\ (b \o c)[7] = 0 /\ (b \o c)[8] = 1
  <2>1. (b \o c)[1] = b[1] /\ b[1] = a[1]
    BY <1>7, <1>8
  <2>2. (b \o c)[5 + 1] = c[1] /\ (b \o c)[5 + 2] = c[2] /\ (b \o c)[5 + 3] = c[3]
    BY <1>8
  <2>3. 5 + 1 = 6 /\ 5 + 2 = 7 /\ 5 + 3 = 8
    OBVIOUS
  <2>4. (b \o c)[6] = c[1] /\ (b \o c)[7] = c[2] /\ (b \o c)[8] = c[3]
    BY <2>2, <2>3
  <2>5. QED BY <1>4, <1>5, <2>1, <2>4
<1>10. ASSUME NEW i \in 1 .. 4 PROVE (b \o c)[i + 1] = q[i]
  <2>1. i + 1 \in 1 .. 5 /\ 1 + i = i + 1
    OBVIOUS
  <2>2. b[i + 1] = q[i]
    BY <1>7, <2>1
  <2>3. QED BY <1>8, <2>1, <2>2
<1>11. QED BY <1>6, <1>8, <1>9, <1>10 DEF b, p

LEMMA PacketRequest ==
  ASSUME NEW bits \in Seq({0, 1}), Len(bits) = 8
  PROVE  /\ SubSeq(bits, 2, 5) \in Swd!AllRequests
         /\ \A i \in 1 .. 4 : SubSeq(bits, 2, 5)[i] = bits[i + 1]
<1>1. PartIs(bits, 2, 5, 4, {0, 1})
  <2>1. 2 \in Nat /\ 5 \in Nat /\ 2 >= 1 /\ 5 <= Len(bits) /\ 4 = 5 - 2 + 1
    OBVIOUS
  <2>2. QED BY <2>1, PartOfSeq
<1>2. \A i \in 1 .. 4 : 2 + i - 1 = i + 1
  OBVIOUS
<1>3. QED BY <1>1, <1>2 DEF Swd!AllRequests, Swd!Bit, PartIs

\* A packet with one wrong bit behind the start bit, or with a stop bit that is
\* not low, is not valid; an undisturbed one is.
LEMMA PacketValid ==
  ASSUME NEW bits \in Seq({0, 1}), Len(bits) = 8
  PROVE  /\ bits[7] = 1 => ~Swd!Valid(bits)
         /\ \A q \in Swd!AllRequests : bits = Swd!Packet(q) =>
              Swd!Valid(bits) /\ SubSeq(bits, 2, 5) = q
         /\ SubSeq(bits, 2, 5) \in Swd!AllRequests
<1> DEFINE r == SubSeq(bits, 2, 5)
<1>1. r \in Swd!AllRequests /\ \A i \in 1 .. 4 : r[i] = bits[i + 1]
  BY PacketRequest
<1> HIDE DEF r
<1>2. Swd!Packet(r)[7] = 0
  BY <1>1, PacketBits
<1>3. bits[7] = 1 => ~Swd!Valid(bits)
  BY <1>2 DEF Swd!Valid, r
<1>4. ASSUME NEW q \in Swd!AllRequests, bits = Swd!Packet(q) PROVE Swd!Valid(bits) /\ r = q
  <2>1. \A i \in 1 .. 4 : r[i] = q[i]
    BY <1>1, <1>4, PacketBits
  <2>2. r = q
    BY <1>1, <2>1 DEF Swd!AllRequests
  <2>3. QED BY <1>4, <2>2 DEF Swd!Valid, r
<1>5. QED BY <1>1, <1>3, <1>4 DEF r

LEMMA PacketWrong ==
  ASSUME NEW q \in Swd!AllRequests, NEW bits \in Seq({0, 1}), Len(bits) = 8,
         NEW d, Near(bits, Swd!Packet(q), d),
         NEW j \in 1 .. 8, bits[j] # Swd!Packet(q)[j]
  PROVE  ~Swd!Valid(bits)
<1> DEFINE r == SubSeq(bits, 2, 5)
<1>1. r \in Swd!AllRequests /\ \A i \in 1 .. 4 : r[i] = bits[i + 1]
  BY PacketRequest
<1>2. \A i \in 1 .. 8 : i # j => bits[i] = Swd!Packet(q)[i]
  BY DEF Near
<1> SUFFICES ASSUME bits = Swd!Packet(r) PROVE FALSE
  BY DEF Swd!Valid
<1> HIDE DEF r
<1>3. /\ Swd!Packet(q)[1] = 1 /\ Swd!Packet(q)[6] = Swd!Parity(q)
      /\ Swd!Packet(q)[7] = 0 /\ Swd!Packet(q)[8] = 1
      /\ \A i \in 1 .. 4 : Swd!Packet(q)[i + 1] = q[i]
  BY PacketBits
<1>4. /\ bits[1] = 1 /\ bits[6] = Swd!Parity(r) /\ bits[7] = 0 /\ bits[8] = 1
  BY <1>1, PacketBits
<1>5. q \in [1 .. 4 -> {0, 1}] /\ r \in [1 .. 4 -> {0, 1}]
  BY <1>1 DEF Swd!AllRequests, Swd!Bit
<1>6. CASE j \in 2 .. 5
  <2> DEFINE i == j - 1
  <2>1. i \in 1 .. 4 /\ i + 1 = j
    BY <1>6
  <2>2. r[i] # q[i] /\ \A k \in 1 .. 4 : k # i => r[k] = q[k]
    BY <1>1, <1>2, <1>3, <2>1
  <2> HIDE DEF i
  <2>3. Swd!Parity(r) # Swd!Parity(q)
    BY <1>5, <2>1, <2>2, ParityChanges
  <2>4. 6 # j /\ 6 \in 1 .. 8
    BY <1>6
  <2>5. QED BY <1>2, <1>3, <1>4, <2>3, <2>4
<1>7. CASE j = 6
  <2>1. \A i \in 1 .. 4 : r[i] = q[i]
    BY <1>1, <1>2, <1>3, <1>7
  <2>2. r = q
    BY <1>5, <2>1
  <2>3. QED BY <1>3, <1>4, <1>7, <2>2
<1>8. CASE j \in {1, 7, 8}
  BY <1>3, <1>4, <1>8
<1>9. QED BY <1>6, <1>7, <1>8

\* A word whose parity fits was read as it was sent, if at most one bit is wrong.
LEMMA WordRead ==
  ASSUME NEW w \in [1 .. Bits -> {0, 1}], NEW bits \in Seq({0, 1}), Len(bits) = Bits + 1,
         NEW d, Near(bits, Checked(w), d)
  PROVE  /\ SubSeq(bits, 1, Bits) \in [1 .. Bits -> {0, 1}]
         /\ Swd!Parity(SubSeq(bits, 1, Bits)) = bits[Bits + 1] => SubSeq(bits, 1, Bits) = w
<1> DEFINE v == SubSeq(bits, 1, Bits)
<1>1. v \in [1 .. Bits -> {0, 1}] /\ \A i \in 1 .. Bits : v[i] = bits[i]
  <2>1. Bits \in Nat /\ 1 \in Nat /\ 1 >= 1 /\ Bits <= Len(bits) /\ Bits = Bits - 1 + 1
    BY WireFacts
  <2>2. PartIs(bits, 1, Bits, Bits, {0, 1})
    BY <2>1, PartOfSeq
  <2>3. \A i \in 1 .. Bits : 1 + i - 1 = i
    BY <2>1
  <2>4. QED BY <2>2, <2>3 DEF PartIs
<1> HIDE DEF v
<1>2. /\ Bits \in Nat /\ Bits + 1 \in 1 .. Bits + 1 /\ Checked(w)[Bits + 1] = Swd!Parity(w)
      /\ \A i \in 1 .. Bits : i \in 1 .. Bits + 1 /\ i # Bits + 1 /\ Checked(w)[i] = w[i]
  BY WireFacts DEF Checked
<1>3. ASSUME Swd!Parity(v) = bits[Bits + 1], v # w PROVE FALSE
  <2>1. PICK j \in 1 .. Bits : v[j] # w[j]
    <3>1. v \in [1 .. Bits -> {0, 1}] /\ w \in [1 .. Bits -> {0, 1}] /\ v # w
      BY <1>1, <1>3
    <3>2. CASE \A j \in 1 .. Bits : v[j] = w[j]
      <4>1. v = [j \in 1 .. Bits |-> v[j]] /\ w = [j \in 1 .. Bits |-> w[j]]
        BY <3>1
      <4>2. [j \in 1 .. Bits |-> v[j]] = [j \in 1 .. Bits |-> w[j]]
        BY <3>2
      <4>3. QED BY <3>1, <4>1, <4>2
    <3>3. QED BY <3>2
  <2>2. \A i \in 1 .. Bits + 1 : i # j => bits[i] = Checked(w)[i]
    BY <1>1, <1>2, <2>1 DEF Near
  <2>3. \A i \in 1 .. Bits : i # j => v[i] = w[i]
    BY <1>1, <1>2, <2>2
  <2>4. Swd!Parity(v) # Swd!Parity(w)
    BY <1>1, <1>2, <2>1, <2>3, ParityChanges
  <2>5. QED BY <1>2, <1>3, <2>2, <2>4
<1>4. QED BY <1>1, <1>3 DEF v

\* A stretch of m cycles, with n that follow it, is as planned.
Stretch(cycles, plan, n, m) ==
  /\ cycles \in Seq(0 .. 3) /\ Len(cycles) = m
  /\ \A i \in 1 .. m : cycles[i] = plan[m - i + n]

LEMMA StretchNone == \A plan, n : Stretch(<<>>, plan, n, 0)
BY DEF Stretch

\* Cycles that are all alike.
Alike(s, m, c) == s \in [1 .. m -> 0 .. 3] /\ \A i \in 1 .. m : s[i] = c

LEMMA StretchSame ==
  ASSUME NEW m \in Nat, NEW n \in Nat, NEW c \in 0 .. 3, NEW plan,
         \A r \in n .. n + m - 1 : plan[r] = c,
         NEW s, Alike(s, m, c)
  PROVE  Stretch(s, plan, n, m)
<1>1. ASSUME NEW i \in 1 .. m PROVE s[i] = plan[m - i + n]
  <2>1. m - i + n \in n .. n + m - 1
    OBVIOUS
  <2>2. QED BY <2>1 DEF Alike
<1>2. s \in Seq(0 .. 3) /\ Len(s) = m
  BY FunctionIsSeq DEF Alike
<1>3. QED BY <1>1, <1>2 DEF Stretch

LEMMA StretchJoined ==
  ASSUME NEW plan, NEW n \in Nat, NEW k \in Nat, NEW m \in Nat, NEW s, NEW t,
         NEW l, l = n + k, Stretch(s, plan, l, m), Stretch(t, plan, n, k), NEW x, x = m + k
  PROVE  Stretch(s \o t, plan, n, x)
<1>1. s \in Seq(0 .. 3) /\ t \in Seq(0 .. 3) /\ m = Len(s) /\ k = Len(t)
  BY DEF Stretch
<1>2. s \o t \in Seq(0 .. 3) /\ Joint(s, t, m, k)
  BY <1>1, Joining
<1>3. ASSUME NEW i \in 1 .. m + k PROVE (s \o t)[i] = plan[m + k - i + n]
  <2>1. CASE i <= m
    <3>1. i \in 1 .. m /\ m - i + l = m + k - i + n
      BY <2>1
    <3>2. (s \o t)[i] = s[i] /\ s[i] = plan[m - i + l]
      BY <1>2, <3>1 DEF Joint, Stretch
    <3>3. QED BY <3>1, <3>2
  <2>2. CASE ~(i <= m)
    <3> DEFINE j == i - m
    <3>1. j \in 1 .. k /\ m + j = i /\ k - j + n = m + k - i + n
      BY <2>2
    <3> HIDE DEF j
    <3>2. (s \o t)[m + j] = t[j] /\ t[j] = plan[k - j + n]
      BY <1>2, <3>1 DEF Joint, Stretch
    <3>3. QED BY <3>1, <3>2
  <2>3. QED BY <2>1, <2>2
<1>4. QED BY <1>2, <1>3 DEF Stretch, Joint

LEMMA StretchFollows ==
  ASSUME NEW s, NEW plan, NEW m \in Nat, Stretch(s, plan, 0, m)
  PROVE  s \in Seq(0 .. 3) /\ Len(s) = m /\ Follows(s, plan)
<1>1. \A i \in 1 .. m : m - i + 0 = m - i
  OBVIOUS
<1>2. QED BY <1>1 DEF Stretch, Follows

\* The next cycle is as planned, and so are those behind it.
LEMMA NextCycle ==
  ASSUME NEW s \in Seq(0 .. 3), s # <<>>, NEW plan, Follows(s, plan)
  PROVE  /\ Head(s) = plan[Len(s) - 1] /\ Tail(s) \in Seq(0 .. 3) /\ Len(Tail(s)) = Len(s) - 1
         /\ Follows(Tail(s), plan) /\ Len(s) \in Nat /\ Len(s) >= 1
         /\ Tail(s) = <<>> <=> Len(s) = 1
<1>1. Len(s) \in Nat /\ Len(s) >= 1 /\ Head(s) = s[1]
  <2>1. Len(s) \in Nat /\ Len(s) # 0
    BY EmptySeq
  <2>2. QED BY <2>1
<1>2. s[1] = plan[Len(s) - 1]
  BY <1>1 DEF Follows
<1> DEFINE t == Tail(s)
           n == Len(s)
<1>3. t \in Seq(0 .. 3) /\ Len(t) = n - 1 /\ \A i \in 1 .. n - 1 : t[i] = s[i + 1]
  BY HeadTailProperties
<1>4. ASSUME NEW i \in 1 .. Len(t) PROVE t[i] = plan[Len(t) - i]
  <2>1. i + 1 \in 1 .. n /\ n - (i + 1) = Len(t) - i /\ i \in 1 .. n - 1
    BY <1>1, <1>3
  <2>2. s[i + 1] = plan[n - (i + 1)]
    BY <2>1 DEF Follows
  <2>3. QED BY <1>3, <2>1, <2>2
<1>5. Follows(t, plan)
  BY <1>4 DEF Follows
<1>6. t = <<>> <=> Len(t) = 0
  BY <1>3, EmptySeq
<1>7. QED BY <1>1, <1>2, <1>3, <1>5, <1>6

LEMMA CodeFacts ==
  /\ Swd!Reading = 2 /\ Swd!Released = 3
  /\ Swd!Ok = <<1, 0, 0>> /\ Swd!Wait = <<0, 1, 0>> /\ Swd!Fault = <<0, 0, 1>>
  /\ Swd!Ok # Swd!Wait /\ Swd!Ok # Swd!Fault /\ Swd!Wait # Swd!Fault
BY DEF Swd!Reading, Swd!Released, Swd!Ok, Swd!Wait, Swd!Fault

LEMMA ConfFacts == conf \in Configs => Turns \in 1 .. 4 /\ conf.dataPhase \in BOOLEAN /\ conf.idle \in Nat
BY WireFacts DEF Turns

LEMMA RequestPlanned ==
  ASSUME conf \in Configs, NEW q \in Swd!AllRequests
  PROVE  Stretch(Swd!RequestCycles(q), AskPlan(q), 0, Turns + 11)
<1>1. Turns \in 1 .. 4
  BY ConfFacts
<1> DEFINE plan == AskPlan(q)
<1>2. ASSUME NEW r \in Nat
      PROVE  /\ r < 3 => plan[r] = 2
             /\ r >= 3 /\ r < Turns + 3 => plan[r] = 3
             /\ r >= Turns + 3 => plan[r] = Swd!Packet(q)[Turns + 11 - r]
  BY <1>1, CodeFacts DEF AskPlan
<1> HIDE DEF plan
<1>3. Stretch(Swd!In(3), plan, 0, 3)
  <2>1. 0 \in Nat /\ 3 \in Nat /\ 2 \in 0 .. 3 /\ \A r \in 0 .. 0 + 3 - 1 : plan[r] = 2
    BY <1>2
  <2>2. Alike(Swd!In(3), 3, 2)
    BY CodeFacts DEF Alike, Swd!In
  <2>3. QED BY <2>1, <2>2, StretchSame, Zenon
<1>4. Stretch(Swd!Turn, plan, 3, Turns)
  <2>1. \A r \in 3 .. 3 + Turns - 1 : plan[r] = 3
    BY <1>1, <1>2
  <2>2. Alike(Swd!Turn, Turns, 3)
    BY CodeFacts DEF Alike, Swd!Off, Swd!Turn, Turns
  <2>3. QED BY <1>1, <2>1, <2>2, StretchSame
<1>5. Stretch(Swd!Packet(q), plan, Turns + 3, 8)
  <2>1. Swd!Packet(q) \in Seq({0, 1}) /\ Len(Swd!Packet(q)) = 8
    BY PacketBits
  <2>2. ASSUME NEW i \in 1 .. 8 PROVE Swd!Packet(q)[i] = plan[8 - i + (Turns + 3)]
    <3> DEFINE r == 8 - i + (Turns + 3)
    <3>1. r \in Nat /\ r >= Turns + 3 /\ Turns + 11 - r = i
      BY <1>1
    <3> HIDE DEF r
    <3>2. plan[r] = Swd!Packet(q)[i]
      BY <1>2, <3>1
    <3>3. QED BY <3>2 DEF r
  <2>3. Swd!Packet(q) \in Seq(0 .. 3)
    BY <2>1
  <2>4. QED BY <2>1, <2>2, <2>3 DEF Stretch
<1>6. Stretch(Swd!Packet(q) \o Swd!Turn, plan, 3, 8 + Turns)
  <2>1. Turns + 3 = 3 + Turns /\ 3 \in Nat /\ Turns \in Nat /\ 8 \in Nat
    BY <1>1
  <2>2. QED BY <1>4, <1>5, <2>1, StretchJoined
<1>7. Stretch(Swd!RequestCycles(q), plan, 0, 8 + Turns + 3)
  <2>1. 3 = 0 + 3 /\ 0 \in Nat /\ 3 \in Nat /\ 8 + Turns \in Nat
    BY <1>1
  <2>2. QED BY <1>3, <1>6, <2>1, StretchJoined DEF Swd!RequestCycles
<1>8. 8 + Turns + 3 = Turns + 11
  BY <1>1
<1>9. QED BY <1>7, <1>8 DEF plan

LEMMA AlikeCycles ==
  /\ \A n \in Nat : /\ Alike(Swd!In(n), n, 2) /\ Alike(Swd!Off(n), n, 3)
                    /\ Alike(Swd!Low(n), n, 0)
  /\ Alike(Swd!Turn, Turns, 3)
BY CodeFacts DEF Alike, Swd!In, Swd!Off, Swd!Low, Swd!Turn, Turns

LEMMA PlanOfRest ==
  ASSUME conf \in Configs, NEW q, NEW d, NEW a, NEW r \in Nat
  PROVE  /\ r < Idling(a) => RestPlan(a, q, d)[r] = 0
         /\ a = Swd!Ok /\ Swd!IsRead(q) /\ r >= Idling(a) =>
              RestPlan(a, q, d)[r] = IF r < Idling(a) + Turns THEN 3 ELSE 2
         /\ a = Swd!Ok /\ ~Swd!IsRead(q) /\ r >= Idling(a) =>
              RestPlan(a, q, d)[r] = IF r < Idling(a) + Bits + 1
                                     THEN Checked(d)[Idling(a) + Bits + 1 - r] ELSE 3
         /\ a \in {Swd!Wait, Swd!Fault} =>
              /\ Idling(a) = 0
              /\ RestPlan(a, q, d)[r] = IF conf.dataPhase /\ ~Swd!IsRead(q) /\ r < Bits + 1
                                        THEN 0 ELSE 3
         /\ Idling(a) \in Nat
<1>1. Idling(a) \in Nat /\ (a \in {Swd!Wait, Swd!Fault} => Idling(a) = 0 /\ a # Swd!Ok)
  BY ConfFacts, CodeFacts DEF Idling
<1> DEFINE i == Idling(a)
<1> HIDE DEF i
<1>2. i \in Nat /\ (a \in {Swd!Wait, Swd!Fault} => i = 0 /\ a # Swd!Ok)
  BY <1>1 DEF i
<1>3. RestPlan(a, q, d)[r] =
     IF r < i THEN 0
     ELSE IF a = Swd!Ok /\ Swd!IsRead(q) THEN (IF r < i + Turns THEN 3 ELSE 2)
     ELSE IF a = Swd!Ok /\ r < i + Bits + 1 THEN Checked(d)[i + Bits + 1 - r]
     ELSE IF a \in {Swd!Wait, Swd!Fault} /\ conf.dataPhase /\ ~Swd!IsRead(q) /\ r < Bits + 1 THEN 0
     ELSE 3
  BY CodeFacts DEF RestPlan, i
<1>4. QED BY <1>2, <1>3, ConfFacts, WireFacts DEF i

LEMMA CheckedWord ==
  ASSUME NEW w \in [1 .. Bits -> {0, 1}]
  PROVE  /\ Checked(w) \in [1 .. Bits + 1 -> {0, 1}]
         /\ \A i \in 1 .. Bits : Checked(w)[i] = w[i]
         /\ Checked(w)[Bits + 1] = Swd!Parity(w)
<1>1. Swd!Parity(w) \in {0, 1} /\ Bits \in Nat
  BY ParityBit, WireFacts
<1>2. QED BY <1>1 DEF Checked

\* A word and its parity, with n cycles behind them.
LEMMA StretchWord ==
  ASSUME NEW w \in [1 .. Bits -> {0, 1}], NEW n \in Nat, NEW plan,
         \A r \in n .. n + Bits : plan[r] = Checked(w)[n + Bits + 1 - r],
         NEW l, l = n + 1
  PROVE  Stretch(w, plan, l, Bits) /\ Stretch(<<Swd!Parity(w)>>, plan, n, 1)
<1>1. Bits \in Nat
  BY WireFacts
<1>2. Stretch(w, plan, l, Bits)
  <2>1. w \in Seq({0, 1}) /\ Len(w) = Bits
    BY <1>1, FunctionIsSeq
  <2>2. w \in Seq(0 .. 3)
    BY <2>1
  <2>3. ASSUME NEW i \in 1 .. Bits PROVE w[i] = plan[Bits - i + l]
    <3> DEFINE r == Bits - i + l
    <3>1. r \in n .. n + Bits /\ n + Bits + 1 - r = i
      BY <1>1
    <3> HIDE DEF r
    <3>2. plan[r] = Checked(w)[i] /\ Checked(w)[i] = w[i]
      BY <3>1, CheckedWord
    <3>3. QED BY <3>2 DEF r
  <2>4. QED BY <2>1, <2>2, <2>3 DEF Stretch
<1>3. Stretch(<<Swd!Parity(w)>>, plan, n, 1)
  <2>1. n \in n .. n + Bits /\ n + Bits + 1 - n = Bits + 1
    BY <1>1
  <2>2. plan[n] = Swd!Parity(w)
    BY <2>1, CheckedWord
  <2>3. Swd!Parity(w) \in {0, 1}
    BY <1>1, ParityBit
  <2> DEFINE p == Swd!Parity(w)
  <2> HIDE DEF p
  <2>4. p \in 0 .. 3 /\ plan[n] = p
    BY <2>2, <2>3 DEF p
  <2>5. <<p>> \in Seq(0 .. 3) /\ Len(<<p>>) = 1 /\ <<p>>[1] = p
    BY <2>4
  <2>6. \A i \in 1 .. 1 : <<p>>[i] = plan[1 - i + n]
    <3>1. 1 - 1 + n = n
      OBVIOUS
    <3>2. QED BY <2>4, <2>5, <3>1
  <2>7. Stretch(<<p>>, plan, n, 1)
    BY <2>5, <2>6 DEF Stretch
  <2>8. QED BY <2>7 DEF p
<1>4. QED BY <1>2, <1>3

LEMMA RestPlanned ==
  ASSUME conf \in Configs, NEW q \in Swd!AllRequests, NEW d \in SwdWords, NEW a
  PROVE  /\ a \in AckWords =>
              Stretch(Swd!Rest(a, q, d), RestPlan(a, q, d), 0, TargetLength(a) + Idling(a))
         /\ a \notin AckWords => Stretch(Swd!Rest(a, q, d), OffPlan, 0, Full)
<1>1. Turns \in 1 .. 4 /\ conf.idle \in Nat /\ Bits \in Nat /\ Idling(a) \in Nat /\ Turns \in Nat
  BY ConfFacts, WireFacts DEF Idling
<1>2. d \in [1 .. Bits -> {0, 1}]
  BY WireFacts
<1> DEFINE plan == RestPlan(a, q, d)
           n == Idling(a)
<1> HIDE DEF plan, n
<1>3. 0 \in 0 .. 3 /\ 2 \in 0 .. 3 /\ 3 \in 0 .. 3 /\ 0 \in Nat /\ n \in Nat /\ Bits + 1 \in Nat
  BY <1>1 DEF n
<1>4. CASE a = Swd!Ok
  <2>0. n = conf.idle /\ TargetLength(a) = Full
    BY <1>4 DEF n, Idling, TargetLength
  <2>9. a \notin {Swd!Wait, Swd!Fault} /\ Swd!IsRead(q) \in BOOLEAN
    BY <1>4, CodeFacts DEF Swd!IsRead
  <2>1. Stretch(Swd!Low(conf.idle), plan, 0, n)
    <3>1. \A r \in 0 .. 0 + n - 1 : plan[r] = 0
      BY <1>3, PlanOfRest DEF plan, n
    <3>2. Alike(Swd!Low(conf.idle), n, 0)
      BY <1>3, <2>0, AlikeCycles
    <3>3. QED BY <1>3, <3>1, <3>2, StretchSame, Zenon
  <2>2. CASE Swd!IsRead(q)
    <3>1. Stretch(Swd!Turn, plan, n, Turns)
      <4>1. \A r \in n .. n + Turns - 1 : plan[r] = 3
        <5>1. ASSUME NEW r \in n .. n + Turns - 1 PROVE plan[r] = 3
          <6>1. r \in Nat /\ r >= n /\ r < n + Turns
            BY <1>1, <1>3
          <6>2. QED BY <1>4, <2>2, <6>1, PlanOfRest DEF plan, n
        <5>2. QED BY <5>1
      <4>2. QED BY <1>1, <1>3, <4>1, AlikeCycles, StretchSame, Zenon
    <3>2. Stretch(Swd!In(Bits + 1), plan, n + Turns, Bits + 1)
      <4>1. \A r \in n + Turns .. n + Turns + (Bits + 1) - 1 : plan[r] = 2
        <5>1. ASSUME NEW r \in n + Turns .. n + Turns + (Bits + 1) - 1 PROVE plan[r] = 2
          <6>1. r \in Nat /\ r >= n /\ ~(r < n + Turns)
            BY <1>1, <1>3
          <6>2. QED BY <1>4, <2>2, <6>1, PlanOfRest DEF plan, n
        <5>2. QED BY <5>1
      <4>2. n + Turns \in Nat
        BY <1>1, <1>3
      <4>3. QED BY <1>1, <1>3, <4>1, <4>2, AlikeCycles, StretchSame, Zenon
    <3>3. Stretch(Swd!In(Bits + 1) \o Swd!Turn, plan, n, Full)
      <4>1. Full = (Bits + 1) + Turns
        BY <1>1 DEF Full
      <4>2. QED BY <1>1, <1>3, <3>1, <3>2, <4>1, StretchJoined
    <3>4. Stretch((Swd!In(Bits + 1) \o Swd!Turn) \o Swd!Low(conf.idle), plan, 0, Full + n)
      <4>1. Full \in Nat /\ n = 0 + n
        BY <1>1, <1>3 DEF Full
      <4>2. QED BY <1>1, <1>3, <2>1, <3>3, <4>1, StretchJoined
    <3>5. Swd!Rest(a, q, d) = (Swd!In(Bits + 1) \o Swd!Turn) \o Swd!Low(conf.idle)
      BY <1>4, <2>2, <2>9 DEF Swd!Rest, Bits
    <3>6. QED BY <1>4, <2>0, <3>4, <3>5 DEF plan, n, AckWords
  <2>3. CASE ~Swd!IsRead(q)
    <3>1. Stretch(<<Swd!Parity(d)>>, plan, n, 1) /\ Stretch(d, plan, n + 1, Bits)
      <4>1. \A r \in n .. n + Bits : plan[r] = Checked(d)[n + Bits + 1 - r]
        <5>1. ASSUME NEW r \in n .. n + Bits PROVE plan[r] = Checked(d)[n + Bits + 1 - r]
          <6>1. r \in Nat /\ r >= n /\ r < n + Bits + 1
            BY <1>1, <1>3
          <6>2. QED BY <1>4, <2>3, <6>1, PlanOfRest DEF plan, n
        <5>2. QED BY <5>1
      <4>2. QED BY <1>2, <1>3, <4>1, StretchWord
    <3>2. Stretch(Swd!Turn, plan, n + 1 + Bits, Turns)
      <4>1. \A r \in n + 1 + Bits .. n + 1 + Bits + Turns - 1 : plan[r] = 3
        <5>1. ASSUME NEW r \in n + 1 + Bits .. n + 1 + Bits + Turns - 1 PROVE plan[r] = 3
          <6>1. r \in Nat /\ r >= n /\ ~(r < n + Bits + 1)
            BY <1>1, <1>3
          <6>2. QED BY <1>4, <2>3, <6>1, PlanOfRest DEF plan, n
        <5>2. QED BY <5>1
      <4>2. n + 1 + Bits \in Nat
        BY <1>1, <1>3
      <4>3. QED BY <1>1, <1>3, <4>1, <4>2, AlikeCycles, StretchSame, Zenon
    <3>3. Stretch(Swd!Turn \o d, plan, n + 1, Turns + Bits)
      <4>1. n + 1 \in Nat
        BY <1>3
      <4>2. QED BY <1>1, <3>1, <3>2, <4>1, StretchJoined
    <3>4. Stretch((Swd!Turn \o d) \o <<Swd!Parity(d)>>, plan, n, Full)
      <4>1. Full = (Turns + Bits) + 1 /\ Turns + Bits \in Nat /\ 1 \in Nat
        BY <1>1 DEF Full
      <4>2. QED BY <1>3, <3>1, <3>3, <4>1, StretchJoined
    <3>5. Stretch(((Swd!Turn \o d) \o <<Swd!Parity(d)>>) \o Swd!Low(conf.idle), plan, 0, Full + n)
      <4>1. Full \in Nat /\ n = 0 + n
        BY <1>1, <1>3 DEF Full
      <4>2. QED BY <1>1, <1>3, <2>1, <3>4, <4>1, StretchJoined
    <3>6. Swd!Rest(a, q, d) = ((Swd!Turn \o d) \o <<Swd!Parity(d)>>) \o Swd!Low(conf.idle)
      BY <1>4, <2>3, <2>9 DEF Swd!Rest
    <3>7. QED BY <1>4, <2>0, <3>5, <3>6 DEF plan, n, AckWords
  <2>4. QED BY <2>2, <2>3
<1>5. CASE a \in {Swd!Wait, Swd!Fault}
  <2> DEFINE before == IF conf.dataPhase /\ Swd!IsRead(q) THEN Swd!Off(Bits + 1) ELSE <<>>
             behind == IF conf.dataPhase /\ ~Swd!IsRead(q) THEN Swd!Low(Bits + 1) ELSE <<>>
             m == IF conf.dataPhase /\ Swd!IsRead(q) THEN Bits + 1 ELSE 0
             k == IF conf.dataPhase /\ ~Swd!IsRead(q) THEN Bits + 1 ELSE 0
  <2>0. /\ a # Swd!Ok /\ m \in Nat /\ k \in Nat /\ n = 0
        /\ conf.dataPhase \in BOOLEAN /\ Swd!IsRead(q) \in BOOLEAN
        /\ TargetLength(a) = m + Turns + k
    BY <1>1, <1>3, <1>5, CodeFacts, ConfFacts DEF TargetLength, Full, n, Idling, Swd!IsRead
  <2>9. \A r \in Nat : plan[r] = IF conf.dataPhase /\ ~Swd!IsRead(q) /\ r < Bits + 1 THEN 0 ELSE 3
    BY <1>5, PlanOfRest DEF plan
  <2>1. Stretch(behind, plan, 0, k)
    <3>1. CASE conf.dataPhase /\ ~Swd!IsRead(q)
      <4>1. \A r \in 0 .. 0 + (Bits + 1) - 1 : plan[r] = 0
        BY <1>1, <2>9, <3>1
      <4>2. Alike(Swd!Low(Bits + 1), Bits + 1, 0)
        BY <1>3, AlikeCycles
      <4>3. Stretch(Swd!Low(Bits + 1), plan, 0, Bits + 1)
        BY <1>3, <4>1, <4>2, StretchSame, Zenon
      <4>4. QED BY <3>1, <4>3
    <3>2. CASE ~(conf.dataPhase /\ ~Swd!IsRead(q))
      BY <3>2, StretchNone
    <3>3. QED BY <3>1, <3>2
  <2>2. Stretch(Swd!Turn, plan, k, Turns)
    <3>1. \A r \in k .. k + Turns - 1 : plan[r] = 3
      BY <1>1, <2>9
    <3> HIDE DEF k
    <3>2. QED BY <1>1, <1>3, <2>0, <3>1, AlikeCycles, StretchSame, Zenon
  <2>3. Stretch(before, plan, Turns + k, m)
    <3>1. CASE conf.dataPhase /\ Swd!IsRead(q)
      <4>1. \A r \in Turns + k .. Turns + k + (Bits + 1) - 1 : plan[r] = 3
        BY <1>1, <2>9, <3>1
      <4>2. Alike(Swd!Off(Bits + 1), Bits + 1, 3)
        BY <1>3, AlikeCycles
      <4>5. Turns + k \in Nat
        BY <1>1, <2>0
      <4> HIDE DEF k
      <4>3. Stretch(Swd!Off(Bits + 1), plan, Turns + k, Bits + 1)
        BY <1>3, <4>1, <4>2, <4>5, StretchSame, Zenon
      <4>4. QED BY <3>1, <4>3
    <3>2. CASE ~(conf.dataPhase /\ Swd!IsRead(q))
      <4> HIDE DEF k
      <4>1. QED BY <3>2, StretchNone
    <3>3. QED BY <3>1, <3>2
  <2>7. Swd!Rest(a, q, d) = (before \o Swd!Turn) \o behind
    BY <1>5, <2>0 DEF Swd!Rest, Bits
  <2> HIDE DEF before, behind, m, k
  <2>4. Stretch(before \o Swd!Turn, plan, k, m + Turns)
    <3>1. Turns + k = k + Turns
      BY <1>1, <2>0
    <3>2. QED BY <1>1, <2>0, <2>2, <2>3, <3>1, StretchJoined
  <2>5. Stretch((before \o Swd!Turn) \o behind, plan, 0, TargetLength(a))
    <3>1. k = 0 + k /\ m + Turns \in Nat
      BY <1>1, <2>0
    <3>2. QED BY <1>1, <1>3, <2>0, <2>1, <2>4, <3>1, StretchJoined
  <2>6. TargetLength(a) + n = TargetLength(a)
    BY <1>1, <2>0
  <2>8. QED BY <1>5, <2>5, <2>6, <2>7 DEF plan, n, AckWords
<1>6. CASE a \notin AckWords
  <2>1. Swd!Rest(a, q, d) = Swd!Off(Full)
    <3>1. a # Swd!Ok /\ ~(a \in {Swd!Wait, Swd!Fault})
      BY <1>6 DEF AckWords
    <3>2. QED BY <3>1 DEF Swd!Rest, Bits, Full, Turns
  <2>2. Full \in Nat
    BY <1>1 DEF Full
  <2>3. \A r \in 0 .. 0 + Full - 1 : OffPlan[r] = 3
    BY <2>2, CodeFacts DEF OffPlan
  <2>4. Stretch(Swd!Off(Full), OffPlan, 0, Full)
    BY <1>3, <2>2, <2>3, AlikeCycles, StretchSame, Zenon
  <2>5. QED BY <1>6, <2>1, <2>4
<1>7. QED BY <1>4, <1>5, <1>6 DEF AckWords

LEMMA PlanOfTarget ==
  ASSUME conf \in Configs, NEW q, NEW w, NEW a, NEW r \in Nat
  PROVE  /\ r >= TargetLength(a) + 3 => TargetPlan(a, q, w)[r] = 3
         /\ r >= TargetLength(a) /\ r < TargetLength(a) + 3 =>
              TargetPlan(a, q, w)[r] = a[TargetLength(a) + 3 - r]
         /\ a = Swd!Ok /\ Swd!IsRead(q) /\ r < Full =>
              TargetPlan(a, q, w)[r] = IF r < Turns THEN 3 ELSE Checked(w)[Full - r]
         /\ a = Swd!Ok /\ ~Swd!IsRead(q) /\ r < Full =>
              TargetPlan(a, q, w)[r] = IF r < Bits + 1 THEN 2 ELSE 3
         /\ a # Swd!Ok /\ r < TargetLength(a) =>
              TargetPlan(a, q, w)[r] = IF conf.dataPhase /\ Swd!IsRead(q) /\ r >= Turns THEN 0 ELSE 3
         /\ TargetLength(a) = IF a = Swd!Ok \/ conf.dataPhase THEN Full ELSE Turns
         /\ TargetLength(a) \in Nat /\ Full = Turns + Bits + 1 /\ Full \in Nat
<1>1. Turns \in 1 .. 4 /\ Bits \in Nat
  BY ConfFacts, WireFacts
<1>2. /\ TargetLength(a) \in Nat /\ (a = Swd!Ok => TargetLength(a) = Full)
      /\ Full = Turns + Bits + 1 /\ Full \in Nat
      /\ TargetLength(a) = IF a = Swd!Ok \/ conf.dataPhase THEN Full ELSE Turns
  BY <1>1 DEF TargetLength, Full
<1> DEFINE n == TargetLength(a)
<1> HIDE DEF n
<1>3. n \in Nat /\ (a = Swd!Ok => n = Full)
  BY <1>2 DEF n
<1>4. TargetPlan(a, q, w)[r] =
     IF r >= n + 3 THEN 3
     ELSE IF r >= n THEN a[n + 3 - r]
     ELSE IF a = Swd!Ok /\ Swd!IsRead(q) THEN (IF r < Turns THEN 3 ELSE Checked(w)[Full - r])
     ELSE IF a = Swd!Ok THEN (IF r < Bits + 1 THEN 2 ELSE 3)
     ELSE IF conf.dataPhase /\ Swd!IsRead(q) /\ r >= Turns THEN 0
     ELSE 3
  BY CodeFacts DEF TargetPlan, n
<1>5. QED BY <1>2, <1>3, <1>4 DEF n

LEMMA TargetRestPlanned ==
  ASSUME conf \in Configs, NEW q \in Swd!AllRequests, word \in [1 .. Bits -> {0, 1}],
         NEW a \in AckWords
  PROVE  Stretch(Swd!TargetRest(a, q), TargetPlan(a, q, word), 0, TargetLength(a))
<1>1. Turns \in 1 .. 4 /\ Bits \in Nat /\ Turns \in Nat /\ Full = Turns + Bits + 1 /\ Full \in Nat
  BY ConfFacts, WireFacts DEF Full
<1> DEFINE plan == TargetPlan(a, q, word)
<1> HIDE DEF plan
<1>3. 0 \in 0 .. 3 /\ 2 \in 0 .. 3 /\ 3 \in 0 .. 3 /\ 0 \in Nat /\ Bits + 1 \in Nat
  BY <1>1
<1>4. CASE a = Swd!Ok
  <2>0. TargetLength(a) = Full /\ Swd!IsRead(q) \in BOOLEAN
    BY <1>4 DEF TargetLength, Swd!IsRead
  <2>1. CASE Swd!IsRead(q)
    <3>0. \A r \in Nat : r < Full => plan[r] = IF r < Turns THEN 3 ELSE Checked(word)[Full - r]
      BY <1>4, <2>1, PlanOfTarget DEF plan
    <3>1. Stretch(Swd!Turn, plan, 0, Turns)
      <4>1. \A r \in 0 .. 0 + Turns - 1 : plan[r] = 3
        BY <1>1, <3>0
      <4>2. QED BY <1>1, <1>3, <4>1, AlikeCycles, StretchSame, Zenon
    <3>2. Stretch(word, plan, Turns + 1, Bits) /\ Stretch(<<Swd!Parity(word)>>, plan, Turns, 1)
      <4>1. \A r \in Turns .. Turns + Bits : plan[r] = Checked(word)[Turns + Bits + 1 - r]
        <5>1. ASSUME NEW r \in Turns .. Turns + Bits PROVE plan[r] = Checked(word)[Turns + Bits + 1 - r]
          <6>1. r \in Nat /\ r < Full /\ ~(r < Turns) /\ Full - r = Turns + Bits + 1 - r
            BY <1>1
          <6>2. QED BY <3>0, <6>1
        <5>2. QED BY <5>1
      <4>2. QED BY <1>1, <4>1, StretchWord
    <3>3. Stretch(word \o <<Swd!Parity(word)>>, plan, Turns, Bits + 1)
      BY <1>1, <3>2, StretchJoined
    <3>4. Stretch((word \o <<Swd!Parity(word)>>) \o Swd!Turn, plan, 0, Full)
      <4>1. Turns = 0 + Turns /\ Full = (Bits + 1) + Turns
        BY <1>1
      <4>2. QED BY <1>1, <1>3, <3>1, <3>3, <4>1, StretchJoined
    <3>5. Swd!TargetRest(a, q) = (word \o <<Swd!Parity(word)>>) \o Swd!Turn
      BY <1>4, <2>1, <2>0 DEF Swd!TargetRest
    <3>6. QED BY <2>0, <3>4, <3>5 DEF plan
  <2>2. CASE ~Swd!IsRead(q)
    <3>0. \A r \in Nat : r < Full => plan[r] = IF r < Bits + 1 THEN 2 ELSE 3
      BY <1>4, <2>2, PlanOfTarget DEF plan
    <3>1. Stretch(Swd!In(Bits + 1), plan, 0, Bits + 1)
      <4>1. \A r \in 0 .. 0 + (Bits + 1) - 1 : plan[r] = 2
        BY <1>1, <3>0
      <4>2. QED BY <1>1, <1>3, <4>1, AlikeCycles, StretchSame, Zenon
    <3>2. Stretch(Swd!Turn, plan, Bits + 1, Turns)
      <4>1. \A r \in Bits + 1 .. Bits + 1 + Turns - 1 : plan[r] = 3
        BY <1>1, <3>0
      <4>2. QED BY <1>1, <1>3, <4>1, AlikeCycles, StretchSame, Zenon
    <3>3. Stretch(Swd!Turn \o Swd!In(Bits + 1), plan, 0, Full)
      <4>1. Bits + 1 = 0 + (Bits + 1) /\ Full = Turns + (Bits + 1)
        BY <1>1
      <4>2. QED BY <1>1, <1>3, <3>1, <3>2, <4>1, StretchJoined
    <3>4. Swd!TargetRest(a, q) = Swd!Turn \o Swd!In(Bits + 1)
      BY <1>4, <2>2, <2>0 DEF Swd!TargetRest, Bits
    <3>5. QED BY <2>0, <3>3, <3>4 DEF plan
  <2>3. QED BY <2>1, <2>2
<1>5. CASE a # Swd!Ok
  <2> DEFINE before == IF conf.dataPhase /\ Swd!IsRead(q) THEN Swd!Low(Bits + 1) ELSE <<>>
             behind == IF conf.dataPhase /\ ~Swd!IsRead(q) THEN Swd!Off(Bits + 1) ELSE <<>>
             m == IF conf.dataPhase /\ Swd!IsRead(q) THEN Bits + 1 ELSE 0
             k == IF conf.dataPhase /\ ~Swd!IsRead(q) THEN Bits + 1 ELSE 0
  <2>0. /\ m \in Nat /\ k \in Nat
        /\ conf.dataPhase \in BOOLEAN /\ Swd!IsRead(q) \in BOOLEAN
        /\ TargetLength(a) = m + Turns + k
    BY <1>1, <1>3, <1>5, ConfFacts DEF TargetLength, Full, Swd!IsRead
  <2>9. \A r \in Nat : r < TargetLength(a) =>
          plan[r] = IF conf.dataPhase /\ Swd!IsRead(q) /\ r >= Turns THEN 0 ELSE 3
    BY <1>5, PlanOfTarget DEF plan
  <2>1. Stretch(behind, plan, 0, k)
    <3>1. CASE conf.dataPhase /\ ~Swd!IsRead(q)
      <4>1. \A r \in 0 .. 0 + (Bits + 1) - 1 : plan[r] = 3
        BY <1>1, <2>0, <2>9, <3>1
      <4>2. Alike(Swd!Off(Bits + 1), Bits + 1, 3)
        BY <1>3, AlikeCycles
      <4>3. Stretch(Swd!Off(Bits + 1), plan, 0, Bits + 1)
        BY <1>3, <4>1, <4>2, StretchSame, Zenon
      <4>4. QED BY <3>1, <4>3
    <3>2. CASE ~(conf.dataPhase /\ ~Swd!IsRead(q))
      BY <3>2, StretchNone
    <3>3. QED BY <3>1, <3>2
  <2>2. Stretch(Swd!Turn, plan, k, Turns)
    <3>1. \A r \in k .. k + Turns - 1 : plan[r] = 3
      BY <1>1, <2>0, <2>9
    <3> HIDE DEF k
    <3>2. QED BY <1>1, <1>3, <2>0, <3>1, AlikeCycles, StretchSame, Zenon
  <2>3. Stretch(before, plan, Turns + k, m)
    <3>1. CASE conf.dataPhase /\ Swd!IsRead(q)
      <4>1. \A r \in Turns + k .. Turns + k + (Bits + 1) - 1 : plan[r] = 0
        BY <1>1, <2>0, <2>9, <3>1
      <4>2. Alike(Swd!Low(Bits + 1), Bits + 1, 0)
        BY <1>3, AlikeCycles
      <4>5. Turns + k \in Nat
        BY <1>1, <2>0
      <4> HIDE DEF k
      <4>3. Stretch(Swd!Low(Bits + 1), plan, Turns + k, Bits + 1)
        BY <1>3, <4>1, <4>2, <4>5, StretchSame, Zenon
      <4>4. QED BY <3>1, <4>3
    <3>2. CASE ~(conf.dataPhase /\ Swd!IsRead(q))
      <4> HIDE DEF k
      <4>1. QED BY <3>2, StretchNone
    <3>3. QED BY <3>1, <3>2
  <2>7. Swd!TargetRest(a, q) = (before \o Swd!Turn) \o behind
    BY <1>5, <2>0 DEF Swd!TargetRest, Bits
  <2> HIDE DEF before, behind, m, k
  <2>4. Stretch(before \o Swd!Turn, plan, k, m + Turns)
    <3>1. Turns + k = k + Turns
      BY <1>1, <2>0
    <3>2. QED BY <1>1, <2>0, <2>2, <2>3, <3>1, StretchJoined
  <2>5. Stretch((before \o Swd!Turn) \o behind, plan, 0, TargetLength(a))
    <3>1. k = 0 + k /\ m + Turns \in Nat
      BY <1>1, <2>0
    <3>2. QED BY <1>1, <1>3, <2>0, <2>1, <2>4, <3>1, StretchJoined
  <2>6. QED BY <2>5, <2>7 DEF plan
<1>6. QED BY <1>4, <1>5

LEMMA AckWordIs ==
  ASSUME NEW a \in AckWords
  PROVE  /\ a \in Seq(0 .. 3) /\ Len(a) = 3 /\ \A i \in 1 .. 3 : a[i] \in {0, 1}
         /\ a[1] = IF a = Swd!Ok THEN 1 ELSE 0
         /\ a[2] = IF a = Swd!Wait THEN 1 ELSE 0
         /\ a[3] = IF a = Swd!Fault THEN 1 ELSE 0
<1>1. CASE a = Swd!Ok
  <2>1. a = <<1, 0, 0>>
    BY <1>1, CodeFacts
  <2>2. QED BY <1>1, <2>1, CodeFacts
<1>2. CASE a = Swd!Wait
  <2>1. a = <<0, 1, 0>>
    BY <1>2, CodeFacts
  <2>2. QED BY <1>2, <2>1, CodeFacts
<1>3. CASE a = Swd!Fault
  <2>1. a = <<0, 0, 1>>
    BY <1>3, CodeFacts
  <2>2. QED BY <1>3, <2>1, CodeFacts
<1>4. QED BY <1>1, <1>2, <1>3 DEF AckWords

LEMMA TargetPlanned ==
  ASSUME conf \in Configs, NEW q \in Swd!AllRequests, word \in [1 .. Bits -> {0, 1}],
         NEW a \in AckWords
  PROVE  Stretch(Swd!Turn \o a \o Swd!TargetRest(a, q), TargetPlan(a, q, word), 0,
                 Turns + 3 + TargetLength(a))
<1> DEFINE plan == TargetPlan(a, q, word)
           n == TargetLength(a)
           t == Swd!TargetRest(a, q)
<1>1. Turns \in 1 .. 4 /\ Turns \in Nat /\ n \in Nat /\ 0 \in Nat /\ 3 \in Nat /\ 3 \in 0 .. 3
  BY ConfFacts, WireFacts DEF TargetLength, Full
<1>2. Stretch(t, plan, 0, n)
  BY TargetRestPlanned
<1>3. \A r \in Nat : /\ r >= n + 3 => plan[r] = 3
                     /\ r >= n /\ r < n + 3 => plan[r] = a[n + 3 - r]
  BY PlanOfTarget
<1> HIDE DEF plan, n, t
<1>4. Stretch(a, plan, n, 3)
  <2>1. ASSUME NEW i \in 1 .. 3 PROVE a[i] = plan[3 - i + n]
    <3> DEFINE r == 3 - i + n
    <3>1. r \in Nat /\ r >= n /\ r < n + 3 /\ n + 3 - r = i
      BY <1>1
    <3> HIDE DEF r
    <3>2. plan[r] = a[i]
      BY <1>3, <3>1
    <3>3. QED BY <3>2 DEF r
  <2>2. QED BY <2>1, AckWordIs DEF Stretch
<1>5. Stretch(Swd!Turn, plan, n + 3, Turns)
  <2>1. n + 3 \in Nat /\ \A r \in n + 3 .. n + 3 + Turns - 1 : plan[r] = 3
    BY <1>1, <1>3
  <2>2. QED BY <1>1, <2>1, AlikeCycles, StretchSame, Zenon
<1>6. Stretch(Swd!Turn \o a, plan, n, Turns + 3)
  BY <1>1, <1>4, <1>5, StretchJoined
<1>7. Stretch((Swd!Turn \o a) \o t, plan, 0, Turns + 3 + n)
  <2>1. n = 0 + n /\ Turns + 3 \in Nat
    BY <1>1
  <2>2. QED BY <1>1, <1>2, <1>6, <2>1, StretchJoined
<1>8. QED BY <1>7 DEF plan, n, t

LEMMA PlansKept ==
  ASSUME conf' = conf
  PROVE  /\ Turns' = Turns /\ Full' = Full
         /\ TargetLength(reply)' = TargetLength(reply')
         /\ Idling(ack)' = Idling(ack')
         /\ AskPlan(wanted.request)' = AskPlan(wanted'.request)
         /\ RestPlan(ack, wanted.request, wanted.data)' = RestPlan(ack', wanted'.request, wanted'.data)
         /\ TargetPlan(reply, wanted.request, word)' = TargetPlan(reply', wanted'.request, word')
         /\ Reads' = Swd!IsRead(wanted'.request)
<1>1. Turns' = Turns /\ Full' = Full
  BY DEF Turns, Full
<1>2. TargetLength(reply)' = TargetLength(reply') /\ Idling(ack)' = Idling(ack')
  BY <1>1 DEF TargetLength, Idling
<1>3. AskPlan(wanted.request)' = AskPlan(wanted'.request)
  BY <1>1 DEF AskPlan
<1>4. RestPlan(ack, wanted.request, wanted.data)' = RestPlan(ack', wanted'.request, wanted'.data)
  BY <1>1, <1>2 DEF RestPlan
<1>5. TargetPlan(reply, wanted.request, word)' = TargetPlan(reply', wanted'.request, word')
  BY <1>1, <1>2 DEF TargetPlan
<1>6. QED BY <1>1, <1>2, <1>3, <1>4, <1>5 DEF Reads

LEMMA NearAppend ==
  ASSUME NEW bits \in Seq({0, 1}), NEW b \in {0, 1}, NEW sent, NEW d \in BOOLEAN, NEW e \in BOOLEAN,
         Near(bits, sent, d), (b = sent[Len(bits) + 1] /\ e = d) \/ (~d /\ e)
  PROVE  /\ Near(Append(bits, b), sent, e) /\ Append(bits, b) \in Seq({0, 1})
         /\ Len(Append(bits, b)) = Len(bits) + 1 /\ Append(bits, b)[Len(bits) + 1] = b
         /\ \A i \in 1 .. Len(bits) : Append(bits, b)[i] = bits[i]
<1> DEFINE s == Append(bits, b)
           n == Len(bits)
<1>1. /\ s \in Seq({0, 1}) /\ Len(s) = n + 1 /\ s[n + 1] = b /\ n \in Nat
      /\ \A i \in 1 .. n : s[i] = bits[i]
  BY AppendProperties
<1>2. /\ ~d => \A i \in 1 .. n : bits[i] = sent[i]
      /\ \A i, j \in 1 .. n : i # j => bits[i] = sent[i] \/ bits[j] = sent[j]
  BY DEF Near
<1> HIDE DEF s, n
<1>3. \A i \in 1 .. n + 1 : i \in 1 .. n \/ i = n + 1
  BY <1>1
<1>4. (b = sent[n + 1] /\ e = d) \/ (~d /\ e)
  BY DEF n
<1>5. ~e => \A i \in 1 .. n + 1 : s[i] = sent[i]
  BY <1>1, <1>2, <1>3, <1>4
<1>6. \A i, j \in 1 .. n + 1 : i # j => s[i] = sent[i] \/ s[j] = sent[j]
  BY <1>1, <1>2, <1>3, <1>4
<1>7. Near(s, sent, e)
  BY <1>1, <1>5, <1>6 DEF Near
<1>8. QED BY <1>1, <1>7 DEF s, n

LEMMA NearStill ==
  ASSUME NEW bits, NEW sent, NEW d, NEW e, Near(bits, sent, d), d => e PROVE Near(bits, sent, e)
BY DEF Near

LEMMA NearNothing == \A sent, d : Near(<<>>, sent, d)
BY DEF Near

\* What was read of an acknowledge is that acknowledge, or none.
LEMMA NearAck ==
  ASSUME NEW a \in AckWords, NEW r \in Seq({0, 1}), Len(r) = 3, NEW d \in BOOLEAN, Near(r, a, d)
  PROVE  r = a \/ (d /\ r \notin AckWords)
<1>1. ASSUME \A i \in 1 .. 3 : r[i] = a[i] PROVE r = a
  BY <1>1, AckWordIs, SeqEqual
<1>2. CASE ~d
  BY <1>1, <1>2 DEF Near
<1>3. ASSUME r \in AckWords, r # a PROVE FALSE
  <2>1. /\ r[1] = IF r = Swd!Ok THEN 1 ELSE 0
        /\ r[2] = IF r = Swd!Wait THEN 1 ELSE 0
        /\ r[3] = IF r = Swd!Fault THEN 1 ELSE 0
    BY <1>3, AckWordIs
  <2>2. /\ a[1] = IF a = Swd!Ok THEN 1 ELSE 0
        /\ a[2] = IF a = Swd!Wait THEN 1 ELSE 0
        /\ a[3] = IF a = Swd!Fault THEN 1 ELSE 0
    BY AckWordIs
  <2>3. /\ r[1] = a[1] \/ r[2] = a[2]
        /\ r[1] = a[1] \/ r[3] = a[3]
        /\ r[2] = a[2] \/ r[3] = a[3]
    BY DEF Near
  <2>4. Swd!Ok # Swd!Wait /\ Swd!Ok # Swd!Fault /\ Swd!Wait # Swd!Fault
    BY CodeFacts
  <2>5. CASE r = Swd!Ok
    BY <1>3, <2>1, <2>2, <2>3, <2>4, <2>5 DEF AckWords
  <2>6. CASE r = Swd!Wait
    BY <1>3, <2>1, <2>2, <2>3, <2>4, <2>6 DEF AckWords
  <2>7. CASE r = Swd!Fault
    BY <1>3, <2>1, <2>2, <2>3, <2>4, <2>7 DEF AckWords
  <2>8. QED BY <1>3, <2>5, <2>6, <2>7 DEF AckWords
<1>4. QED BY <1>2, <1>3

LEMMA NearOnes ==
  ASSUME NEW r \in Seq({0, 1}), Len(r) = 3, NEW d, Near(r, Ones, d) PROVE r \notin AckWords /\ r # <<>>
<1>1. Ones[1] = 1 /\ Ones[2] = 1 /\ Ones[3] = 1
  BY DEF Ones
<1>2. /\ r[1] = 1 \/ r[2] = 1
      /\ r[1] = 1 \/ r[3] = 1
      /\ r[2] = 1 \/ r[3] = 1
  BY <1>1 DEF Near
<1>3. ASSUME r \in AckWords PROVE FALSE
  BY <1>2, <1>3, AckWordIs, CodeFacts
<1>4. QED BY <1>3, EmptySeq
-----------------------------------------------------------------------------
LEMMA SentFacts ==
  ASSUME SwdTyped, NEW bit, Sent(bit)
  PROVE  /\ probe # <<>> /\ probe' = Tail(probe) /\ bit \in {0, 1} /\ Swd!Line \in {0, 1}
         /\ conf' = conf /\ wanted' = wanted /\ ack' = ack /\ transfers' = transfers
         /\ noise' \in BOOLEAN /\ (noise => noise' = noise)
         /\ read' = IF Head(probe) = 2 THEN Append(read, bit) ELSE read
         /\ \/ bit = Swd!Line /\ noise' = noise
            \/ /\ ~noise /\ noise' = TRUE /\ bit = 1 - Swd!Line
               /\ (ack = Swd!Ok => Len(probe) > conf.idle)
         /\ target = <<>> => Swd!Listen(bit) /\ word' = word
         /\ target # <<>> => Swd!Proceed(bit)
<1>1. Swd!Line \in {0, 1}
  BY DEF Swd!Line, Swd!Drives, Swd!Bit
<1>2. /\ probe # <<>> /\ probe' = Tail(probe)
      /\ conf' = conf /\ wanted' = wanted /\ ack' = ack /\ transfers' = transfers
      /\ read' = IF Swd!Reads(probe) THEN Append(read, bit) ELSE read
      /\ target = <<>> => Swd!Listen(bit) /\ word' = word
      /\ target # <<>> => Swd!Proceed(bit)
  BY DEF Sent, Swd!Clock
<1>3. Swd!Reads(probe) <=> Head(probe) = 2
  BY <1>2 DEF Swd!Reads, Swd!Reading
<1>4. \/ bit = Swd!Line /\ noise' = noise
      \/ /\ ~noise /\ noise' = TRUE /\ bit = 1 - Swd!Line
         /\ (ack = Swd!Ok => Len(probe) > conf.idle)
  BY DEF Sent
<1>5. bit \in {0, 1} /\ noise' \in BOOLEAN /\ (noise => noise' = noise)
  <2>1. bit \in {0, 1}
    BY <1>1, <1>4
  <2>2. noise \in BOOLEAN
    BY DEF SwdTyped
  <2>3. noise' \in BOOLEAN
    BY <1>4, <2>2, Zenon
  <2>4. noise => noise' = noise
    BY <1>4, <2>2, Zenon
  <2>5. QED BY <2>1, <2>3, <2>4
<1>6. QED BY <1>1, <1>2, <1>3, <1>4, <1>5

LEMMA ListenFacts ==
  ASSUME NEW bit, Swd!Listen(bit), port \in {"ready", "request", "lost"}, heard \in Seq({0, 1})
  PROVE  /\ port = "ready" /\ bit = 1 =>
              port' = "request" /\ heard' = <<1>> /\ UNCHANGED <<target, reply, served>>
         /\ port = "ready" /\ bit # 1 => UNCHANGED <<port, heard, target, reply, served>>
         /\ port = "request" /\ Len(heard) < 7 =>
              heard' = Append(heard, bit) /\ UNCHANGED <<port, target, reply, served>>
         /\ port = "request" /\ Len(heard) = 7 =>
              /\ heard' = <<>>
              /\ \/ /\ Swd!Valid(Append(heard, bit))
                    /\ \E a \in AckWords :
                         /\ target' = Swd!Turn \o a \o Swd!TargetRest(a, SubSeq(Append(heard, bit), 2, 5))
                         /\ reply' = a /\ served' = SubSeq(Append(heard, bit), 2, 5)
                         /\ port' = "ready"
                 \/ /\ ~Swd!Valid(Append(heard, bit))
                    /\ port' = "lost" /\ UNCHANGED <<target, reply, served>>
         /\ port = "lost" => UNCHANGED <<port, heard, target, reply, served>>
<1>1. CASE port = "ready"
  BY <1>1 DEF Swd!Listen
<1>2. CASE port = "request" /\ Len(heard) < 7
  <2>1. port # "ready" /\ port # "lost" /\ ~(Len(heard) = 7)
    BY <1>2
  <2>2. heard' = Append(heard, bit) /\ UNCHANGED <<port, target, reply, served>>
    BY <1>2, <2>1 DEF Swd!Listen
  <2>3. QED BY <1>2, <2>1, <2>2
<1>3. CASE port = "request" /\ Len(heard) = 7
  <2> DEFINE bits == Append(heard, bit)
             q == SubSeq(bits, 2, 5)
  <2>1. port # "ready" /\ port # "lost" /\ ~(Len(heard) < 7)
    BY <1>3
  <2>2. /\ heard' = <<>>
        /\ IF Swd!Valid(bits)
           THEN \E a \in AckWords :
                  /\ target' = Swd!Turn \o a \o Swd!TargetRest(a, q)
                  /\ reply' = a /\ served' = q /\ port' = "ready"
           ELSE port' = "lost" /\ UNCHANGED <<target, reply, served>>
    BY <1>3, <2>1 DEF Swd!Listen, AckWords
  <2>3. QED BY <1>3, <2>1, <2>2
<1>4. CASE port = "request" /\ ~(Len(heard) < 7) /\ ~(Len(heard) = 7)
  BY <1>4
<1>5. CASE port = "lost"
  BY <1>5 DEF Swd!Listen
<1>6. QED BY <1>1, <1>2, <1>3, <1>4, <1>5

LEMMA ProceedFacts ==
  ASSUME NEW bit, Swd!Proceed(bit), target # <<>>
  PROVE  /\ target' = Tail(target) /\ port' = port /\ reply' = reply /\ served' = served
         /\ Head(target) # 2 => heard' = heard /\ word' = word
         /\ Head(target) = 2 =>
              /\ heard' = IF Len(Append(heard, bit)) > Bits THEN <<>> ELSE Append(heard, bit)
              /\ word' = IF /\ Len(Append(heard, bit)) > Bits
                            /\ Swd!Parity(SubSeq(Append(heard, bit), 1, Bits))
                                 = Append(heard, bit)[Bits + 1]
                         THEN SubSeq(Append(heard, bit), 1, Bits) ELSE word
<1>1. Swd!Reads(target) <=> Head(target) = 2
  BY DEF Swd!Reads, Swd!Reading
<1>2. CASE Swd!Reads(target)
  BY <1>1, <1>2 DEF Swd!Proceed, Bits
<1>3. CASE ~Swd!Reads(target)
  BY <1>1, <1>3 DEF Swd!Proceed, Bits
<1>4. QED BY <1>2, <1>3

LEMMA SentTyped == ASSUME SwdTyped, NEW bit, Sent(bit) PROVE SwdTyped'
<1>1. /\ conf \in Configs /\ word \in [1 .. Bits -> {0, 1}]
      /\ probe \in Seq(0 .. 3) /\ target \in Seq(0 .. 3)
      /\ port \in {"ready", "request", "lost"}
      /\ heard \in Seq({0, 1}) /\ read \in Seq({0, 1}) /\ noise \in BOOLEAN
  BY DEF SwdTyped
<1>2. /\ probe # <<>> /\ probe' = Tail(probe) /\ bit \in {0, 1}
      /\ read' = IF Head(probe) = 2 THEN Append(read, bit) ELSE read
      /\ conf' = conf /\ transfers' = transfers /\ noise' \in BOOLEAN
      /\ target = <<>> => Swd!Listen(bit) /\ word' = word
      /\ target # <<>> => Swd!Proceed(bit)
  BY SentFacts
<1>3. probe' \in Seq(0 .. 3)
  BY <1>1, <1>2, HeadTailProperties
<1>4. read' \in Seq({0, 1})
  BY <1>1, <1>2, AppendProperties
<1>5. Append(heard, bit) \in Seq({0, 1}) /\ Len(Append(heard, bit)) = Len(heard) + 1
      /\ <<1>> \in Seq({0, 1}) /\ <<>> \in Seq({0, 1}) /\ Len(heard) \in Nat
  BY <1>1, <1>2, AppendProperties
<1>6. CASE target = <<>>
  <2>1. Swd!Listen(bit) /\ word' = word
    BY <1>2, <1>6
  <2>2. /\ port = "ready" /\ bit = 1 =>
              port' = "request" /\ heard' = <<1>> /\ UNCHANGED <<target, reply, served>>
        /\ port = "ready" /\ bit # 1 => UNCHANGED <<port, heard, target, reply, served>>
        /\ port = "request" /\ Len(heard) < 7 =>
              heard' = Append(heard, bit) /\ UNCHANGED <<port, target, reply, served>>
        /\ port = "lost" => UNCHANGED <<port, heard, target, reply, served>>
    BY <1>1, <2>1, ListenFacts
  <2>3. CASE port = "request" /\ Len(heard) = 7
    <3> DEFINE q == SubSeq(Append(heard, bit), 2, 5)
    <3>1. /\ heard' = <<>>
          /\ \/ \E a \in AckWords : target' = Swd!Turn \o a \o Swd!TargetRest(a, q) /\ port' = "ready"
             \/ port' = "lost" /\ target' = target
      BY <1>1, <2>1, <2>3, ListenFacts
    <3>2. q \in Swd!AllRequests
      <4> DEFINE bits == Append(heard, bit)
      <4>1. bits \in Seq({0, 1}) /\ Len(bits) = 8
        BY <1>5, <2>3
      <4> HIDE DEF bits
      <4>2. SubSeq(bits, 2, 5) \in Swd!AllRequests
        BY <4>1, PacketRequest
      <4>3. QED BY <4>2 DEF bits
    <3> HIDE DEF q
    <3>3. ASSUME NEW a \in AckWords, target' = Swd!Turn \o a \o Swd!TargetRest(a, q)
          PROVE  target' \in Seq(0 .. 3)
      BY <1>1, <3>2, <3>3, TargetPlanned DEF Stretch
    <3>4. QED BY <1>1, <1>2, <1>3, <1>4, <1>5, <2>1, <3>1, <3>3 DEF SwdTyped
  <2>4. CASE port = "request" /\ ~(Len(heard) < 7) /\ ~(Len(heard) = 7)
    <3>1. UNCHANGED <<port, heard, target>>
      BY <1>5, <2>1, <2>4 DEF Swd!Listen
    <3>2. QED BY <1>1, <1>2, <1>3, <1>4, <1>5, <2>1, <3>1 DEF SwdTyped
  <2>5. QED BY <1>1, <1>2, <1>3, <1>4, <1>5, <2>1, <2>2, <2>3, <2>4 DEF SwdTyped
<1>7. CASE target # <<>>
  <2> DEFINE bits == Append(heard, bit)
             v == SubSeq(bits, 1, Bits)
  <2>1. Swd!Proceed(bit)
    BY <1>2, <1>7
  <2>2. /\ target' = Tail(target) /\ port' = port
        /\ heard' \in {heard, <<>>, bits}
        /\ word' = word \/ (Len(bits) > Bits /\ word' = v)
    <3>1. CASE Head(target) = 2
      BY <1>7, <2>1, <3>1, ProceedFacts
    <3>2. CASE Head(target) # 2
      BY <1>7, <2>1, <3>2, ProceedFacts
    <3>3. QED BY <3>1, <3>2
  <2>3. target' \in Seq(0 .. 3)
    BY <1>1, <1>7, <2>2, HeadTailProperties
  <2>4. ASSUME Len(bits) > Bits PROVE v \in [1 .. Bits -> {0, 1}]
    <3>1. Bits \in Nat /\ 1 \in Nat /\ 1 >= 1 /\ Bits <= Len(bits) /\ Bits = Bits - 1 + 1
      BY <1>5, <2>4, WireFacts
    <3>2. PartIs(bits, 1, Bits, Bits, {0, 1})
      BY <1>5, <3>1, PartOfSeq
    <3>3. QED BY <3>2 DEF PartIs
  <2> HIDE DEF bits, v
  <2>5. bits \in Seq({0, 1})
    BY <1>5 DEF bits
  <2>6. QED BY <1>1, <1>2, <1>3, <1>4, <1>5, <2>2, <2>3, <2>4, <2>5 DEF SwdTyped
<1>8. QED BY <1>6, <1>7

-----------------------------------------------------------------------------
\* The stages of a transfer: what a cycle makes of each.

LEMMA TransferKept ==
  ASSUME SwdTyped, InTransfer, NEW bit, Sent(bit)
  PROVE  InTransfer' /\ wanted' = wanted /\ conf' = conf /\ ack' = ack
BY SentFacts DEF InTransfer

\* A bit of the packet.
LEMMA AskingLine ==
  ASSUME SwdTyped, Asking
  PROVE  /\ Head(probe) = Swd!Packet(wanted.request)[Len(heard) + 1] /\ Head(probe) \in {0, 1}
         /\ Swd!Line = Head(probe) /\ Len(heard) \in 0 .. 7 /\ Len(probe) = Turns + 11 - Len(heard)
         /\ Turns \in 1 .. 4 /\ conf \in Configs /\ wanted.request \in Swd!AllRequests
         /\ heard \in Seq({0, 1}) /\ probe \in Seq(0 .. 3)
<1> DEFINE q == wanted.request
           k == Len(heard)
<1>1. /\ conf \in Configs /\ q \in Swd!AllRequests /\ probe \in Seq(0 .. 3) /\ heard \in Seq({0, 1})
      /\ Follows(probe, AskPlan(q)) /\ Len(probe) \in Turns + 4 .. Turns + 11
      /\ k = Turns + 11 - Len(probe)
  BY DEF SwdTyped, Asking, InTransfer
<1> HIDE DEF q, k
<1>2. Turns \in 1 .. 4
  BY <1>1, ConfFacts
<1>3. k \in 0 .. 7 /\ Len(probe) = Turns + 11 - k
  BY <1>1, <1>2
<1>4. probe # <<>>
  BY <1>2, <1>3, EmptySeq
<1>5. Head(probe) = Swd!Packet(q)[k + 1]
  <2> DEFINE r == Len(probe) - 1
  <2>1. Head(probe) = AskPlan(q)[r]
    BY <1>1, <1>4, NextCycle
  <2>2. r \in Nat /\ ~(r < 3) /\ ~(r < Turns + 3) /\ Turns + 11 - r = k + 1
    BY <1>2, <1>3
  <2> HIDE DEF r
  <2>3. AskPlan(q)[r] = Swd!Packet(q)[Turns + 11 - r]
    BY <2>2 DEF AskPlan
  <2>4. QED BY <2>1, <2>2, <2>3
<1>6. Swd!Packet(q)[k + 1] \in {0, 1}
  <2>1. Swd!Packet(q) \in Seq({0, 1}) /\ Len(Swd!Packet(q)) = 8
    BY <1>1, PacketBits
  <2>2. k + 1 \in 1 .. 8
    BY <1>3
  <2>3. QED BY <2>1, <2>2, ElementOfSeq
<1>7. Swd!Line = Head(probe)
  BY <1>4, <1>5, <1>6 DEF Swd!Line, Swd!Drives, Swd!Bit
<1>8. QED BY <1>1, <1>2, <1>3, <1>5, <1>6, <1>7 DEF k, q

LEMMA AskingSent == ASSUME SwdTyped, Asking, NEW bit, Sent(bit) PROVE Asking' \/ Astray' \/ Answering'
<1> DEFINE q == wanted.request
           k == Len(heard)
           sent == Swd!Packet(q)
           level == sent[k + 1]
<1>1. /\ Head(probe) = level /\ level \in {0, 1} /\ Swd!Line = level
      /\ k \in 0 .. 7 /\ Len(probe) = Turns + 11 - k
      /\ Turns \in 1 .. 4 /\ conf \in Configs /\ q \in Swd!AllRequests
      /\ heard \in Seq({0, 1}) /\ probe \in Seq(0 .. 3)
  BY AskingLine
<1>2. /\ InTransfer /\ ack = <<>> /\ read = <<>> /\ target = <<>> /\ served = <<>>
      /\ word = wanted.old /\ Follows(probe, AskPlan(q))
      /\ port = IF heard = <<>> THEN "ready" ELSE "request"
      /\ Near(heard, sent, noise)
      /\ heard # <<>> => heard[1] = 1
      /\ noise => \E i \in 1 .. k : heard[i] # sent[i]
  BY DEF Asking
<1>3. /\ probe # <<>> /\ probe' = Tail(probe) /\ bit \in {0, 1}
      /\ conf' = conf /\ wanted' = wanted /\ ack' = ack
      /\ noise' \in BOOLEAN /\ noise \in BOOLEAN
      /\ (bit = level /\ noise' = noise) \/ (~noise /\ noise' = TRUE /\ bit = 1 - level)
      /\ Swd!Listen(bit) /\ word' = word
      /\ port \in {"ready", "request", "lost"}
  BY <1>1, <1>2, SentFacts DEF SwdTyped
<1>4. read' = <<>> /\ InTransfer' /\ word' = wanted'.old /\ ack' = <<>> /\ wanted'.request = q
  <2> HIDE DEF k, sent, level
  <2>1. read' = IF Head(probe) = 2 THEN Append(read, bit) ELSE read
    BY SentFacts
  <2>2. read' = <<>>
    BY <1>1, <1>2, <2>1
  <2>3. InTransfer'
    BY <1>2, TransferKept
  <2>4. QED BY <1>2, <1>3, <2>2, <2>3
<1>5. /\ probe' \in Seq(0 .. 3) /\ Follows(probe', AskPlan(q)) /\ Len(probe') = Turns + 10 - k
  BY <1>1, <1>2, <1>3, NextCycle
<1>6. Turns' = Turns /\ AskPlan(wanted.request)' = AskPlan(q)
  BY <1>3, PlansKept
<1> HIDE DEF q, k, sent, level
<1>7. heard = <<>> <=> k = 0
  BY <1>1, EmptySeq DEF k
<1>8. /\ sent[1] = 1 /\ Len(sent) = 8 /\ sent \in Seq({0, 1})
  BY <1>1, PacketBits DEF sent
<1>9. CASE k = 0
  <2>0. port = "ready" /\ heard = <<>> /\ level = 1 /\ ~noise
    BY <1>1, <1>2, <1>7, <1>8, <1>9 DEF level
  <2>1. CASE bit = 1
    <3>1. port' = "request" /\ heard' = <<1>> /\ target' = <<>> /\ served' = <<>> /\ ~noise'
      BY <1>2, <1>3, <2>0, <2>1, ListenFacts
    <3>2. Len(heard') = 1 /\ heard' # <<>> /\ heard'[1] = 1
      BY <3>1
    <3>3. Near(heard', sent, noise')
      <4>1. \A i \in 1 .. 1 : i = 1
        OBVIOUS
      <4>2. QED BY <1>8, <3>1, <3>2, <4>1 DEF Near
    <3>4. Len(probe') \in Turns + 4 .. Turns + 11 /\ Len(heard') = Turns + 11 - Len(probe')
      BY <1>1, <1>5, <1>9, <3>2
    <3>5. Asking'
      BY <1>4, <1>5, <1>6, <3>1, <3>2, <3>3, <3>4 DEF Asking, q, sent
    <3>6. QED BY <3>5
  <2>2. CASE bit # 1
    <3>1. port' = "ready" /\ heard' = <<>> /\ target' = <<>> /\ served' = <<>> /\ noise'
      BY <1>2, <1>3, <2>0, <2>2, ListenFacts
    <3>2. Len(probe') = Turns + 10 /\ Len(read') = 0
      BY <1>1, <1>4, <1>5, <1>9
    <3>3. AckSoFar(Ones)'
      BY <1>1, <1>4, <3>2, NearNothing DEF AckSoFar, Ones
    <3>4. Listens'
      BY <1>1, <1>4, <1>6, <3>1, <3>2 DEF Listens
    <3>5. Astray'
      BY <1>1, <1>4, <1>5, <1>6, <3>1, <3>2, <3>3, <3>4 DEF Astray, q
    <3>6. QED BY <3>5
  <2>3. QED BY <2>1, <2>2
<1>10. CASE k \in 1 .. 6
  <2>0. port = "request" /\ heard # <<>> /\ Len(heard) < 7
    <3>1. k # 0 /\ k < 7
      BY <1>10
    <3>2. QED BY <1>2, <1>7, <3>1 DEF k
  <2>1. heard' = Append(heard, bit) /\ port' = "request" /\ target' = <<>> /\ served' = <<>>
    BY <1>1, <1>2, <1>3, <2>0, ListenFacts
  <2>2. /\ Near(heard', sent, noise') /\ heard' \in Seq({0, 1}) /\ Len(heard') = k + 1
        /\ heard'[k + 1] = bit /\ \A i \in 1 .. k : heard'[i] = heard[i]
    BY <1>1, <1>2, <1>3, <2>1, NearAppend DEF level, k
  <2>3. heard' # <<>> /\ heard'[1] = 1
    BY <1>2, <1>10, <2>0, <2>2, EmptySeq
  <2>4. noise' => \E i \in 1 .. Len(heard') : heard'[i] # sent[i]
    <3>1. CASE noise
      <4>1. PICK i \in 1 .. k : heard[i] # sent[i]
        BY <1>2, <3>1
      <4>2. i \in 1 .. Len(heard') /\ heard'[i] # sent[i]
        BY <1>10, <2>2, <4>1
      <4>3. QED BY <4>2
    <3>2. CASE ~noise /\ noise'
      <4>1. k + 1 \in 1 .. Len(heard')
        BY <1>10, <2>2
      <4>3. bit # level
        <5>1. bit = 1 - level
          BY <1>3, <3>2, Zenon
        <5>2. QED BY <1>1, <5>1
      <4>4. heard'[k + 1] # sent[k + 1]
        BY <2>2, <4>3 DEF level
      <4>2. QED BY <4>1, <4>4
    <3>3. QED BY <1>3, <3>1, <3>2
  <2>5. Len(probe') \in Turns + 4 .. Turns + 11 /\ Len(heard') = Turns + 11 - Len(probe')
    <3>1. k + 1 = Turns + 11 - (Turns + 10 - k) /\ Turns + 10 - k \in Turns + 4 .. Turns + 11
      BY <1>1, <1>10
    <3>2. QED BY <1>5, <2>2, <3>1
  <2>6. Asking'
    BY <1>4, <1>5, <1>6, <2>1, <2>2, <2>3, <2>4, <2>5 DEF Asking, q, sent
  <2>7. QED BY <2>6
<1>11. CASE k = 7
  <2> DEFINE bits == Append(heard, bit)
  <2>0. port = "request" /\ Len(heard) = 7
    BY <1>2, <1>7, <1>11 DEF k
  <2>1. /\ Near(bits, sent, noise') /\ bits \in Seq({0, 1}) /\ Len(bits) = 8
        /\ bits[8] = bit /\ \A i \in 1 .. 7 : bits[i] = heard[i]
    <3>1. (bit = sent[Len(heard) + 1] /\ noise' = noise) \/ (~noise /\ noise')
      BY <1>3 DEF level, k
    <3>2. /\ Near(bits, sent, noise') /\ bits \in Seq({0, 1})
          /\ Len(bits) = Len(heard) + 1 /\ bits[Len(heard) + 1] = bit
          /\ \A i \in 1 .. Len(heard) : bits[i] = heard[i]
      BY <1>1, <1>2, <1>3, <3>1, NearAppend
    <3> HIDE DEF bits
    <3>3. Len(heard) + 1 = 8
      BY <2>0
    <3>4. QED BY <2>0, <3>2, <3>3
  <2>2. /\ heard' = <<>>
        /\ \/ /\ Swd!Valid(bits)
              /\ \E a \in AckWords :
                   /\ target' = Swd!Turn \o a \o Swd!TargetRest(a, SubSeq(bits, 2, 5))
                   /\ reply' = a /\ served' = SubSeq(bits, 2, 5)
                   /\ port' = "ready"
           \/ /\ ~Swd!Valid(bits)
              /\ port' = "lost" /\ UNCHANGED <<target, reply, served>>
    BY <1>1, <1>3, <2>0, ListenFacts
  <2> HIDE DEF bits
  <2>3. Len(probe') = Turns + 3 /\ Len(read') = 0
    BY <1>1, <1>4, <1>5, <1>11
  <2>4. CASE noise'
    <3>1. PICK j \in 1 .. 8 : bits[j] # sent[j]
      <4>1. CASE noise
        <5>1. PICK i \in 1 .. k : heard[i] # sent[i]
          BY <1>2, <4>1
        <5>2. i \in 1 .. 8 /\ bits[i] # sent[i]
          BY <1>11, <2>1, <5>1
        <5>3. QED BY <5>2
      <4>2. CASE ~noise
        <5>1. bit # level
          <6>1. bit = 1 - level
            BY <1>3, <2>4, <4>2, Zenon
          <6>2. QED BY <1>1, <6>1
        <5>3. k + 1 = 8
          BY <1>11
        <5>4. 8 \in 1 .. 8 /\ bits[8] # sent[8]
          BY <2>1, <5>1, <5>3 DEF level
        <5>2. QED BY <5>4
      <4>3. QED BY <4>1, <4>2
    <3>2. ~Swd!Valid(bits)
      BY <1>1, <2>1, <3>1, PacketWrong DEF sent
    <3>3. port' = "lost" /\ heard' = <<>> /\ target' = <<>> /\ served' = <<>>
      BY <1>2, <2>2, <3>2
    <3>4. AckSoFar(Ones)'
      BY <1>1, <1>4, <2>3, NearNothing DEF AckSoFar, Ones
    <3>5. Astray'
      BY <1>1, <1>4, <1>5, <1>6, <2>3, <3>3, <3>4 DEF Astray, q
    <3>6. QED BY <3>5
  <2>5. CASE ~noise'
    <3>1. bits = sent
      <4>1. \A i \in 1 .. Len(bits) : bits[i] = sent[i]
        BY <2>1, <2>5 DEF Near
      <4>2. Len(bits) = Len(sent) /\ sent \in Seq({0, 1})
        BY <1>8, <2>1
      <4>3. QED BY <2>1, <4>1, <4>2, SeqEqual
    <3>2. Swd!Valid(bits) /\ SubSeq(bits, 2, 5) = q
      BY <1>1, <2>1, <3>1, PacketValid DEF sent
    <3>3. PICK a \in AckWords :
            /\ target' = Swd!Turn \o a \o Swd!TargetRest(a, q)
            /\ reply' = a /\ served' = q /\ port' = "ready"
      BY <2>2, <3>2
    <3>4. Stretch(target', TargetPlan(a, q, word), 0, Turns + 3 + TargetLength(a))
      BY <1>1, <3>3, TargetPlanned DEF SwdTyped
    <3>5. TargetLength(a) \in Nat /\ Turns + 3 + TargetLength(a) \in Nat
      BY <1>1, WireFacts DEF TargetLength, Full
    <3>6. Len(target') = Turns + 3 + TargetLength(a) /\ Follows(target', TargetPlan(a, q, word))
      BY <3>4, <3>5, StretchFollows
    <3>7. TargetLength(reply)' = TargetLength(a) /\ TargetPlan(reply, wanted.request, word)' = TargetPlan(a, q, word)
      BY <1>3, <1>4, <3>3, PlansKept
    <3>8. Answers'
      BY <1>4, <3>3, <3>6, <3>7 DEF Answers
    <3>9. AckSoFar(reply)'
      BY <1>1, <1>4, <2>3, NearNothing DEF AckSoFar
    <3>10. Len(target') = Len(probe') + TargetLength(a)
      BY <1>1, <2>3, <3>5, <3>6
    <3>11. Answering'
      BY <1>4, <1>5, <1>6, <2>2, <2>3, <3>7, <3>8, <3>9, <3>10 DEF Answering, q
    <3>12. QED BY <3>11
  <2>6. QED BY <1>3, <2>4, <2>5
<1>12. QED BY <1>1, <1>9, <1>10, <1>11

\* What the probe does with the line while the target does not answer.
LEMMA AstrayLine ==
  ASSUME SwdTyped, Astray, NEW bit, Sent(bit)
  PROVE  /\ Len(probe) \in Nat /\ Len(probe) >= 1 /\ Len(probe') = Len(probe) - 1
         /\ ack = <<>> /\ Len(probe) <= Turns + 4 => Swd!Line = 1
         /\ ack # <<>> => Swd!Line = 1
         /\ \/ /\ ack = <<>> /\ Follows(probe', AskPlan(wanted.request))
               /\ Len(probe') <= Turns + 11 /\ AckSoFar(Ones)'
            \/ /\ ack \notin AckWords \cup {<<>>}
               /\ Follows(probe', OffPlan) /\ Len(probe') <= Full
<1> DEFINE q == wanted.request
           L == Len(probe)
<1>1. /\ conf \in Configs /\ q \in Swd!AllRequests /\ probe \in Seq(0 .. 3)
      /\ read \in Seq({0, 1}) /\ noise \in BOOLEAN /\ target = <<>>
  BY DEF SwdTyped, Astray, InTransfer
<1>2. Turns \in 1 .. 4 /\ Full \in Nat
  BY <1>1, ConfFacts, WireFacts DEF Full
<1>3. /\ probe # <<>> /\ probe' = Tail(probe) /\ bit \in {0, 1}
      /\ noise' \in BOOLEAN /\ (noise => noise' = noise) /\ ack' = ack
      /\ read' = IF Head(probe) = 2 THEN Append(read, bit) ELSE read
  BY SentFacts
<1>4. (bit = Swd!Line /\ noise' = noise) \/ (~noise /\ noise' = TRUE)
  BY DEF Sent
<1>5. ~(Head(probe) \in {0, 1}) => Swd!Line = 1
  BY <1>1 DEF Swd!Line, Swd!Drives, Swd!Bit
<1>6. Head(probe) = 1 => Swd!Line = 1
  BY <1>3 DEF Swd!Line, Swd!Drives, Swd!Bit
<1> HIDE DEF q, L
<1>7. CASE ack = <<>>
  <2>1. Follows(probe, AskPlan(q)) /\ L <= Turns + 11 /\ AckSoFar(Ones)
    BY <1>7 DEF Astray, q, L
  <2>2. /\ Head(probe) = AskPlan(q)[L - 1] /\ L \in Nat /\ L >= 1
        /\ Len(probe') = L - 1 /\ Follows(probe', AskPlan(q))
    BY <1>1, <1>3, <2>1, NextCycle DEF L
  <2>3. L - 1 \in Nat
    BY <2>2
  <2>4. /\ L <= 3 => Head(probe) = 2
        /\ ~(L <= 3) /\ L <= Turns + 3 => Head(probe) = 3
        /\ ~(L <= Turns + 3) => Head(probe) = Swd!Packet(q)[Turns + 12 - L]
    <3> DEFINE r == L - 1
    <3>1. AskPlan(q)[r] = IF r < 3 THEN 2 ELSE IF r < Turns + 3 THEN 3
                          ELSE Swd!Packet(q)[Turns + 11 - r]
      BY <2>3, CodeFacts DEF AskPlan
    <3>2. (r < 3 <=> L <= 3) /\ (r < Turns + 3 <=> L <= Turns + 3) /\ Turns + 11 - r = Turns + 12 - L
      BY <1>2, <2>2
    <3>3. Turns + 3 >= 3
      BY <1>2
    <3> HIDE DEF r
    <3>4. Head(probe) = AskPlan(q)[r]
      BY <2>2 DEF r
    <3>6. L <= 3 => L <= Turns + 3
      BY <2>2, <3>3, <1>2
    <3>5. QED BY <3>1, <3>2, <3>4, <3>6
  <2>5. ASSUME L <= Turns + 4 PROVE Swd!Line = 1
    <3>1. CASE L <= Turns + 3
      BY <1>5, <2>4, <3>1
    <3>2. CASE ~(L <= Turns + 3)
      <4>1. Turns + 12 - L = 8
        BY <1>2, <2>2, <2>5, <3>2
      <4>2. Swd!Packet(q)[8] = 1
        BY <1>1, PacketBits
      <4>3. QED BY <1>6, <2>4, <3>2, <4>1, <4>2
    <3>3. QED BY <3>1, <3>2
  <2>6. Len(read) = (IF L <= 3 THEN 3 - L ELSE 0) /\ Near(read, Ones, noise)
    BY <2>1 DEF AckSoFar, L
  <2>7. AckSoFar(Ones)'
    <3>1. CASE L <= 3
      <4>1. read' = Append(read, bit) /\ Swd!Line = 1
        BY <1>2, <1>3, <2>2, <2>4, <2>5, <3>1
      <4>2. Ones[Len(read) + 1] = 1
        BY <2>2, <2>6, <3>1 DEF Ones
      <4>3. Near(read', Ones, noise') /\ Len(read') = Len(read) + 1
        BY <1>1, <1>3, <1>4, <2>6, <4>1, <4>2, NearAppend
      <4>4. Len(read') = IF Len(probe') <= 3 THEN 3 - Len(probe') ELSE 0
        BY <2>2, <2>6, <3>1, <4>3
      <4>5. QED BY <4>3, <4>4 DEF AckSoFar, Ones
    <3>2. CASE ~(L <= 3)
      <4>1. Head(probe) # 2
        <5>1. CASE L <= Turns + 3
          BY <2>4, <3>2, <5>1
        <5>2. CASE ~(L <= Turns + 3)
          <6>1. Turns + 12 - L \in 1 .. 8
            BY <1>2, <2>1, <2>2, <5>2
          <6>2. Swd!Packet(q) \in Seq({0, 1}) /\ Len(Swd!Packet(q)) = 8
            BY <1>1, PacketBits
          <6>3. Swd!Packet(q)[Turns + 12 - L] \in {0, 1}
            BY <6>1, <6>2, ElementOfSeq
          <6>4. QED BY <2>4, <5>2, <6>3
        <5>3. QED BY <5>1, <5>2
      <4>2. read' = read /\ Len(read) = 0
        BY <1>3, <2>6, <3>2, <4>1
      <4>3. Near(read', Ones, noise')
        BY <1>1, <1>3, <2>6, <4>2, NearStill
      <4>4. Len(read') = IF Len(probe') <= 3 THEN 3 - Len(probe') ELSE 0
        BY <2>2, <3>2, <4>2
      <4>5. QED BY <4>3, <4>4 DEF AckSoFar, Ones
    <3>3. QED BY <3>1, <3>2
  <2>8. Len(probe') <= Turns + 11
    BY <1>2, <2>1, <2>2
  <2>9. QED BY <1>7, <2>2, <2>5, <2>7, <2>8 DEF q, L
<1>8. CASE ack # <<>>
  <2>1. ack \notin AckWords \cup {<<>>} /\ Follows(probe, OffPlan) /\ L <= Full
    BY <1>8 DEF Astray, L
  <2>2. /\ Head(probe) = OffPlan[L - 1] /\ L \in Nat /\ L >= 1
        /\ Len(probe') = L - 1 /\ Follows(probe', OffPlan)
    BY <1>1, <1>3, <2>1, NextCycle DEF L
  <2>3. Head(probe) = 3
    <3>1. L - 1 \in Nat
      BY <2>2
    <3>2. QED BY <2>2, <3>1, CodeFacts DEF OffPlan
  <2>4. Swd!Line = 1 /\ Len(probe') <= Full
    BY <1>2, <1>5, <2>1, <2>2, <2>3
  <2>5. QED BY <1>8, <2>1, <2>2, <2>4 DEF L
<1>9. QED BY <1>7, <1>8

LEMMA AstraySent == ASSUME SwdTyped, Astray, NEW bit, Sent(bit) PROVE Astray'
<1> DEFINE L == Len(probe)
           n == Len(heard)
<1>1. /\ L \in Nat /\ L >= 1 /\ Len(probe') = L - 1
      /\ ack = <<>> /\ L <= Turns + 4 => Swd!Line = 1
      /\ ack # <<>> => Swd!Line = 1
      /\ \/ /\ ack = <<>> /\ Follows(probe', AskPlan(wanted.request))
            /\ Len(probe') <= Turns + 11 /\ AckSoFar(Ones)'
         \/ /\ ack \notin AckWords \cup {<<>>}
            /\ Follows(probe', OffPlan) /\ Len(probe') <= Full
  BY AstrayLine
<1>2. /\ InTransfer /\ target = <<>> /\ word = wanted.old /\ (served = <<>> \/ noise)
      /\ (port = "lost" /\ heard = <<>>) \/ Listens
      /\ conf \in Configs /\ port \in {"ready", "request", "lost"} /\ heard \in Seq({0, 1})
      /\ noise \in BOOLEAN
  BY DEF Astray, SwdTyped
<1>3. /\ Swd!Listen(bit) /\ word' = word /\ conf' = conf /\ wanted' = wanted /\ ack' = ack
      /\ bit \in {0, 1} /\ noise' \in BOOLEAN
      /\ noise => bit = Swd!Line /\ noise'
  <2>1. /\ conf' = conf /\ wanted' = wanted /\ ack' = ack
        /\ bit \in {0, 1} /\ noise' \in BOOLEAN /\ (noise => noise' = noise)
    BY SentFacts
  <2>5. (bit = Swd!Line /\ noise' = noise) \/ ~noise
    BY DEF Sent
  <2>2. Swd!Listen(bit) /\ word' = word
    BY <1>2, SentFacts
  <2>3. noise => bit = Swd!Line /\ noise'
    BY <1>2, <2>1, <2>5, Zenon
  <2>4. QED BY <2>1, <2>2, <2>3
<1>4. Turns' = Turns /\ Full' = Full /\ AskPlan(wanted.request)' = AskPlan(wanted.request) /\ InTransfer'
      /\ Turns \in 1 .. 4
  BY <1>2, <1>3, PlansKept, TransferKept, ConfFacts
<1>5. ASSUME target' = <<>>, served' = served, (port' = "lost" /\ heard' = <<>>) \/ Listens' PROVE Astray'
  <2>1. served' = <<>> \/ noise'
    BY <1>2, <1>3, <1>5
  <2>2. word' = wanted'.old
    BY <1>2, <1>3
  <2>3. \/ /\ ack' = <<>> /\ Follows(probe', AskPlan(wanted.request)')
           /\ Len(probe') <= Turns' + 11 /\ AckSoFar(Ones)'
        \/ /\ ack' \notin AckWords \cup {<<>>}
           /\ Follows(probe', OffPlan) /\ Len(probe') <= Full'
    BY <1>1, <1>3, <1>4
  <2>4. QED BY <1>4, <1>5, <2>1, <2>2, <2>3 DEF Astray
<1>6. CASE port = "lost"
  <2>1. UNCHANGED <<port, heard, target, reply, served>>
    BY <1>2, <1>3, <1>6, ListenFacts
  <2>2. heard = <<>>
    BY <1>2, <1>6 DEF Listens
  <2>3. QED BY <1>2, <1>5, <1>6, <2>1, <2>2
<1>7. CASE port # "lost"
  <2>0. Listens /\ noise /\ noise' /\ bit = Swd!Line
    BY <1>2, <1>3, <1>7 DEF Listens
  <2>1. CASE port = "ready"
    <3>1. heard = <<>> /\ IF ack = <<>> THEN L \in Turns + 4 .. Turns + 10 ELSE L >= 8
      BY <2>0, <2>1 DEF Listens
    <3>2. CASE bit = 1
      <4>1. port' = "request" /\ heard' = <<1>> /\ UNCHANGED <<target, reply, served>>
        BY <1>2, <1>3, <2>1, <3>2, ListenFacts
      <4>2. Len(heard') = 1
        BY <4>1
      <4> HIDE DEF L
      <4>3. IF ack' = <<>> THEN Len(heard') + Len(probe') \in Turns + 4 .. Turns + 10
            ELSE Len(heard') + Len(probe') >= 8
        BY <1>1, <1>3, <3>1, <4>2
      <4>4. Listens'
        BY <1>4, <2>0, <4>1, <4>2, <4>3 DEF Listens
      <4>5. QED BY <1>2, <1>5, <4>1, <4>4
    <3>3. CASE bit # 1
      <4>1. UNCHANGED <<port, heard, target, reply, served>>
        BY <1>2, <1>3, <2>1, <3>3, ListenFacts
      <4> HIDE DEF L
      <4>2. ack = <<>> /\ L # Turns + 4
        <5>1. ack = <<>> /\ ~(L <= Turns + 4)
          BY <1>1, <2>0, <3>3
        <5>2. QED BY <1>4, <5>1
      <4>3. Len(probe') \in Turns + 4 .. Turns + 10
        BY <1>1, <1>4, <3>1, <4>2
      <4>4. Listens'
        BY <1>3, <1>4, <2>0, <2>1, <3>1, <4>1, <4>2, <4>3 DEF Listens
      <4>5. QED BY <1>2, <1>5, <4>1, <4>4
    <3>4. QED BY <3>2, <3>3
  <2>2. CASE port = "request"
    <3>1. /\ n \in 1 .. 7 /\ (n = 7 => heard[7] = 1)
          /\ IF ack = <<>> THEN n + L \in Turns + 4 .. Turns + 10 ELSE n + L >= 8
      BY <2>0, <2>2 DEF Listens
    <3>2. CASE n < 7
      <4>1. heard' = Append(heard, bit) /\ UNCHANGED <<port, target, reply, served>>
        BY <1>2, <1>3, <2>2, <3>2, ListenFacts
      <4>2. Len(heard') = n + 1 /\ heard'[n + 1] = bit
        BY <1>2, <1>3, <4>1, AppendProperties
      <4> HIDE DEF L, n
      <4>3. /\ Len(heard') \in 1 .. 7
            /\ IF ack = <<>> THEN Len(heard') + Len(probe') \in Turns + 4 .. Turns + 10
               ELSE Len(heard') + Len(probe') >= 8
        BY <1>1, <1>4, <3>1, <3>2, <4>2
      <4>4. ASSUME Len(heard') = 7 PROVE heard'[7] = 1
        <5>1. n + 1 = 7 /\ n = 6
          <6>1. n + 1 = 7
            BY <4>2, <4>4
          <6>2. n \in Int
            BY <3>1
          <6>3. QED BY <6>1, <6>2
        <5>2. ack = <<>> => L <= Turns + 4
          BY <1>1, <1>4, <3>1, <5>1
        <5>3. QED BY <1>1, <2>0, <4>2, <5>1, <5>2
      <4>5. Listens'
        BY <1>3, <1>4, <2>0, <2>2, <4>1, <4>3, <4>4 DEF Listens
      <4>6. QED BY <1>2, <1>5, <4>1, <4>5
    <3>3. CASE n = 7
      <4> DEFINE bits == Append(heard, bit)
      <4>1. bits \in Seq({0, 1}) /\ Len(bits) = 8 /\ bits[7] = 1
        <5>1. bits \in Seq({0, 1}) /\ Len(bits) = Len(heard) + 1 /\ \A i \in 1 .. Len(heard) : bits[i] = heard[i]
          BY <1>2, <1>3, AppendProperties
        <5> HIDE DEF bits
        <5>2. QED BY <3>1, <3>3, <5>1
      <4>2. \/ Swd!Valid(bits)
            \/ port' = "lost" /\ heard' = <<>> /\ UNCHANGED <<target, served>>
        BY <1>2, <1>3, <2>2, <3>3, ListenFacts
      <4> HIDE DEF bits
      <4>3. ~Swd!Valid(bits)
        BY <4>1, PacketValid
      <4>4. port' = "lost" /\ heard' = <<>> /\ target' = target /\ served' = served
        BY <4>2, <4>3, Zenon
      <4>5. target' = <<>> /\ served' = served
        BY <1>2, <4>4
      <4>6. QED BY <1>5, <4>4, <4>5, Zenon
    <3>4. n < 7 \/ n = 7
      <4> HIDE DEF n
      <4>1. QED BY <3>1
    <3>5. QED BY <3>2, <3>3, <3>4, Zenon
  <2>3. QED BY <1>2, <1>7, <2>1, <2>2
<1>8. QED BY <1>6, <1>7

LEMMA AnswersKept ==
  ASSUME SwdTyped, Answers, NEW bit, Sent(bit), reply' = reply, served' = served, port' = port,
         Follows(target', TargetPlan(reply, wanted.request, word)),
         word' = word \/ target' = <<>>
  PROVE  Answers'
<1>1. conf' = conf /\ wanted' = wanted /\ InTransfer'
  BY SentFacts, TransferKept DEF Answers
<1>2. TargetPlan(reply, wanted.request, word)' = TargetPlan(reply', wanted'.request, word')
  BY <1>1, PlansKept
<1>3. Follows(target', TargetPlan(reply', wanted'.request, word'))
  <2>1. CASE word' = word
    BY <1>1, <2>1
  <2>2. CASE target' = <<>>
    BY <2>2 DEF Follows
  <2>3. QED BY <2>1, <2>2
<1>4. QED BY <1>1, <1>2, <1>3 DEF Answers

\* A cycle of the target that answers.
LEMMA TargetProceeds ==
  ASSUME SwdTyped, Answers, target # <<>>, NEW bit, Sent(bit)
  PROVE  /\ Len(target) \in Nat /\ Len(target) >= 1 /\ Len(target') = Len(target) - 1
         /\ Head(target) = TargetPlan(reply, wanted.request, word)[Len(target) - 1]
         /\ Follows(target', TargetPlan(reply, wanted.request, word))
         /\ port' = port /\ reply' = reply /\ served' = served
         /\ Head(target) # 2 => heard' = heard /\ word' = word /\ Answers'
         /\ Head(target) = 2 =>
              /\ heard' = IF Len(Append(heard, bit)) > Bits THEN <<>> ELSE Append(heard, bit)
              /\ word' = IF /\ Len(Append(heard, bit)) > Bits
                            /\ Swd!Parity(SubSeq(Append(heard, bit), 1, Bits))
                                 = Append(heard, bit)[Bits + 1]
                         THEN SubSeq(Append(heard, bit), 1, Bits) ELSE word
         /\ target' = <<>> <=> Len(target) = 1
<1>1. target \in Seq(0 .. 3) /\ Follows(target, TargetPlan(reply, wanted.request, word))
  BY DEF SwdTyped, Answers
<1>2. Swd!Proceed(bit)
  BY SentFacts
<1>3. target' = Tail(target) /\ port' = port /\ reply' = reply /\ served' = served
      /\ (Head(target) # 2 => heard' = heard /\ word' = word)
  BY <1>2, ProceedFacts
<1>4. /\ Len(target) \in Nat /\ Len(target) >= 1 /\ Len(target') = Len(target) - 1
      /\ Head(target) = TargetPlan(reply, wanted.request, word)[Len(target) - 1]
      /\ Follows(target', TargetPlan(reply, wanted.request, word))
      /\ target' = <<>> <=> Len(target) = 1
  BY <1>1, <1>3, NextCycle
<1>5. Head(target) # 2 => Answers'
  BY <1>3, <1>4, AnswersKept
<1>6. QED BY <1>2, <1>3, <1>4, <1>5, ProceedFacts

LEMMA AnsweringSent == ASSUME SwdTyped, Answering, NEW bit, Sent(bit) PROVE Answering'
<1> DEFINE q == wanted.request
           L == Len(probe)
           T == Len(target)
           n == TargetLength(reply)
<1>1. /\ Answers /\ ack = <<>> /\ heard = <<>> /\ word = wanted.old /\ InTransfer
      /\ Follows(probe, AskPlan(q)) /\ L <= Turns + 3 /\ T = L + n
      /\ Len(read) = (IF L <= 3 THEN 3 - L ELSE 0) /\ Near(read, reply, noise)
      /\ conf \in Configs /\ q \in Swd!AllRequests /\ reply \in AckWords
  BY DEF Answering, AckSoFar, Answers, SwdTyped, InTransfer
<1>2. /\ Turns \in 1 .. 4 /\ n \in Nat
  BY <1>1, ConfFacts, WireFacts DEF TargetLength, Full
<1>3. /\ probe \in Seq(0 .. 3) /\ read \in Seq({0, 1}) /\ noise \in BOOLEAN
      /\ target \in Seq(0 .. 3)
  BY DEF SwdTyped
<1>4. /\ probe # <<>> /\ probe' = Tail(probe) /\ bit \in {0, 1}
      /\ noise' \in BOOLEAN /\ (noise => noise' = noise)
      /\ conf' = conf /\ wanted' = wanted /\ ack' = ack
      /\ read' = IF Head(probe) = 2 THEN Append(read, bit) ELSE read
  BY SentFacts
<1>5. (bit = Swd!Line /\ noise' = noise) \/ (~noise /\ noise')
  BY DEF Sent
<1> HIDE DEF q, L, n, T
<1>6. /\ Head(probe) = AskPlan(q)[L - 1] /\ L \in Nat /\ L >= 1
      /\ Len(probe') = L - 1 /\ Follows(probe', AskPlan(q))
  BY <1>1, <1>3, <1>4, NextCycle DEF L
<1>7. Head(probe) = IF L <= 3 THEN 2 ELSE 3
  <2> DEFINE r == L - 1
  <2>1. r \in Nat /\ (r < 3 <=> L <= 3) /\ r < Turns + 3
    BY <1>1, <1>2, <1>6
  <2> HIDE DEF r
  <2>2. AskPlan(q)[r] = IF r < 3 THEN 2 ELSE 3
    BY <2>1, CodeFacts DEF AskPlan
  <2>3. QED BY <1>6, <2>1, <2>2 DEF r
<1>8. target # <<>>
  <2>1. T >= 1
    BY <1>1, <1>2, <1>6
  <2>2. QED BY <2>1, EmptySeq DEF T
<1>9. /\ Len(target') = T - 1 /\ Head(target) = TargetPlan(reply, q, word)[T - 1]
      /\ port' = port /\ reply' = reply /\ served' = served
      /\ Head(target) # 2 => heard' = heard /\ word' = word /\ Answers'
  BY <1>1, <1>8, TargetProceeds DEF T, q
<1>10. Head(target) = IF L <= 3 THEN reply[4 - L] ELSE 3
  <2> DEFINE r == T - 1
  <2>1. r \in Nat /\ r >= n /\ (r >= n + 3 <=> ~(L <= 3)) /\ n + 3 - r = 4 - L
    BY <1>1, <1>2, <1>6
  <2> HIDE DEF r
  <2>2. TargetPlan(reply, q, word)[r] = IF r >= n + 3 THEN 3 ELSE reply[n + 3 - r]
    <3>1. r >= n + 3 \/ r < n + 3
      BY <1>2, <2>1
    <3>2. QED BY <1>1, <2>1, <3>1, PlanOfTarget DEF n
  <2>3. QED BY <1>9, <2>1, <2>2 DEF r
<1>11. L <= 3 => reply[4 - L] \in {0, 1}
  <2>1. L <= 3 => 4 - L \in 1 .. 3
    BY <1>6
  <2>2. QED BY <1>1, <2>1, AckWordIs
<1>12. Head(target) # 2
  BY <1>10, <1>11
<1>13. AckSoFar(reply)'
  <2>1. CASE L <= 3
    <3>1. Swd!Line = reply[4 - L]
      BY <1>7, <1>8, <1>10, <1>11, <2>1 DEF Swd!Line, Swd!Drives, Swd!Bit
    <3>2. Len(read) + 1 = 4 - L
      BY <1>1, <1>6, <2>1
    <3>3. (bit = reply[Len(read) + 1] /\ noise' = noise) \/ (~noise /\ noise')
      BY <1>5, <3>1, <3>2
    <3>4. read' = Append(read, bit)
      BY <1>4, <1>7, <2>1
    <3>5. Near(read', reply, noise') /\ Len(read') = Len(read) + 1
      BY <1>1, <1>3, <1>4, <3>3, <3>4, NearAppend
    <3>6. Len(read') = IF Len(probe') <= 3 THEN 3 - Len(probe') ELSE 0
      BY <1>6, <2>1, <3>2, <3>5
    <3>7. QED BY <1>9, <3>5, <3>6 DEF AckSoFar
  <2>2. CASE ~(L <= 3)
    <3>1. read' = read /\ Len(read) = 0
      BY <1>1, <1>4, <1>7, <2>2
    <3>2. Near(read', reply, noise')
      BY <1>1, <1>3, <1>4, <3>1, NearStill
    <3>3. Len(read') = IF Len(probe') <= 3 THEN 3 - Len(probe') ELSE 0
      BY <1>6, <2>2, <3>1
    <3>4. QED BY <1>9, <3>2, <3>3 DEF AckSoFar
  <2>3. QED BY <2>1, <2>2
<1>14. Len(probe') <= Turns + 3 /\ Len(target') = Len(probe') + n
  BY <1>1, <1>2, <1>6, <1>9
<1>15. Turns' = Turns /\ AskPlan(wanted.request)' = AskPlan(q) /\ TargetLength(reply)' = n
  BY <1>4, <1>9, PlansKept DEF q, n
<1>16. QED BY <1>1, <1>4, <1>6, <1>9, <1>12, <1>13, <1>14, <1>15 DEF Answering

\* A cycle of a target that takes data, whatever is sent there.
LEMMA DataTaken ==
  ASSUME SwdTyped, Answers, reply = Swd!Ok, ~Reads, target # <<>>, Len(target) <= Full,
         NEW bit, Sent(bit), NEW sent, NEW d \in BOOLEAN, NEW e \in BOOLEAN, d => e,
         DataHeard(sent, d),
         Len(target) <= Bits + 1 =>
           (bit = sent[Bits + 2 - Len(target)] /\ e = d) \/ (~d /\ e)
  PROVE  /\ Len(target) = 1 =>
              /\ heard' = <<>> /\ target' = <<>>
              /\ \E bits \in Seq({0, 1}) :
                   /\ Len(bits) = Bits + 1 /\ Near(bits, sent, e)
                   /\ word' = IF Swd!Parity(SubSeq(bits, 1, Bits)) = bits[Bits + 1]
                              THEN SubSeq(bits, 1, Bits) ELSE word
         /\ Len(target) # 1 =>
              /\ word' = word /\ target' # <<>>
              /\ Len(heard') = IF Len(target') > Bits + 1 THEN 0 ELSE Bits + 1 - Len(target')
              /\ Near(heard', sent, e)
         /\ Head(target) \in {2, 3}
<1> DEFINE T == Len(target)
           bits == Append(heard, bit)
<1>1. /\ T \in Nat /\ T >= 1 /\ Len(target') = T - 1
      /\ Head(target) = TargetPlan(reply, wanted.request, word)[T - 1]
      /\ Head(target) # 2 => heard' = heard /\ word' = word
      /\ Head(target) = 2 =>
           /\ heard' = IF Len(bits) > Bits THEN <<>> ELSE bits
           /\ word' = IF /\ Len(bits) > Bits
                         /\ Swd!Parity(SubSeq(bits, 1, Bits)) = bits[Bits + 1]
                      THEN SubSeq(bits, 1, Bits) ELSE word
      /\ target' = <<>> <=> T = 1
  BY TargetProceeds
<1>2. Bits \in Nat /\ T <= Full /\ Full = Turns + Bits + 1 /\ Turns \in 1 .. 4 /\ conf \in Configs
  BY WireFacts, ConfFacts DEF SwdTyped, Full
<1>3. Len(heard) = (IF T > Bits + 1 \/ target = <<>> THEN 0 ELSE Bits + 1 - T) /\ Near(heard, sent, d)
  BY DEF DataHeard
<1>4. heard \in Seq({0, 1}) /\ bit \in {0, 1}
  BY SentFacts DEF SwdTyped
<1>10. T <= Bits + 1 => (bit = sent[Bits + 2 - T] /\ e = d) \/ (~d /\ e)
  OBVIOUS
<1> HIDE DEF T
<1>5. Head(target) = IF T <= Bits + 1 THEN 2 ELSE 3
  <2> DEFINE r == T - 1
  <2>1. r \in Nat /\ r < Full /\ (r < Bits + 1 <=> T <= Bits + 1)
    BY <1>1, <1>2
  <2> HIDE DEF r
  <2>2. TargetPlan(reply, wanted.request, word)[r] = IF r < Bits + 1 THEN 2 ELSE 3
    BY <1>2, <2>1, PlanOfTarget DEF Reads
  <2>3. QED BY <1>1, <2>1, <2>2 DEF r
<1>6. CASE T > Bits + 1
  <2>1. heard' = heard /\ word' = word /\ Len(heard) = 0
    BY <1>1, <1>2, <1>3, <1>5, <1>6
  <2>2. T # 1 /\ target' # <<>> /\ Len(target') = T - 1 /\ T - 1 >= Bits + 1
    BY <1>1, <1>2, <1>6
  <2>3. Near(heard', sent, e)
    BY <1>3, <2>1, NearStill
  <2>4. Len(heard') = IF Len(target') > Bits + 1 THEN 0 ELSE Bits + 1 - Len(target')
    BY <1>1, <1>2, <2>1, <2>2
  <2>5. QED BY <1>5, <1>6, <2>1, <2>2, <2>3, <2>4 DEF T
<1>7. CASE T <= Bits + 1
  <2>1. Len(heard) = Bits + 1 - T /\ Len(heard) + 1 = Bits + 2 - T
    BY <1>1, <1>2, <1>3, <1>7
  <2>2. (bit = sent[Len(heard) + 1] /\ e = d) \/ (~d /\ e)
    BY <1>7, <1>10, <2>1
  <2>3. /\ Near(bits, sent, e) /\ bits \in Seq({0, 1}) /\ Len(bits) = Len(heard) + 1
    BY <1>3, <1>4, <2>2, NearAppend
  <2> HIDE DEF bits
  <2>4. Head(target) = 2
    BY <1>5, <1>7
  <2>5. CASE T = 1
    <3>1. Len(bits) = Bits + 1 /\ Len(bits) > Bits
      BY <1>2, <2>1, <2>3, <2>5
    <3>2. heard' = <<>> /\ target' = <<>>
          /\ word' = IF Swd!Parity(SubSeq(bits, 1, Bits)) = bits[Bits + 1]
                     THEN SubSeq(bits, 1, Bits) ELSE word
      BY <1>1, <2>4, <2>5, <3>1
    <3>3. QED BY <2>3, <2>4, <2>5, <3>1, <3>2 DEF T
  <2>6. CASE T # 1
    <3>1. Len(bits) = Bits + 2 - T /\ ~(Len(bits) > Bits)
      BY <1>1, <1>2, <2>1, <2>3, <2>6
    <3>2. heard' = bits /\ word' = word /\ target' # <<>>
      BY <1>1, <2>4, <2>6, <3>1
    <3>3. Len(heard') = IF Len(target') > Bits + 1 THEN 0 ELSE Bits + 1 - Len(target')
      BY <1>1, <1>2, <1>7, <3>1, <3>2
    <3>4. QED BY <2>3, <2>4, <2>6, <3>2, <3>3 DEF T
  <2>7. QED BY <2>5, <2>6
<1>8. QED BY <1>1, <1>2, <1>6, <1>7

\* The stage in which both ends go by the same acknowledge.
LEMMA MatchingIs ==
  ASSUME SwdTyped, Matching
  PROVE  /\ Answers /\ ack = reply /\ ack \in AckWords /\ conf \in Configs
         /\ Turns \in 1 .. 4 /\ Bits \in Nat /\ Bits >= 8 /\ Full = Turns + Bits + 1
         /\ Idling(ack) \in Nat /\ TargetLength(reply) \in Nat
         /\ (ack # Swd!Ok => Idling(ack) = 0) /\ (ack = Swd!Ok => Idling(ack) = conf.idle)
         /\ (ack = Swd!Ok => TargetLength(reply) = Full)
         /\ Follows(probe, RestPlan(ack, wanted.request, wanted.data))
         /\ Len(probe) <= TargetLength(reply) + Idling(ack)
         /\ Len(probe) > Idling(ack) => target # <<>> /\ Len(target) = Len(probe) - Idling(ack)
         /\ Len(probe) <= Idling(ack) => target = <<>>
         /\ probe \in Seq(0 .. 3) /\ read \in Seq({0, 1}) /\ heard \in Seq({0, 1})
         /\ noise \in BOOLEAN /\ target \in Seq(0 .. 3) /\ word \in [1 .. Bits -> {0, 1}]
         /\ wanted.request \in Swd!AllRequests /\ wanted.data \in SwdWords /\ Len(probe) \in Nat
<1>1. /\ Answers /\ ack = reply /\ reply \in AckWords /\ conf \in Configs
      /\ Follows(probe, RestPlan(ack, wanted.request, wanted.data))
      /\ Len(probe) <= TargetLength(reply) + Idling(ack)
      /\ Len(target) = IF Len(probe) >= Idling(ack) THEN Len(probe) - Idling(ack) ELSE 0
      /\ probe \in Seq(0 .. 3) /\ read \in Seq({0, 1}) /\ heard \in Seq({0, 1})
      /\ noise \in BOOLEAN /\ target \in Seq(0 .. 3) /\ word \in [1 .. Bits -> {0, 1}]
      /\ wanted.request \in Swd!AllRequests /\ wanted.data \in SwdWords
  BY DEF Matching, Answers, SwdTyped, InTransfer
<1>2. Turns \in 1 .. 4 /\ Bits \in Nat /\ Bits >= 8 /\ Full = Turns + Bits + 1 /\ conf.idle \in Nat
  BY <1>1, ConfFacts, WireFacts DEF Full
<1>3. /\ Idling(ack) \in Nat /\ TargetLength(reply) \in Nat
      /\ (ack # Swd!Ok => Idling(ack) = 0) /\ (ack = Swd!Ok => Idling(ack) = conf.idle)
      /\ (ack = Swd!Ok => TargetLength(reply) = Full)
  BY <1>1, <1>2 DEF Idling, TargetLength
<1>4. Len(probe) \in Nat /\ (target = <<>> <=> Len(target) = 0)
  BY <1>1, EmptySeq
<1> DEFINE I == Idling(ack)
           L == Len(probe)
           T == Len(target)
<1>5. I \in Nat /\ L \in Nat /\ (target = <<>> <=> T = 0) /\ T = IF L >= I THEN L - I ELSE 0
  BY <1>1, <1>3, <1>4
<1> HIDE DEF I, L, T
<1>6. (L > I => target # <<>> /\ T = L - I) /\ (L <= I => target = <<>>)
  BY <1>5
<1>7. QED BY <1>1, <1>2, <1>3, <1>4, <1>6 DEF I, L, T

\* What both ends do behind the acknowledge.
LEMMA MatchingLine ==
  ASSUME SwdTyped, Matching, probe # <<>>
  PROVE  /\ Len(probe) >= 1
         /\ Len(probe) <= Idling(ack) => Head(probe) = 0
         /\ Len(probe) > Idling(ack) =>
              /\ ack # Swd!Ok => /\ Head(target) \in {0, 3}
                                 /\ Head(probe) \in {0, 3}
                                 /\ Head(probe) = 3 \/ Head(target) = 3
              /\ ack = Swd!Ok /\ Reads =>
                   IF Len(target) <= Turns THEN Head(probe) = 3 /\ Head(target) = 3
                   ELSE /\ Head(probe) = 2
                        /\ Head(target) = Checked(word)[Full + 1 - Len(target)]
                        /\ Head(target) \in {0, 1}
              /\ ack = Swd!Ok /\ ~Reads =>
                   IF Len(target) <= Bits + 1
                   THEN /\ Head(probe) = Checked(wanted.data)[Bits + 2 - Len(target)]
                        /\ Head(probe) \in {0, 1} /\ Head(target) = 2
                   ELSE Head(probe) = 3 /\ Head(target) = 3
<1> DEFINE q == wanted.request
           I == Idling(ack)
           L == Len(probe)
           T == Len(target)
           plan == RestPlan(ack, q, wanted.data)
<1>1. /\ ack = reply /\ ack \in AckWords /\ conf \in Configs
      /\ Turns \in 1 .. 4 /\ Bits \in Nat /\ Bits >= 8 /\ Full = Turns + Bits + 1
      /\ I \in Nat /\ TargetLength(ack) \in Nat
      /\ (ack # Swd!Ok => I = 0)
      /\ (ack = Swd!Ok => TargetLength(ack) = Full)
      /\ Follows(probe, plan)
      /\ L <= TargetLength(ack) + I
      /\ L > I => target # <<>> /\ T = L - I
      /\ probe \in Seq(0 .. 3) /\ target \in Seq(0 .. 3) /\ word \in [1 .. Bits -> {0, 1}]
      /\ q \in Swd!AllRequests /\ wanted.data \in [1 .. Bits -> {0, 1}]
      /\ Follows(target, TargetPlan(ack, q, word))
  BY MatchingIs, WireFacts DEF Answers
<1> HIDE DEF I, L, T, q, plan
<1>2. Head(probe) = plan[L - 1] /\ L \in Nat /\ L >= 1
  BY <1>1, NextCycle DEF L
<1>3. CASE L <= I
  <2>1. L - 1 \in Nat /\ L - 1 < I
    BY <1>1, <1>2, <1>3
  <2>2. plan[L - 1] = 0
    BY <1>1, <2>1, PlanOfRest DEF plan, I
  <2>3. ~(L > I)
    BY <1>1, <1>2, <1>3
  <2>4. QED BY <1>2, <1>3, <2>2, <2>3 DEF L, I
<1>4. CASE L > I
  <2>1. target # <<>> /\ T = L - I
    BY <1>1, <1>4
  <2>2. Head(target) = TargetPlan(ack, q, word)[T - 1] /\ T \in Nat /\ T >= 1
    BY <1>1, <2>1, NextCycle DEF T
  <2>0. ~(L <= I)
    BY <1>1, <1>2, <1>4
  <2> DEFINE r == L - 1
             t == T - 1
  <2>3. r \in Nat /\ r >= I /\ t \in Nat /\ r = t + I /\ t < TargetLength(ack)
    BY <1>1, <1>2, <1>4, <2>1, <2>2
  <2>4. Head(probe) = plan[r] /\ Head(target) = TargetPlan(ack, q, word)[t]
    BY <1>2, <2>2
  <2> HIDE DEF r, t
  <2>5. CASE ack # Swd!Ok
    <3>1. plan[r] = IF conf.dataPhase /\ ~Swd!IsRead(q) /\ r < Bits + 1 THEN 0 ELSE 3
      BY <1>1, <2>3, <2>5, PlanOfRest DEF plan, AckWords
    <3>2. TargetPlan(ack, q, word)[t] = IF conf.dataPhase /\ Swd!IsRead(q) /\ t >= Turns THEN 0 ELSE 3
      BY <1>1, <2>3, <2>5, PlanOfTarget
    <3>3. Head(target) \in {0, 3} /\ Head(probe) \in {0, 3} /\ (Head(probe) = 3 \/ Head(target) = 3)
      BY <2>4, <3>1, <3>2
    <3>4. QED BY <1>2, <2>0, <2>5, <3>3 DEF L, I
  <2>6. CASE ack = Swd!Ok /\ Reads
    <3>0. Swd!IsRead(q)
      BY <2>6 DEF Reads, q
    <3>1. plan[r] = IF r < I + Turns THEN 3 ELSE 2
      BY <1>1, <2>3, <2>6, <3>0, PlanOfRest DEF plan, I
    <3>2. TargetPlan(ack, q, word)[t] = IF t < Turns THEN 3 ELSE Checked(word)[Full - t]
      BY <1>1, <2>3, <2>6, <3>0, PlanOfTarget
    <3>3. (r < I + Turns <=> T <= Turns) /\ (t < Turns <=> T <= Turns) /\ Full - t = Full + 1 - T
      <4>1. T = t + 1
        BY <2>2 DEF t
      <4>2. Full \in Int /\ Turns \in Int /\ I \in Int
        BY <1>1
      <4>3. r < I + Turns <=> T <= Turns
        BY <2>3, <4>1, <4>2
      <4>4. t < Turns <=> T <= Turns
        BY <2>3, <4>1, <4>2
      <4>5. Full - t = Full + 1 - T
        BY <2>3, <4>1, <4>2
      <4>6. QED BY <4>3, <4>4, <4>5
    <3>4. CASE T <= Turns
      <4>1. Head(probe) = 3 /\ Head(target) = 3
        BY <2>4, <3>1, <3>2, <3>3, <3>4
      <4>2. QED BY <1>2, <2>0, <2>6, <3>4, <4>1 DEF L, I, T
    <3>5. CASE ~(T <= Turns)
      <4>1. Head(probe) = 2 /\ Head(target) = Checked(word)[Full + 1 - T]
        BY <2>4, <3>1, <3>2, <3>3, <3>5
      <4>2. Full + 1 - T \in 1 .. Bits + 1
        BY <1>1, <2>2, <2>3, <2>6, <3>5 DEF t
      <4>3. Checked(word)[Full + 1 - T] \in {0, 1}
        <5>1. Checked(word) \in [1 .. Bits + 1 -> {0, 1}]
          BY <1>1, CheckedWord
        <5>2. QED BY <4>2, <5>1
      <4>4. QED BY <1>2, <2>0, <2>6, <3>5, <4>1, <4>3 DEF L, I, T
    <3>6. QED BY <3>4, <3>5
  <2>7. CASE ack = Swd!Ok /\ ~Reads
    <3>0. ~Swd!IsRead(q)
      BY <2>7 DEF Reads, q
    <3>1. plan[r] = IF r < I + Bits + 1 THEN Checked(wanted.data)[I + Bits + 1 - r] ELSE 3
      BY <1>1, <2>3, <2>7, <3>0, PlanOfRest DEF plan, I
    <3>2. TargetPlan(ack, q, word)[t] = IF t < Bits + 1 THEN 2 ELSE 3
      BY <1>1, <2>3, <2>7, <3>0, PlanOfTarget
    <3>3. /\ (r < I + Bits + 1 <=> T <= Bits + 1) /\ (t < Bits + 1 <=> T <= Bits + 1)
          /\ I + Bits + 1 - r = Bits + 2 - T
      BY <1>1, <2>2, <2>3 DEF t
    <3>4. CASE T <= Bits + 1
      <4>1. Head(target) = 2 /\ Head(probe) = Checked(wanted.data)[Bits + 2 - T]
        BY <2>4, <3>1, <3>2, <3>3, <3>4
      <4>2. Bits + 2 - T \in 1 .. Bits + 1
        BY <1>1, <2>2, <3>4
      <4>3. Checked(wanted.data)[Bits + 2 - T] \in {0, 1}
        <5>1. Checked(wanted.data) \in [1 .. Bits + 1 -> {0, 1}]
          BY <1>1, CheckedWord
        <5>2. QED BY <4>2, <5>1
      <4>4. QED BY <1>2, <2>0, <2>7, <3>4, <4>1, <4>3 DEF L, I, T
    <3>5. CASE ~(T <= Bits + 1)
      <4>1. Head(target) = 3 /\ Head(probe) = 3
        BY <2>4, <3>1, <3>2, <3>3, <3>5
      <4>2. QED BY <1>2, <2>0, <2>7, <3>5, <4>1 DEF L, I, T
    <3>6. QED BY <3>4, <3>5
  <2>8. QED BY <2>5, <2>6, <2>7
<1>5. QED BY <1>1, <1>2, <1>3, <1>4

LEMMA MatchingSent == ASSUME SwdTyped, Matching, NEW bit, Sent(bit) PROVE Matching'
<1> DEFINE q == wanted.request
           I == Idling(ack)
           L == Len(probe)
           T == Len(target)
           plan == RestPlan(ack, q, wanted.data)
<1>1. /\ Answers /\ ack = reply /\ ack \in AckWords /\ conf \in Configs
      /\ Turns \in 1 .. 4 /\ Bits \in Nat /\ Bits >= 8 /\ Full = Turns + Bits + 1
      /\ I \in Nat /\ TargetLength(reply) \in Nat
      /\ (ack # Swd!Ok => I = 0) /\ (ack = Swd!Ok => I = conf.idle)
      /\ (ack = Swd!Ok => TargetLength(reply) = Full)
      /\ Follows(probe, plan)
      /\ L <= TargetLength(reply) + I
      /\ L > I => target # <<>> /\ T = L - I
      /\ L <= I => target = <<>>
      /\ probe \in Seq(0 .. 3) /\ read \in Seq({0, 1}) /\ heard \in Seq({0, 1})
      /\ noise \in BOOLEAN /\ target \in Seq(0 .. 3) /\ word \in [1 .. Bits -> {0, 1}]
      /\ wanted.data \in SwdWords
  BY MatchingIs
<1>2. IF ack # Swd!Ok THEN heard = <<>> /\ word = wanted.old ELSE IF Reads THEN DataRead ELSE DataWritten
  BY DEF Matching
<1>3. /\ probe # <<>> /\ probe' = Tail(probe) /\ bit \in {0, 1}
      /\ noise' \in BOOLEAN /\ (noise => noise' = noise)
      /\ conf' = conf /\ wanted' = wanted /\ ack' = ack
      /\ read' = IF Head(probe) = 2 THEN Append(read, bit) ELSE read
      /\ target = <<>> => Swd!Listen(bit) /\ word' = word
  BY SentFacts
<1>4. /\ L >= 1 /\ L \in Nat
      /\ L <= I => Head(probe) = 0
  BY <1>3, MatchingLine, MatchingIs
<1>5. Follows(probe', plan) /\ Len(probe') = L - 1
  BY <1>1, <1>3, NextCycle DEF L
<1>6. (bit = Swd!Line /\ noise' = noise) \/ (~noise /\ noise' /\ (ack = Swd!Ok => L > conf.idle))
  BY DEF Sent
<1>7. noise => noise'
  BY <1>3
<1>8. L > I => Head(probe) \in {0, 1} \/ Head(target) \in {0, 1} \/ Swd!Line = 1
  BY DEF Swd!Line, Swd!Drives, Swd!Bit
<1>9. /\ Turns' = Turns /\ Full' = Full /\ Idling(ack)' = I /\ (Reads' <=> Reads)
      /\ RestPlan(ack, wanted.request, wanted.data)' = plan
  BY <1>3, PlansKept DEF Reads
<1>10. ASSUME NEW n, reply' = reply PROVE TargetLength(reply)' = TargetLength(reply)
  BY <1>3, <1>10, PlansKept
<1> HIDE DEF I, L, T, q, plan
<1>11. ASSUME Answers', reply' = reply, Len(target') = IF L - 1 >= I THEN L - 1 - I ELSE 0,
              IF ack # Swd!Ok THEN heard' = <<>> /\ word' = wanted.old
              ELSE IF Reads THEN DataRead' ELSE DataWritten'
       PROVE  Matching'
  <2>1. Len(probe') <= TargetLength(reply)' + Idling(ack)'
    BY <1>1, <1>4, <1>5, <1>9, <1>10, <1>11
  <2>2. Len(target') = IF Len(probe') >= Idling(ack)' THEN Len(probe') - Idling(ack)' ELSE 0
    BY <1>5, <1>9, <1>11
  <2>3. IF ack' # Swd!Ok THEN heard' = <<>> /\ word' = wanted'.old ELSE IF Reads' THEN DataRead' ELSE DataWritten'
    BY <1>3, <1>9, <1>11
  <2>4. ack' = reply' /\ Follows(probe', RestPlan(ack, wanted.request, wanted.data)')
    BY <1>1, <1>3, <1>5, <1>9, <1>11
  <2>5. QED BY <1>11, <2>1, <2>2, <2>3, <2>4 DEF Matching
<1>12. CASE L <= I
  <2>1. target = <<>> /\ Head(probe) = 0 /\ ack = Swd!Ok /\ I = conf.idle
    BY <1>1, <1>4, <1>12
  <2>2. bit = 0 /\ noise' = noise
    <3>1. Swd!Line = 0
      BY <1>3, <2>1 DEF Swd!Line, Swd!Drives, Swd!Bit
    <3>2. ~(L > conf.idle)
      BY <1>1, <1>4, <1>12, <2>1
    <3>3. QED BY <1>6, <2>1, <3>1, <3>2
  <2>3. port = "ready"
    BY <1>1 DEF Answers
  <2>4. UNCHANGED <<port, heard, target, reply, served>> /\ word' = word
    <3>1. Swd!Listen(bit) /\ word' = word
      BY <1>3, <2>1
    <3>2. port = "ready" /\ bit # 1
      BY <2>2, <2>3
    <3>3. UNCHANGED <<port, heard, target, reply, served>>
      BY <1>1, <3>1, <3>2, ListenFacts
    <3>4. QED BY <3>1, <3>3
  <2>5. Answers'
    <3>1. Follows(target', TargetPlan(reply, wanted.request, word))
      BY <2>1, <2>4 DEF Follows
    <3>2. QED BY <1>1, <2>4, <3>1, AnswersKept
  <2>6. read' = read
    BY <1>3, <2>1
  <2>7. DataRead <=> DataRead'
    BY <1>1, <1>3, <1>9, <2>2, <2>4, <2>6 DEF DataRead
  <2>8. DataWritten <=> DataWritten'
    BY <1>1, <1>3, <1>9, <2>2, <2>4, <2>6 DEF DataWritten, DataHeard
  <2>9. Len(target') = 0 /\ ~(L - 1 >= I)
    BY <1>1, <1>4, <1>12, <2>1, <2>4
  <2>10. QED BY <1>2, <1>11, <2>1, <2>4, <2>5, <2>7, <2>8, <2>9
<1>13. CASE L > I
  <2>1. /\ target # <<>> /\ T = L - I /\ ~(L <= I)
    BY <1>1, <1>4, <1>13
  <2>2. /\ T \in Nat /\ T >= 1 /\ Len(target') = T - 1
        /\ port' = port /\ reply' = reply /\ served' = served
        /\ Follows(target', TargetPlan(reply, wanted.request, word))
        /\ Head(target) # 2 => heard' = heard /\ word' = word /\ Answers'
        /\ target' = <<>> <=> T = 1
    BY <1>1, <2>1, TargetProceeds DEF T
  <2>3. Len(target') = IF L - 1 >= I THEN L - 1 - I ELSE 0
    BY <1>1, <1>4, <2>1, <2>2
  <2>4. T <= TargetLength(reply)
    BY <1>1, <1>4, <2>1, <2>2
  <2>5. CASE ack # Swd!Ok
    <3>1. Head(target) # 2
      <4>1. Head(target) \in {0, 3}
        BY <1>3, <1>13, <2>5, MatchingLine DEF L, I
      <4>2. QED BY <4>1
    <3>2. QED BY <1>2, <1>11, <2>2, <2>3, <2>5, <3>1
  <2>6. CASE ack = Swd!Ok /\ Reads
    <3>1. DataRead
      BY <1>2, <2>6
    <3>2. /\ heard = <<>> /\ word = wanted.old
          /\ Len(read) = (IF T >= Turns THEN Full - T ELSE Bits + 1)
          /\ Near(read, Checked(word), noise)
      BY <3>1 DEF DataRead, T
    <3>3. IF T <= Turns THEN Head(probe) = 3 /\ Head(target) = 3
          ELSE /\ Head(probe) = 2 /\ Head(target) = Checked(word)[Full + 1 - T]
               /\ Head(target) \in {0, 1}
      BY <1>3, <1>13, <2>6, MatchingLine DEF L, I, T
    <3>4. Head(target) # 2 /\ heard' = heard /\ word' = word /\ Answers'
      <4>1. Head(target) # 2
        BY <3>3
      <4>2. QED BY <2>2, <4>1
    <3>5. Near(read', Checked(word), noise')
          /\ Len(read') = IF T - 1 >= Turns THEN Full - (T - 1) ELSE Bits + 1
      <4>1. CASE T <= Turns
        <5>1. read' = read
          BY <1>3, <3>3, <4>1
        <5>2. Near(read', Checked(word), noise')
          BY <1>7, <3>2, <5>1, NearStill
        <5>3. Len(read') = IF T - 1 >= Turns THEN Full - (T - 1) ELSE Bits + 1
          BY <1>1, <2>2, <3>2, <4>1, <5>1
        <5>4. QED BY <5>2, <5>3
      <4>2. CASE ~(T <= Turns)
        <5>1. Swd!Line = Checked(word)[Full + 1 - T]
          <6>1. Head(probe) = 2 /\ Head(target) \in {0, 1} /\ Head(target) = Checked(word)[Full + 1 - T]
            BY <3>3, <4>2
          <6>2. QED BY <2>1, <6>1 DEF Swd!Line, Swd!Drives, Swd!Bit
        <5>2. Len(read) = Full - T /\ Len(read) + 1 = Full + 1 - T
          BY <1>1, <2>2, <3>2, <4>2
        <5>3. read' = Append(read, bit)
          BY <1>3, <3>3, <4>2
        <5>4. (bit = Checked(word)[Len(read) + 1] /\ noise' = noise) \/ (~noise /\ noise')
          BY <1>6, <5>1, <5>2
        <5>5. Near(read', Checked(word), noise') /\ Len(read') = Len(read) + 1
          BY <1>1, <1>3, <3>2, <5>3, <5>4, NearAppend
        <5>6. Len(read') = IF T - 1 >= Turns THEN Full - (T - 1) ELSE Bits + 1
          BY <1>1, <2>2, <4>2, <5>2, <5>5
        <5>7. QED BY <5>5, <5>6
      <4>3. QED BY <4>1, <4>2
    <3>6. DataRead'
      BY <1>3, <1>9, <2>2, <3>2, <3>4, <3>5 DEF DataRead
    <3>7. QED BY <1>11, <2>2, <2>3, <2>6, <3>4, <3>6
  <2>7. CASE ack = Swd!Ok /\ ~Reads
    <3> DEFINE sent == Checked(wanted.data)
    <3>1. DataHeard(sent, noise) /\ word = wanted.old
      BY <1>2, <2>1, <2>7 DEF DataWritten
    <3>2. IF T <= Bits + 1
          THEN /\ Head(probe) = sent[Bits + 2 - T] /\ Head(probe) \in {0, 1} /\ Head(target) = 2
          ELSE Head(probe) = 3 /\ Head(target) = 3
      BY <1>3, <1>13, <2>7, MatchingLine DEF L, I, T
    <3> HIDE DEF sent
    <3>3. T <= Bits + 1 => (bit = sent[Bits + 2 - T] /\ noise' = noise) \/ (~noise /\ noise')
      <4>1. ASSUME T <= Bits + 1 PROVE Swd!Line = sent[Bits + 2 - T]
        BY <1>3, <3>2, <4>1 DEF Swd!Line, Swd!Drives, Swd!Bit
      <4>2. QED BY <1>6, <4>1
    <3>4. reply = Swd!Ok /\ T <= Full
      BY <1>1, <2>4, <2>7
    <3>5. /\ T = 1 =>
              /\ heard' = <<>> /\ target' = <<>>
              /\ \E bits \in Seq({0, 1}) :
                   /\ Len(bits) = Bits + 1 /\ Near(bits, sent, noise')
                   /\ word' = IF Swd!Parity(SubSeq(bits, 1, Bits)) = bits[Bits + 1]
                              THEN SubSeq(bits, 1, Bits) ELSE word
          /\ T # 1 =>
              /\ word' = word /\ target' # <<>>
              /\ Len(heard') = IF Len(target') > Bits + 1 THEN 0 ELSE Bits + 1 - Len(target')
              /\ Near(heard', sent, noise')
      BY <1>1, <1>3, <1>7, <2>1, <2>7, <3>1, <3>3, <3>4, DataTaken DEF T
    <3>6. /\ Len(heard') = (IF Len(target') > Bits + 1 \/ target' = <<>> THEN 0 ELSE Bits + 1 - Len(target'))
          /\ Near(heard', sent, noise')
          /\ word' \in IF target' = <<>> THEN {wanted.old, wanted.data} ELSE {wanted.old}
      <4>1. CASE T = 1
        <5>1. PICK bits \in Seq({0, 1}) :
                /\ Len(bits) = Bits + 1 /\ Near(bits, sent, noise')
                /\ word' = IF Swd!Parity(SubSeq(bits, 1, Bits)) = bits[Bits + 1]
                           THEN SubSeq(bits, 1, Bits) ELSE word
          BY <3>5, <4>1
        <5>2. wanted.data \in [1 .. Bits -> {0, 1}]
          BY <1>1, WireFacts
        <5>3. Swd!Parity(SubSeq(bits, 1, Bits)) = bits[Bits + 1] => SubSeq(bits, 1, Bits) = wanted.data
          BY <5>1, <5>2, WordRead DEF sent
        <5>4. word' \in {wanted.old, wanted.data}
          BY <3>1, <5>1, <5>3
        <5>5. heard' = <<>> /\ target' = <<>> /\ Len(heard') = 0
          BY <3>5, <4>1
        <5>6. QED BY <5>4, <5>5, NearNothing
      <4>2. CASE T # 1
        BY <3>1, <3>5, <4>2
      <4>3. QED BY <4>1, <4>2
    <3>7. DataWritten'
      BY <1>3, <3>6 DEF DataWritten, DataHeard, sent, Checked
    <3>8. Answers'
      <4>1. word' = word \/ target' = <<>>
        BY <3>5
      <4>2. QED BY <1>1, <2>2, <4>1, AnswersKept
    <3>9. QED BY <1>11, <2>2, <2>3, <2>7, <3>7, <3>8
  <2>8. QED BY <2>5, <2>6, <2>7
<1>14. QED BY <1>1, <1>4, <1>12, <1>13

LEMMA MismatchedSent ==
  ASSUME SwdTyped, Mismatched, NEW bit, Sent(bit) PROVE Mismatched' \/ Astray' \/ Resting'
<1> DEFINE q == wanted.request
           L == Len(probe)
           T == Len(target)
           behind == IF TargetLength(reply) = Full THEN 0 ELSE Bits + 1
<1>1. /\ Answers /\ ack \notin AckWords \cup {<<>>} /\ noise /\ word = wanted.old
      /\ Follows(probe, OffPlan) /\ L <= Full /\ target # <<>> /\ L = T + behind
      /\ IF reply = Swd!Ok /\ ~Reads THEN DataHeard(Ones, FALSE) ELSE heard = <<>>
      /\ conf \in Configs /\ probe \in Seq(0 .. 3) /\ heard \in Seq({0, 1})
      /\ q \in Swd!AllRequests /\ reply \in AckWords /\ port = "ready" /\ served = q /\ InTransfer
      /\ word \in [1 .. Bits -> {0, 1}]
  BY DEF Mismatched, Answers, SwdTyped, InTransfer
<1>2. /\ Turns \in 1 .. 4 /\ Bits \in Nat /\ Bits >= 8 /\ Bits % 2 = 0 /\ Full = Turns + Bits + 1
      /\ TargetLength(reply) \in {Full, Turns} /\ (reply = Swd!Ok => TargetLength(reply) = Full)
  BY <1>1, ConfFacts, WireFacts DEF Full, TargetLength
<1>3. /\ probe # <<>> /\ probe' = Tail(probe) /\ bit \in {0, 1}
      /\ noise' = noise
      /\ conf' = conf /\ wanted' = wanted /\ ack' = ack
  BY <1>1, SentFacts
<1>4. bit = Swd!Line
  BY <1>1 DEF Sent
<1> HIDE DEF q, L, T, behind
<1>5. /\ Head(probe) = OffPlan[L - 1] /\ L \in Nat /\ L >= 1
      /\ Len(probe') = L - 1 /\ Follows(probe', OffPlan)
  BY <1>1, <1>3, NextCycle DEF L
<1>6. Head(probe) = 3
  <2>1. L - 1 \in Nat
    BY <1>5
  <2>2. QED BY <1>5, <2>1, CodeFacts DEF OffPlan
<1>7. /\ T \in Nat /\ T >= 1 /\ Len(target') = T - 1
      /\ Head(target) = TargetPlan(reply, q, word)[T - 1]
      /\ Follows(target', TargetPlan(reply, q, word))
      /\ port' = port /\ reply' = reply /\ served' = served
      /\ Head(target) # 2 => heard' = heard /\ word' = word /\ Answers'
      /\ target' = <<>> <=> T = 1
  BY <1>1, TargetProceeds DEF T, q
<1>8. behind \in {0, Bits + 1} /\ T <= TargetLength(reply) /\ (behind = 0 <=> TargetLength(reply) = Full)
  BY <1>1, <1>2, <1>5, <1>7 DEF behind
<1>9. /\ word' = word /\ Answers'
      /\ T = 1 => heard' = <<>>
      /\ T # 1 => IF reply = Swd!Ok /\ ~Reads
                  THEN /\ Len(heard') = IF Len(target') > Bits + 1 THEN 0 ELSE Bits + 1 - Len(target')
                       /\ Near(heard', Ones, FALSE)
                  ELSE heard' = <<>>
  <2>1. CASE reply = Swd!Ok /\ ~Reads
    <3>1. DataHeard(Ones, FALSE) /\ T <= Full
      BY <1>1, <1>2, <1>8, <2>1
    <3>2. ASSUME T <= Bits + 1 PROVE bit = Ones[Bits + 2 - T]
      <4>1. Head(target) = 2
        <5> DEFINE r == T - 1
        <5>1. r \in Nat /\ r < Full /\ r < Bits + 1
          BY <1>2, <1>7, <3>1, <3>2
        <5> HIDE DEF r
        <5>2. TargetPlan(reply, q, word)[r] = 2
          BY <1>1, <2>1, <5>1, PlanOfTarget DEF Reads, q
        <5>3. QED BY <1>7, <5>2 DEF r
      <4>2. Swd!Line = 1
        BY <1>6, <4>1 DEF Swd!Line, Swd!Drives, Swd!Bit
      <4>3. Bits + 2 - T \in Nat
        BY <1>2, <1>7, <3>2
      <4>4. QED BY <1>4, <4>2, <4>3 DEF Ones
    <3>3. T <= Bits + 1 => (bit = Ones[Bits + 2 - T] /\ FALSE = FALSE) \/ (~FALSE /\ FALSE)
      BY <3>2
    <3>4. /\ T = 1 =>
              /\ heard' = <<>> /\ target' = <<>>
              /\ \E bits \in Seq({0, 1}) :
                   /\ Len(bits) = Bits + 1 /\ Near(bits, Ones, FALSE)
                   /\ word' = IF Swd!Parity(SubSeq(bits, 1, Bits)) = bits[Bits + 1]
                              THEN SubSeq(bits, 1, Bits) ELSE word
          /\ T # 1 =>
              /\ word' = word /\ target' # <<>>
              /\ Len(heard') = IF Len(target') > Bits + 1 THEN 0 ELSE Bits + 1 - Len(target')
              /\ Near(heard', Ones, FALSE)
      <4> DEFINE d == FALSE
      <4>1. d \in BOOLEAN /\ (d => d) /\ DataHeard(Ones, d)
            /\ (T <= Bits + 1 => (bit = Ones[Bits + 2 - T] /\ d = d) \/ (~d /\ d))
        BY <3>1, <3>3
      <4> HIDE DEF d
      <4>2. /\ T = 1 =>
              /\ heard' = <<>> /\ target' = <<>>
              /\ \E bits \in Seq({0, 1}) :
                   /\ Len(bits) = Bits + 1 /\ Near(bits, Ones, d)
                   /\ word' = IF Swd!Parity(SubSeq(bits, 1, Bits)) = bits[Bits + 1]
                              THEN SubSeq(bits, 1, Bits) ELSE word
            /\ T # 1 =>
              /\ word' = word /\ target' # <<>>
              /\ Len(heard') = IF Len(target') > Bits + 1 THEN 0 ELSE Bits + 1 - Len(target')
              /\ Near(heard', Ones, d)
        BY <1>1, <2>1, <3>1, <4>1, DataTaken DEF T
      <4>3. QED BY <4>2 DEF d
    <3>5. word' = word
      <4>1. CASE T = 1
        <5>1. PICK bits \in Seq({0, 1}) :
                /\ Len(bits) = Bits + 1 /\ Near(bits, Ones, FALSE)
                /\ word' = IF Swd!Parity(SubSeq(bits, 1, Bits)) = bits[Bits + 1]
                           THEN SubSeq(bits, 1, Bits) ELSE word
          BY <3>4, <4>1
        <5>2. \A i \in 1 .. Bits + 1 : bits[i] = 1
          <6>1. \A i \in 1 .. Bits + 1 : bits[i] = Ones[i]
            BY <5>1 DEF Near
          <6>2. QED BY <1>2, <6>1 DEF Ones
        <5> DEFINE v == SubSeq(bits, 1, Bits)
        <5>3. v \in [1 .. Bits -> {0, 1}] /\ \A i \in 1 .. Bits : v[i] = 1
          <6>1. Bits \in Nat /\ 1 \in Nat /\ 1 >= 1 /\ Bits <= Len(bits) /\ Bits = Bits - 1 + 1
            BY <1>2, <5>1
          <6>2. PartIs(bits, 1, Bits, Bits, {0, 1})
            BY <6>1, PartOfSeq
          <6>3. \A i \in 1 .. Bits : 1 + i - 1 = i /\ i \in 1 .. Bits + 1
            BY <6>1
          <6>4. QED BY <5>2, <6>2, <6>3 DEF PartIs
        <5> HIDE DEF v
        <5>4. Swd!Parity(v) = 0
          BY <1>2, <5>3, ParityOfOnes
        <5>5. bits[Bits + 1] = 1
          <6>1. Bits + 1 \in 1 .. Bits + 1
            BY <1>2
          <6>2. QED BY <5>2, <6>1
        <5>6. QED BY <5>1, <5>4, <5>5 DEF v
      <4>2. CASE T # 1
        BY <3>4, <4>2
      <4>3. QED BY <4>1, <4>2
    <3>6. Answers'
      BY <1>1, <1>7, <3>5, AnswersKept DEF q
    <3>7. QED BY <2>1, <3>4, <3>5, <3>6
  <2>2. CASE ~(reply = Swd!Ok /\ ~Reads)
    <3>1. Head(target) # 2
      <4> DEFINE r == T - 1
      <4>1. r \in Nat /\ r < TargetLength(reply)
        BY <1>2, <1>7, <1>8
      <4> HIDE DEF r
      <4>2. CASE reply = Swd!Ok
        <5>1. Reads /\ r < Full
          BY <1>2, <2>2, <4>1, <4>2
        <5>2. TargetPlan(reply, q, word)[r] = IF r < Turns THEN 3 ELSE Checked(word)[Full - r]
          BY <1>1, <4>1, <4>2, <5>1, PlanOfTarget DEF Reads, q
        <5>3. r < Turns \/ Full - r \in 1 .. Bits + 1
          BY <1>2, <4>1, <5>1
        <5>4. Checked(word) \in [1 .. Bits + 1 -> {0, 1}]
          BY <1>1, CheckedWord
        <5>5. r < Turns \/ Checked(word)[Full - r] \in {0, 1}
          BY <5>3, <5>4
        <5>6. QED BY <1>7, <5>2, <5>5 DEF r
      <4>3. CASE reply # Swd!Ok
        <5>1. TargetPlan(reply, q, word)[r] \in {0, 3}
          BY <1>1, <4>1, <4>3, PlanOfTarget
        <5>2. QED BY <1>7, <5>1 DEF r
      <4>4. QED BY <4>2, <4>3
    <3>2. heard = <<>>
      BY <1>1, <2>2
    <3>3. QED BY <1>7, <2>2, <3>1, <3>2
  <2>3. QED BY <2>1, <2>2
<1>10. /\ Turns' = Turns /\ Full' = Full /\ TargetLength(reply)' = TargetLength(reply)
       /\ (Reads' <=> Reads) /\ InTransfer' /\ wanted'.request = q /\ wanted'.old = wanted.old
  BY <1>1, <1>3, <1>7, PlansKept, TransferKept DEF Reads, q
<1>11. L - 1 <= Full /\ ack' \notin AckWords \cup {<<>>}
  BY <1>1, <1>2, <1>3, <1>5
<1>12. CASE T # 1
  <2>1. target' # <<>> /\ Len(probe') = Len(target') + behind
    BY <1>1, <1>5, <1>7, <1>8, <1>12, <1>2
  <2>2. IF reply' = Swd!Ok /\ ~Reads' THEN DataHeard(Ones, FALSE)' ELSE heard' = <<>>
    BY <1>7, <1>9, <1>10, <1>12, <2>1 DEF DataHeard, Ones
  <2>3. Len(probe') = Len(target') + IF TargetLength(reply)' = Full' THEN 0 ELSE Bits + 1
    BY <1>10, <2>1 DEF behind
  <2>4. Mismatched'
    BY <1>1, <1>3, <1>5, <1>9, <1>10, <1>11, <2>1, <2>2, <2>3 DEF Mismatched
  <2>5. QED BY <2>4
<1>13. CASE T = 1
  <2>1. target' = <<>> /\ heard' = <<>> /\ port' = "ready" /\ word' = wanted'.old /\ noise'
    BY <1>1, <1>3, <1>7, <1>9, <1>10, <1>13
  <2>2. CASE behind = 0
    <3>1. probe' = <<>>
      <4>1. Len(probe') = 0 /\ probe' \in Seq(0 .. 3)
        BY <1>1, <1>5, <1>13, <2>2, SentTyped DEF SwdTyped
      <4>2. QED BY <4>1, EmptySeq
    <3>2. ack' # Swd!Ok /\ ack' # <<>>
      BY <1>11 DEF AckWords
    <3>3. Swd!OkMeansDone' /\ Swd!RefusedIsUntouched' /\ Swd!InStep'
      BY <2>1, <3>2 DEF Swd!OkMeansDone, Swd!RefusedIsUntouched, Swd!InStep, Swd!ReturnsOk, Swd!Ok
    <3>4. Resting'
      BY <1>10, <2>1, <3>1, <3>2, <3>3 DEF Resting
    <3>5. QED BY <3>4
  <2>3. CASE behind = Bits + 1
    <3>1. Len(probe') = Bits + 1 /\ Len(probe') >= 8
      BY <1>1, <1>2, <1>5, <1>13, <2>3
    <3>2. Listens'
      BY <1>11, <2>1, <3>1 DEF Listens
    <3>3. Astray'
      BY <1>5, <1>10, <1>11, <2>1, <3>2 DEF Astray
    <3>4. QED BY <3>3
  <2>4. QED BY <1>8, <2>2, <2>3
<1>14. QED BY <1>12, <1>13

-----------------------------------------------------------------------------
LEMMA SwdInit == MCInit /\ part = "swd" => SwdTyped /\ SwdStages
<1> SUFFICES ASSUME MCInit, part = "swd" PROVE SwdTyped /\ SwdStages
  OBVIOUS
<1>1. /\ conf \in Configs /\ probe = <<>> /\ target = <<>> /\ port = "ready"
      /\ heard = <<>> /\ read = <<>> /\ ack = <<>> /\ reply = <<>> /\ served = <<>>
      /\ wanted = [request |-> <<>>, data |-> <<>>, old |-> <<>>]
      /\ word \in SwdWords /\ noise = FALSE /\ transfers = 0
  BY DEF MCInit, Swd!Init
<1>2. Resting
  BY <1>1 DEF Resting
<1>3. SwdTyped
  <2>1. word \in [1 .. Bits -> {0, 1}] /\ transfers \in 0 .. MaxTransfers
    BY <1>1, WireFacts
  <2>2. <<>> \in Seq(0 .. 3) /\ <<>> \in Seq({0, 1}) /\ FALSE \in BOOLEAN
    OBVIOUS
  <2>3. /\ probe \in Seq(0 .. 3) /\ target \in Seq(0 .. 3) /\ heard \in Seq({0, 1})
        /\ read \in Seq({0, 1}) /\ noise \in BOOLEAN
    BY <1>1, <2>2, Zenon
  <2>4. QED BY <1>1, <2>1, <2>3 DEF SwdTyped
<1>4. QED BY <1>2, <1>3 DEF SwdStages

\* A transfer that is over has left things as they should be.
LEMMA MatchingDone ==
  ASSUME SwdTyped, Matching, probe = <<>>
  PROVE  /\ target = <<>> /\ heard = <<>> /\ port = "ready" /\ InTransfer /\ ack # <<>>
         /\ Swd!OkMeansDone /\ Swd!RefusedIsUntouched /\ Swd!InStep
<1>1. /\ Answers /\ ack = reply /\ ack \in AckWords /\ Turns \in 1 .. 4 /\ Bits \in Nat
      /\ Idling(ack) \in Nat /\ (Len(probe) <= Idling(ack) => target = <<>>)
      /\ read \in Seq({0, 1}) /\ noise \in BOOLEAN /\ word \in [1 .. Bits -> {0, 1}]
  BY MatchingIs
<1>2. target = <<>> /\ Len(target) = 0
  BY <1>1
<1>3. IF ack # Swd!Ok THEN heard = <<>> /\ word = wanted.old ELSE IF Reads THEN DataRead ELSE DataWritten
  BY DEF Matching
<1>4. port = "ready" /\ served = wanted.request /\ InTransfer
  BY <1>1 DEF Answers
<1>5. ack # <<>>
  BY <1>1, CodeFacts DEF AckWords
<1>6. heard = <<>>
  <2>1. CASE ack # Swd!Ok
    BY <1>3, <2>1
  <2>2. CASE ack = Swd!Ok /\ Reads
    BY <1>3, <2>2 DEF DataRead
  <2>3. CASE ack = Swd!Ok /\ ~Reads
    <3>1. Len(heard) = 0 /\ heard \in Seq({0, 1})
      BY <1>2, <1>3, <2>3 DEF DataWritten, DataHeard, SwdTyped
    <3>2. QED BY <3>1, EmptySeq
  <2>4. QED BY <2>1, <2>2, <2>3
<1>7. Swd!OkMeansDone
  <2> SUFFICES ASSUME Swd!ReturnsOk
               PROVE  /\ served = wanted.request /\ reply = Swd!Ok
                      /\ Swd!IsRead(wanted.request) => SubSeq(read, 1, Bits) = word
                      /\ ~Swd!IsRead(wanted.request) => word \in {wanted.old, wanted.data}
    BY DEF Swd!OkMeansDone, Bits
  <2>1. ack = Swd!Ok /\ reply = Swd!Ok
    BY <1>1 DEF Swd!ReturnsOk
  <2>2. ASSUME Swd!IsRead(wanted.request) PROVE SubSeq(read, 1, Bits) = word
    <3>1. Len(read) = Bits + 1 /\ Near(read, Checked(word), noise)
      BY <1>1, <1>2, <1>3, <2>1, <2>2 DEF DataRead, Reads
    <3>2. Swd!Parity(SubSeq(read, 1, Bits)) = read[Bits + 1]
      BY <2>2 DEF Swd!ReturnsOk, Bits
    <3>3. QED BY <1>1, <3>1, <3>2, WordRead
  <2>3. ASSUME ~Swd!IsRead(wanted.request) PROVE word \in {wanted.old, wanted.data}
    BY <1>2, <1>3, <2>1, <2>3 DEF DataWritten, Reads
  <2>4. QED BY <1>4, <2>1, <2>2, <2>3
<1>8. Swd!RefusedIsUntouched
  BY <1>3 DEF Swd!RefusedIsUntouched
<1>9. Swd!InStep
  BY <1>2, <1>4 DEF Swd!InStep
<1>10. QED BY <1>2, <1>4, <1>5, <1>6, <1>7, <1>8, <1>9

LEMMA Settled == ASSUME SwdTyped, SwdStages, Swd!Idle PROVE Resting
<1>1. probe = <<>> /\ (ack # <<>> \/ wanted.request = <<>>)
  BY DEF Swd!Idle
<1>2. Len(probe) = 0
  BY <1>1
<1>3. conf \in Configs => Turns \in 1 .. 4
  BY ConfFacts
<1>4. conf \in Configs
  BY DEF SwdTyped
<1>5. InTransfer => ack # <<>>
  <2>1. ASSUME InTransfer PROVE wanted.request # <<>>
    <3>1. wanted.request \in [1 .. 4 -> {0, 1}]
      BY <2>1 DEF InTransfer, Swd!AllRequests, Swd!Bit
    <3>2. Len(wanted.request) = 4
      BY <3>1, FunctionIsSeq
    <3>3. QED BY <3>2
  <2>2. QED BY <1>1, <2>1
<1>6. ~Asking
  BY <1>2, <1>3, <1>4 DEF Asking
<1>7. ~Answering
  <2>1. Answering => InTransfer /\ ack = <<>>
    BY DEF Answering, Answers
  <2>2. QED BY <1>5, <2>1
<1>8. ASSUME Mismatched PROVE FALSE
  <2>1. target \in Seq(0 .. 3) /\ target # <<>> /\ Bits \in Nat
        /\ 0 = Len(target) + IF TargetLength(reply) = Full THEN 0 ELSE Bits + 1
    BY <1>2, <1>8, WireFacts DEF Mismatched, SwdTyped
  <2>2. Len(target) \in Nat /\ Len(target) # 0
    BY <2>1, EmptySeq
  <2>3. QED BY <2>1, <2>2
<1>9. ASSUME Astray PROVE Resting
  <2>1. InTransfer /\ target = <<>> /\ word = wanted.old /\ (served = <<>> \/ noise)
        /\ ((port = "lost" /\ heard = <<>>) \/ Listens)
    BY <1>9 DEF Astray
  <2>2. ack # <<>> /\ ack \notin AckWords
    BY <1>5, <1>9, <2>1 DEF Astray
  <2>3. ~Listens
    <3>1. heard \in Seq({0, 1}) /\ Len(heard) \in Nat
      BY DEF SwdTyped
    <3>2. ASSUME Listens PROVE FALSE
      <4>1. \/ Len(probe) >= 8
            \/ Len(heard) \in 1 .. 7 /\ Len(heard) + Len(probe) >= 8
        BY <2>2, <3>2 DEF Listens
      <4> DEFINE n == Len(heard)
                 L == Len(probe)
      <4>2. L = 0 /\ (L >= 8 \/ (n \in 1 .. 7 /\ n + L >= 8))
        BY <1>2, <4>1
      <4> HIDE DEF n, L
      <4>3. QED BY <4>2
    <3>3. QED BY <3>2
  <2>4. ack # Swd!Ok
    BY <2>2 DEF AckWords
  <2>5. wanted.request # <<>>
    <3>1. wanted.request \in [1 .. 4 -> {0, 1}]
      BY <2>1 DEF InTransfer, Swd!AllRequests, Swd!Bit
    <3>2. Len(wanted.request) = 4
      BY <3>1, FunctionIsSeq
    <3>3. QED BY <3>2
  <2>6. Swd!OkMeansDone /\ Swd!RefusedIsUntouched /\ Swd!InStep
    BY <2>1, <2>4, <2>5 DEF Swd!OkMeansDone, Swd!RefusedIsUntouched, Swd!InStep, Swd!ReturnsOk
  <2>7. QED BY <1>1, <2>1, <2>2, <2>3, <2>6 DEF Resting
<1>10. ASSUME Matching PROVE Resting
  BY <1>1, <1>10, MatchingDone DEF Resting
<1>11. QED BY <1>6, <1>7, <1>8, <1>9, <1>10 DEF SwdStages

LEMMA SwdTransfer ==
  ASSUME SwdTyped, SwdStages, NEW q \in Swd!AllRequests, NEW w \in SwdWords, Swd!Transfer(q, w)
  PROVE  SwdTyped' /\ SwdStages'
<1>1. /\ Swd!Idle /\ transfers < MaxTransfers /\ transfers' = transfers + 1
      /\ probe' = Swd!RequestCycles(q)
      /\ wanted' = [request |-> q, data |-> w, old |-> word]
      /\ read' = <<>> /\ ack' = <<>> /\ reply' = <<>> /\ served' = <<>> /\ noise' = FALSE
      /\ conf' = conf /\ target' = target /\ port' = port /\ heard' = heard /\ word' = word
  BY DEF Swd!Transfer
<1>2. Resting
  BY <1>1, Settled
<1>3. target = <<>> /\ heard = <<>> /\ port \in {"ready", "lost"}
  BY <1>2 DEF Resting
<1>4. /\ conf \in Configs /\ word \in [1 .. Bits -> {0, 1}] /\ transfers \in 0 .. MaxTransfers
      /\ heard \in Seq({0, 1}) /\ target \in Seq(0 .. 3)
  BY DEF SwdTyped
<1>5. Turns \in 1 .. 4
  BY <1>4, ConfFacts
<1>6. probe' \in Seq(0 .. 3) /\ Len(probe') = Turns + 11 /\ Follows(probe', AskPlan(q))
  <2>1. Stretch(probe', AskPlan(q), 0, Turns + 11) /\ Turns + 11 \in Nat
    BY <1>1, <1>4, <1>5, RequestPlanned
  <2>2. QED BY <2>1, StretchFollows
<1>7. SwdTyped'
  <2>1. <<>> \in Seq({0, 1}) /\ FALSE \in BOOLEAN
    OBVIOUS
  <2>2. read' \in Seq({0, 1}) /\ noise' \in BOOLEAN
    BY <1>1, <2>1, Zenon
  <2>3. transfers' \in 0 .. MaxTransfers
    BY <1>1, <1>4, WireFacts
  <2>4. QED BY <1>1, <1>3, <1>4, <1>6, <2>2, <2>3 DEF SwdTyped
<1>8. /\ Turns' = Turns /\ AskPlan(wanted.request)' = AskPlan(q) /\ InTransfer' /\ word' = wanted'.old
  <2>1. wanted'.request = q /\ wanted'.data = w /\ wanted'.old = word
    BY <1>1
  <2>2. QED BY <1>1, <1>4, <2>1, PlansKept DEF InTransfer
<1>9. Len(heard') = 0 /\ Len(read') = 0
  BY <1>1, <1>3
<1>10. CASE port = "ready"
  <2>1. Near(heard', Swd!Packet(wanted.request)', noise')
    BY <1>1, <1>3, NearNothing
  <2>2. Len(probe') \in Turns + 4 .. Turns + 11 /\ Len(heard') = Turns + 11 - Len(probe')
    BY <1>5, <1>6, <1>9
  <2>3. Near(heard', Swd!Packet(wanted'.request), noise')
    BY <1>1, <1>3, NearNothing
  <2>4. Asking'
    BY <1>1, <1>3, <1>6, <1>8, <1>10, <2>2, <2>3 DEF Asking
  <2>5. QED BY <1>7, <2>4 DEF SwdStages
<1>11. CASE port = "lost"
  <2>1. AckSoFar(Ones)'
    <3>1. ~(Len(probe') <= 3)
      BY <1>5, <1>6
    <3>2. QED BY <1>1, <1>9, <3>1, NearNothing DEF AckSoFar, Ones
  <2>2. Len(probe') <= Turns' + 11
    BY <1>5, <1>6, <1>8
  <2>3. Astray'
    BY <1>1, <1>3, <1>6, <1>8, <1>11, <2>1, <2>2 DEF Astray
  <2>4. QED BY <1>7, <2>3 DEF SwdStages
<1>12. QED BY <1>3, <1>10, <1>11

LEMMA SwdAckRead == ASSUME SwdTyped, SwdStages, Swd!AckRead PROVE SwdTyped' /\ SwdStages'
<1> DEFINE q == wanted.request
           a == read
<1>1. /\ probe = <<>> /\ ack = <<>> /\ Len(a) = 3 /\ ack' = a /\ read' = <<>>
      /\ probe' = Swd!Rest(a, q, wanted.data)
      /\ conf' = conf /\ target' = target /\ port' = port /\ heard' = heard /\ wanted' = wanted
      /\ reply' = reply /\ word' = word /\ served' = served /\ noise' = noise
      /\ transfers' = transfers
  BY DEF Swd!AckRead
<1>2. /\ conf \in Configs /\ word \in [1 .. Bits -> {0, 1}] /\ transfers \in 0 .. MaxTransfers
      /\ heard \in Seq({0, 1}) /\ target \in Seq(0 .. 3) /\ port \in {"ready", "request", "lost"}
      /\ a \in Seq({0, 1}) /\ noise \in BOOLEAN
  BY DEF SwdTyped
<1>3. Turns \in 1 .. 4 /\ Bits \in Nat /\ Bits >= 8 /\ Full = Turns + Bits + 1
  BY <1>2, ConfFacts, WireFacts DEF Full
<1>4. Len(probe) = 0 /\ a # <<>>
  BY <1>1
<1>5. ~Resting /\ ~Matching /\ ~Mismatched /\ ~Asking
  <2>1. ~Resting
    BY <1>1, <1>4 DEF Resting
  <2>2. ~Matching
    BY <1>1, CodeFacts DEF Matching, Answers, AckWords
  <2>3. ~Mismatched
    BY <1>1 DEF Mismatched
  <2>4. ~Asking
    BY <1>3, <1>4 DEF Asking
  <2>5. QED BY <2>1, <2>2, <2>3, <2>4
<1>6. Astray \/ Answering
  BY <1>5 DEF SwdStages
<1>7. InTransfer /\ q \in Swd!AllRequests /\ wanted.data \in SwdWords
  BY <1>6 DEF Astray, Answering, Answers, InTransfer
<1>8. /\ a \in AckWords => Stretch(probe', RestPlan(a, q, wanted.data), 0, TargetLength(a) + Idling(a))
      /\ a \notin AckWords => Stretch(probe', OffPlan, 0, Full)
  BY <1>1, <1>2, <1>7, RestPlanned
<1>9. SwdTyped'
  <2>1. probe' \in Seq(0 .. 3)
    BY <1>8 DEF Stretch
  <2>2. QED BY <1>1, <1>2, <2>1, WireFacts DEF SwdTyped
<1> HIDE DEF q, a
<1>10. /\ Turns' = Turns /\ Full' = Full /\ TargetLength(reply)' = TargetLength(reply)
       /\ Idling(ack)' = Idling(a) /\ InTransfer' /\ (Reads' <=> Reads)
       /\ RestPlan(ack, wanted.request, wanted.data)' = RestPlan(a, q, wanted.data)
       /\ TargetPlan(reply, wanted.request, word)' = TargetPlan(reply, q, word)
  BY <1>1, <1>7, PlansKept DEF InTransfer, Reads, q
<1>11. a \notin AckWords => Follows(probe', OffPlan) /\ Len(probe') = Full
  BY <1>3, <1>8, StretchFollows
<1>12. CASE Astray
  <2>1. AckSoFar(Ones) /\ target = <<>> /\ word = wanted.old /\ (served = <<>> \/ noise)
        /\ ((port = "lost" /\ heard = <<>>) \/ Listens)
    BY <1>1, <1>12 DEF Astray
  <2>2. Near(a, Ones, noise)
    BY <2>1 DEF AckSoFar, a
  <2>3. a \notin AckWords \cup {<<>>}
    BY <1>1, <1>2, <2>2, NearOnes DEF a
  <2>4. (port' = "lost" /\ heard' = <<>>) \/ Listens'
    <3>1. CASE Listens
      <4>1. /\ noise
            /\ port = "request" /\ Len(heard) \in 1 .. 7
            /\ Len(heard) = 7 => heard[7] = 1
        BY <1>1, <1>3, <1>4, <3>1 DEF Listens
      <4>2. Len(heard') + Len(probe') >= 8
        BY <1>1, <1>3, <1>11, <2>3, <4>1
      <4>3. Listens'
        BY <1>1, <1>4, <4>1, <4>2 DEF Listens
      <4>4. QED BY <4>3
    <3>2. QED BY <1>1, <2>1, <3>1
  <2>5. Len(probe') <= Full'
    BY <1>3, <1>10, <1>11, <2>3
  <2>6. Astray'
    BY <1>1, <1>10, <1>11, <2>1, <2>3, <2>4, <2>5 DEF Astray
  <2>7. QED BY <1>9, <2>6 DEF SwdStages
<1>13. CASE Answering
  <2>1. /\ Answers /\ heard = <<>> /\ word = wanted.old /\ reply \in AckWords
        /\ Len(target) = 0 + TargetLength(reply) /\ Near(a, reply, noise)
    BY <1>4, <1>13 DEF Answering, Answers, AckSoFar, a
  <2>2. TargetLength(reply) \in Nat /\ TargetLength(reply) \in {Full, Turns} /\ Len(target) = TargetLength(reply)
        /\ (reply = Swd!Ok => TargetLength(reply) = Full)
    BY <1>3, <2>1 DEF TargetLength
  <2>3. Answers'
    BY <1>1, <1>10, <2>1 DEF Answers, q
  <2>4. CASE a = reply
    <3>1. Idling(a) \in Nat
      BY <1>2, ConfFacts DEF Idling
    <3>2. Follows(probe', RestPlan(a, q, wanted.data)) /\ Len(probe') = TargetLength(a) + Idling(a)
      <4>1. TargetLength(a) + Idling(a) \in Nat
        BY <2>2, <2>4, <3>1
      <4>2. QED BY <1>8, <2>1, <2>4, <4>1, StretchFollows
    <3>3. Len(target') = IF Len(probe') >= Idling(a) THEN Len(probe') - Idling(a) ELSE 0
      BY <1>1, <2>2, <2>4, <3>1, <3>2
    <3>4. IF a # Swd!Ok THEN heard' = <<>> /\ word' = wanted'.old
          ELSE IF Reads THEN DataRead' ELSE DataWritten'
      <4>0. heard' = <<>> /\ word' = wanted'.old /\ Len(read') = 0 /\ Len(heard') = 0
        BY <1>1, <2>1
      <4>1. CASE a = Swd!Ok
        <5>1. Len(target') = Full
          BY <1>1, <2>2, <2>4, <4>1
        <5>2. target' # <<>> /\ Full >= Turns /\ Full > Bits + 1 /\ Full - Full = 0
          BY <1>3, <5>1
        <5>3. DataRead'
          <6>1. Len(read') = IF Len(target') >= Turns' THEN Full' - Len(target') ELSE Bits + 1
            BY <1>10, <4>0, <5>1, <5>2
          <6>2. QED BY <1>1, <4>0, <6>1, NearNothing DEF DataRead, Checked
        <5>4. DataWritten'
          <6>1. Len(heard') = IF Len(target') > Bits + 1 \/ target' = <<>> THEN 0 ELSE Bits + 1 - Len(target')
            BY <4>0, <5>1, <5>2
          <6>2. Near(heard', Checked(wanted'.data), noise')
            BY <4>0, NearNothing
          <6>3. word' \in IF target' = <<>> THEN {wanted'.old, wanted'.data} ELSE {wanted'.old}
            BY <4>0, <5>2
          <6>4. QED BY <6>1, <6>2, <6>3 DEF DataWritten, DataHeard
        <5>5. QED BY <4>0, <5>3, <5>4
      <4>2. CASE a # Swd!Ok
        BY <4>0, <4>2
      <4>3. QED BY <4>1, <4>2
    <3>5. ack' = a
      BY <1>1 DEF a
    <3>6. Len(probe') <= TargetLength(reply)' + Idling(ack)'
      BY <1>10, <2>2, <2>4, <3>1, <3>2
    <3>7. Matching'
      BY <1>1, <1>10, <2>3, <2>4, <3>2, <3>3, <3>4, <3>5, <3>6 DEF Matching
    <3>8. QED BY <1>9, <3>7 DEF SwdStages
  <2>5. CASE a # reply
    <3>1. noise /\ a \notin AckWords
      BY <1>1, <1>2, <2>1, <2>5, NearAck DEF a
    <3>2. a # <<>>
      BY <1>4 DEF a
    <3>3. target' # <<>>
      BY <1>1, <1>3, <2>2
    <3>4. Len(probe') = Len(target') + IF TargetLength(reply)' = Full' THEN 0 ELSE Bits + 1
      BY <1>1, <1>3, <1>10, <1>11, <2>2, <3>1
    <3>5. IF reply' = Swd!Ok /\ ~Reads' THEN DataHeard(Ones, FALSE)' ELSE heard' = <<>>
      <4>1. CASE reply = Swd!Ok
        <5>1. Len(target') > Bits + 1 /\ heard' = <<>> /\ Len(heard') = 0
          BY <1>1, <1>3, <2>1, <2>2, <4>1
        <5>2. DataHeard(Ones, FALSE)'
          <6>1. Near(heard', Ones, FALSE)
            BY <5>1, NearNothing, Zenon
          <6>2. Len(heard') = IF Len(target') > Bits + 1 \/ target' = <<>> THEN 0 ELSE Bits + 1 - Len(target')
            BY <5>1
          <6>3. QED BY <6>1, <6>2 DEF DataHeard, Ones
        <5>3. QED BY <5>1, <5>2
      <4>2. CASE reply # Swd!Ok
        BY <1>1, <2>1, <4>2
      <4>3. QED BY <4>1, <4>2
    <3>6. ack' = a
      BY <1>1 DEF a
    <3>7. Len(probe') <= Full'
      BY <1>3, <1>10, <1>11, <3>1
    <3>8. Mismatched'
      BY <1>1, <1>11, <2>1, <2>3, <3>1, <3>2, <3>3, <3>4, <3>5, <3>6, <3>7 DEF Mismatched
    <3>9. QED BY <1>9, <3>8 DEF SwdStages
  <2>6. QED BY <2>4, <2>5
<1>14. QED BY <1>6, <1>12, <1>13

LEMMA SwdReset == ASSUME SwdTyped, SwdStages, Swd!LineReset PROVE SwdTyped' /\ SwdStages'
<1>1. /\ Swd!Idle /\ target = <<>> /\ port' = "ready" /\ heard' = <<>>
      /\ conf' = conf /\ probe' = probe /\ target' = target /\ read' = read /\ wanted' = wanted
      /\ ack' = ack /\ reply' = reply /\ word' = word /\ served' = served /\ noise' = noise
      /\ transfers' = transfers
  BY DEF Swd!LineReset
<1>2. Resting
  BY <1>1, Settled
<1>3. SwdTyped'
  BY <1>1 DEF SwdTyped
<1>4. Resting'
  <2>1. /\ Swd!OkMeansDone => Swd!OkMeansDone'
        /\ Swd!RefusedIsUntouched => Swd!RefusedIsUntouched'
        /\ Swd!InStep'
    BY <1>1 DEF Swd!OkMeansDone, Swd!RefusedIsUntouched, Swd!InStep, Swd!ReturnsOk
  <2>2. InTransfer => InTransfer'
    BY <1>1 DEF InTransfer
  <2>3. QED BY <1>1, <1>2, <2>1, <2>2 DEF Resting
<1>5. QED BY <1>3, <1>4 DEF SwdStages

LEMMA SwdSent == ASSUME SwdTyped, SwdStages, NEW bit, Sent(bit) PROVE SwdTyped' /\ SwdStages'
<1>1. SwdTyped' /\ probe # <<>>
  BY SentTyped, SentFacts
<1>2. ~Resting
  BY <1>1 DEF Resting
<1>3. ASSUME Asking PROVE SwdStages'
  BY <1>3, AskingSent DEF SwdStages
<1>4. ASSUME Astray PROVE SwdStages'
  BY <1>4, AstraySent DEF SwdStages
<1>5. ASSUME Answering PROVE SwdStages'
  BY <1>5, AnsweringSent DEF SwdStages
<1>6. ASSUME Matching PROVE SwdStages'
  BY <1>6, MatchingSent DEF SwdStages
<1>7. ASSUME Mismatched PROVE SwdStages'
  BY <1>7, MismatchedSent DEF SwdStages
<1>8. QED BY <1>1, <1>2, <1>3, <1>4, <1>5, <1>6, <1>7 DEF SwdStages

LEMMA SwdStep == ASSUME SwdTyped, SwdStages, Swd!Next PROVE SwdTyped' /\ SwdStages'
<1>1. ASSUME NEW q \in Swd!AllRequests, NEW w \in SwdWords, Swd!Transfer(q, w)
      PROVE  SwdTyped' /\ SwdStages'
  BY <1>1, SwdTransfer
<1>2. ASSUME Swd!Cycle PROVE SwdTyped' /\ SwdStages'
  <2>1. Sent(Swd!Line)
    BY <1>2 DEF Swd!Cycle, Sent
  <2>2. QED BY <2>1, SwdSent
<1>3. ASSUME Swd!Disturbed PROVE SwdTyped' /\ SwdStages'
  <2>1. Sent(1 - Swd!Line)
    BY <1>3 DEF Swd!Disturbed, Sent
  <2>2. QED BY <2>1, SwdSent
<1>4. QED BY <1>1, <1>2, <1>3, SwdAckRead, SwdReset DEF Swd!Next

LEMMA SwdHolds == ASSUME SwdTyped, SwdStages PROVE Swd!TypeOK /\ Swd!SwdExact
<1>1. /\ conf \in Configs /\ word \in [1 .. Bits -> {0, 1}]
      /\ probe \in Seq(0 .. 3) /\ target \in Seq(0 .. 3) /\ heard \in Seq({0, 1})
  BY DEF SwdTyped
<1>2. Turns \in 1 .. 4 /\ Bits \in Nat /\ Bits >= 8
  BY <1>1, ConfFacts, WireFacts
<1>3. Len(heard) <= Bits + 8
  <2>0. Len(<<>>) <= Bits + 8
    BY <1>2
  <2>1. CASE Resting
    BY <2>0, <2>1 DEF Resting
  <2>2. CASE Asking
    BY <1>1, <1>2, <2>2, AskingLine
  <2>3. CASE Astray
    <3>1. heard = <<>> \/ Len(heard) \in 1 .. 7
      BY <2>3 DEF Astray, Listens
    <3> DEFINE n == Len(heard)
    <3>2. n = 0 \/ n \in 1 .. 7
      BY <3>1
    <3> HIDE DEF n
    <3>3. n <= Bits + 8
      BY <1>2, <3>2
    <3>4. QED BY <3>3 DEF n
  <2>4. CASE Answering
    BY <2>0, <2>4 DEF Answering
  <2>6. ASSUME NEW sent, NEW d, DataHeard(sent, d) PROVE Len(heard) <= Bits + 8
    <3>1. Len(target) \in Nat
      BY <1>1
    <3>2. QED BY <1>2, <2>6, <3>1 DEF DataHeard
  <2>5. CASE Matching
    BY <2>0, <2>5, <2>6 DEF Matching, DataRead, DataWritten
  <2>7. CASE Mismatched
    BY <2>0, <2>6, <2>7 DEF Mismatched
  <2>8. QED BY <2>1, <2>2, <2>3, <2>4, <2>5, <2>7 DEF SwdStages
<1>4. Swd!TypeOK
  <2>1. /\ \A i \in DOMAIN probe : probe[i] \in 0 .. 3
        /\ \A i \in DOMAIN target : target[i] \in 0 .. 3
    BY <1>1
  <2>2. QED BY <1>1, <1>3, <2>1, CodeFacts DEF Swd!TypeOK, SwdTyped, Bits, Swd!Bit
<1>5. Swd!NoContention
  <2> SUFFICES ASSUME probe # <<>>, target # <<>>, Head(probe) \in {0, 1}, Head(target) \in {0, 1}
               PROVE  FALSE
    BY DEF Swd!NoContention, Swd!Drives, Swd!Bit
  <2>1. ~Resting /\ ~Asking /\ ~Astray
    BY DEF Resting, Asking, Astray
  <2>2. ASSUME Answering PROVE FALSE
    <3>1. /\ Follows(probe, AskPlan(wanted.request)) /\ Len(probe) <= Turns + 3
      BY <2>2 DEF Answering
    <3>2. /\ Head(probe) = AskPlan(wanted.request)[Len(probe) - 1]
          /\ Len(probe) \in Nat /\ Len(probe) >= 1
      BY <1>1, <3>1, NextCycle
    <3> DEFINE r == Len(probe) - 1
    <3>3. r \in Nat /\ r < Turns + 3
      BY <1>2, <3>1, <3>2
    <3> HIDE DEF r
    <3>4. AskPlan(wanted.request)[r] \in {2, 3}
      BY <3>3, CodeFacts DEF AskPlan
    <3>5. QED BY <3>2, <3>4 DEF r
  <2>3. ASSUME Mismatched PROVE FALSE
    <3>1. Follows(probe, OffPlan)
      BY <2>3 DEF Mismatched
    <3>2. /\ Head(probe) = OffPlan[Len(probe) - 1] /\ Len(probe) \in Nat /\ Len(probe) >= 1
      BY <1>1, <3>1, NextCycle
    <3>3. Len(probe) - 1 \in Nat
      BY <3>2
    <3>4. QED BY <3>2, <3>3, CodeFacts DEF OffPlan
  <2>4. ASSUME Matching PROVE FALSE
    <3> DEFINE I == Idling(ack)
               L == Len(probe)
    <3>1. I \in Nat /\ L \in Nat /\ (L <= I => target = <<>>)
      BY <2>4, MatchingIs
    <3> HIDE DEF I, L
    <3>2. L > I
      BY <3>1
    <3>3. /\ ack # Swd!Ok => Head(probe) = 3 \/ Head(target) = 3
          /\ ack = Swd!Ok /\ Reads => Head(probe) \in {2, 3}
          /\ ack = Swd!Ok /\ ~Reads => Head(target) \in {2, 3}
      BY <2>4, <3>2, MatchingLine DEF I, L
    <3>4. QED BY <3>3
  <2>5. QED BY <2>1, <2>2, <2>3, <2>4 DEF SwdStages
<1>6. ASSUME Swd!Idle, ack # <<>> PROVE Swd!OkMeansDone /\ Swd!RefusedIsUntouched /\ Swd!InStep
  BY <1>6, Settled DEF Resting
<1>7. QED BY <1>4, <1>5, <1>6 DEF Swd!SwdExact

\* The wires of SWD: for any words, settings and number of transfers, with one
\* disturbed bit in each, both ends never drive the line at once; OK means that
\* the target has done what was asked; any other answer leaves it as it was.
THEOREM WireOfAll == MCSpec => []SwdExact
<1> DEFINE I == part = "swd" => SwdTyped /\ SwdStages
<1>1. MCInit => I
  BY SwdInit
<1>2. I /\ [MCNext]_<<part, vars, jtagVars, swdVars, packetVars>> => I'
  <2> SUFFICES ASSUME I, [MCNext]_<<part, vars, jtagVars, swdVars, packetVars>> PROVE I'
    OBVIOUS
  <2>1. CASE SwdNext
    BY <2>1, SwdStep DEF SwdNext
  <2>2. ASSUME UNCHANGED <<part, swdVars>> PROVE I'
    <3>1. /\ part' = part /\ conf' = conf /\ probe' = probe /\ target' = target /\ port' = port
          /\ heard' = heard /\ read' = read /\ wanted' = wanted /\ ack' = ack /\ reply' = reply
          /\ word' = word /\ served' = served /\ noise' = noise /\ transfers' = transfers
      BY <2>2 DEF swdVars
    <3>2. SwdTyped => SwdTyped'
      BY <3>1 DEF SwdTyped
    <3>3. /\ Turns' = Turns /\ Full' = Full /\ TargetLength(reply)' = TargetLength(reply)
          /\ Idling(ack)' = Idling(ack) /\ (Reads' <=> Reads)
          /\ AskPlan(wanted.request)' = AskPlan(wanted.request)
          /\ RestPlan(ack, wanted.request, wanted.data)' = RestPlan(ack, wanted.request, wanted.data)
          /\ TargetPlan(reply, wanted.request, word)' = TargetPlan(reply, wanted.request, word)
      BY <3>1, PlansKept DEF Reads
    <3>4. /\ InTransfer' <=> InTransfer
          /\ Swd!OkMeansDone' <=> Swd!OkMeansDone
          /\ Swd!RefusedIsUntouched' <=> Swd!RefusedIsUntouched
          /\ Swd!InStep' <=> Swd!InStep
      BY <3>1 DEF InTransfer, Swd!OkMeansDone, Swd!RefusedIsUntouched, Swd!InStep, Swd!ReturnsOk
    <3>5. Resting => Resting'
      BY <3>1, <3>4 DEF Resting
    <3>6. Asking => Asking'
      BY <3>1, <3>3, <3>4 DEF Asking
    <3>7. Astray => Astray'
      <4>1. Listens => Listens'
        BY <3>1, <3>3 DEF Listens
      <4>2. AckSoFar(Ones) => AckSoFar(Ones)'
        BY <3>1 DEF AckSoFar, Ones
      <4>3. QED BY <3>1, <3>3, <3>4, <4>1, <4>2 DEF Astray
    <3>8. Answers => Answers'
      BY <3>1, <3>3, <3>4 DEF Answers
    <3>9. Answering => Answering'
      <4>1. AckSoFar(reply) => AckSoFar(reply)'
        BY <3>1 DEF AckSoFar
      <4>2. QED BY <3>1, <3>3, <3>8, <4>1 DEF Answering
    <3>10. Matching => Matching'
      <4>1. /\ DataRead => DataRead'
            /\ DataWritten => DataWritten'
        BY <3>1, <3>3 DEF DataRead, DataWritten, DataHeard
      <4>2. QED BY <3>1, <3>3, <3>8, <4>1 DEF Matching
    <3>11. Mismatched => Mismatched'
      <4>1. DataHeard(Ones, FALSE) => DataHeard(Ones, FALSE)'
        BY <3>1 DEF DataHeard, Ones
      <4>2. QED BY <3>1, <3>3, <3>8, <4>1 DEF Mismatched
    <3>12. QED BY <3>1, <3>2, <3>5, <3>6, <3>7, <3>9, <3>10, <3>11 DEF SwdStages
  <2>3. CASE SerialNext
    BY <2>2, <2>3 DEF SerialNext
  <2>4. CASE OverlappingNext
    BY <2>2, <2>4 DEF OverlappingNext
  <2>5. CASE JtagNext
    BY <2>2, <2>5 DEF JtagNext
  <2>6. CASE PacketNext
    BY <2>2, <2>6 DEF PacketNext
  <2>7. CASE UNCHANGED <<part, vars, jtagVars, swdVars, packetVars>>
    BY <2>2, <2>7
  <2>8. QED BY <2>1, <2>3, <2>4, <2>5, <2>6, <2>7 DEF MCNext
<1>3. I => SwdExact
  BY SwdHolds DEF SwdExact
<1>4. QED BY <1>1, <1>2, <1>3, PTL DEF MCSpec
=============================================================================
