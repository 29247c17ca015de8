-------------------------- MODULE CdcBridgeProofs --------------------------
(* For every packet size, ring size and number of bytes: until the bus is    *)
(* reset, the interrupt and the task never both start the next read of the   *)
(* host's packets, and a read in progress has room for a whole packet; the   *)
(* bytes of either direction stay in order and none is counted twice.        *)
EXTENDS CdcBridge, SequenceTheorems, TLAPS

OutTyped ==
  /\ ring \in Seq(Nat) /\ tmp \in Seq(Nat) /\ rx \in Seq(Nat)
  /\ outPos \in 0 .. Cap - 1 /\ size \in Nat /\ sent \in Nat /\ uartIn \in Nat
  /\ resets \in Nat

\* Who may start the next read, or has one in progress.
ByEndpoint == outEp # "off"
ByHandler  == isr \in {"outCheck", "outArm", "outIdle"}
ByFlag     == rxIdle = TRUE
ByTask     == task = "startRead"

\* The right to start a read is handed on and never doubled.  It comes into
\* being with the configuration, when the ring is empty.
OneOwner ==
  /\ ~(ByEndpoint /\ ByHandler) /\ ~(ByEndpoint /\ ByFlag) /\ ~(ByEndpoint /\ ByTask)
  /\ ~(ByHandler /\ ByFlag) /\ ~(ByHandler /\ ByTask) /\ ~(ByFlag /\ ByTask)
HasRoom == ByEndpoint \/ isr = "outArm" \/ ByTask => Room >= Mps
NoneYet ==
  ~configured => /\ ~ByEndpoint /\ ~ByHandler /\ ~ByFlag /\ ~ByTask
                 /\ ring = <<>>

IInv == OutTyped /\ (resets = 0 => OneOwner /\ HasRoom /\ NoneYet)

LEMMA IInvImplies == IInv => ReadHasRoom
<1> SUFFICES ASSUME IInv, resets = 0 PROVE ReadHasRoom
  BY DEF ReadHasRoom
<1>1. \A a, b \in Tokens : a = b
  BY DEF IInv, OneOwner, ByEndpoint, ByHandler, ByFlag, ByTask, Tokens
<1>2. QED BY <1>1 DEF IInv, HasRoom, ByEndpoint, ByTask, ReadHasRoom

-----------------------------------------------------------------------------
(* Sequences. *)

LEMMA LeastInt == ASSUME NEW a \in Int, NEW b \in Int
                  PROVE  Least(a, b) \in {a, b} /\ Least(a, b) <= a /\ Least(a, b) <= b
BY DEF Least

LEMMA BytesTyped == ASSUME NEW a \in Nat, NEW b \in Nat, a <= b
                    PROVE  Bytes(a, b) \in Seq(Nat) /\ Len(Bytes(a, b)) = b - a
<1>1. b - a \in Nat
  OBVIOUS
<1>2. [i \in 1 .. b - a |-> a + i] \in [1 .. b - a -> Nat]
  OBVIOUS
<1>3. QED BY <1>1, <1>2 DEF Bytes

LEMMA SubSeqTyped ==
  ASSUME NEW q \in Seq(Nat), NEW m \in Int, NEW n \in Int, m >= 1, n <= Len(q)
  PROVE  /\ SubSeq(q, m, n) \in Seq(Nat)
         /\ Len(SubSeq(q, m, n)) = IF m <= n THEN n - m + 1 ELSE 0
OBVIOUS

LEMMA UptoTyped == ASSUME NEW q \in Seq(Nat), NEW n \in Int PROVE Upto(q, n) \in Seq(Nat)
<1>1. Least(n, Len(q)) \in Int /\ Least(n, Len(q)) <= Len(q)
  BY LeastInt
<1>2. QED BY <1>1, SubSeqTyped DEF Upto

LEMMA AfterTyped ==
  ASSUME NEW q \in Seq(Nat), NEW n \in Nat
  PROVE  After(q, n) \in Seq(Nat) /\ Len(After(q, n)) <= Len(q)
<1>1. n + 1 \in Int /\ n + 1 >= 1 /\ Len(q) \in Nat
  OBVIOUS
<1>2. QED BY <1>1, SubSeqTyped DEF After

LEMMA ChunkTyped == ASSUME OutTyped PROVE Chunk \in Nat
<1>1. Len(ring) \in Nat /\ Cap - outPos \in Nat
  BY SizesAssumption DEF OutTyped
<1>2. QED BY <1>1, LeastInt DEF Chunk

-----------------------------------------------------------------------------
(* The steps of the host and of the interrupt. *)

LEMMA HostIInv == ASSUME IInv, HostSend PROVE IInv'
<1>1. PICK n \in 1 .. Least(Mps, limit.host - sent) :
        tmp' = Bytes(sent, sent + n) /\ sent' = sent + n
  BY DEF HostSend
<1>2. n \in Nat /\ sent \in Nat /\ tmp' \in Seq(Nat) /\ sent' \in Nat
  <2>1. n \in Nat /\ sent \in Nat
    BY DEF IInv, OutTyped
  <2>2. sent + n \in Nat /\ sent <= sent + n
    BY <2>1
  <2>3. QED BY <1>1, <2>1, <2>2, BytesTyped
<1>3. OutTyped'
  BY <1>2 DEF HostSend, IInv, OutTyped, inVars, busVars
<1>4. QED
  BY <1>3 DEF HostSend, IInv, OneOwner, HasRoom, NoneYet, ByEndpoint, ByHandler, ByFlag, ByTask,
              Room, inVars, busVars

\* The endpoint hands over to the handler: the ring may be full now.
LEMMA BulkOutIInv == ASSUME IInv, BulkOut PROVE IInv'
<1>1. ring' \in Seq(Nat)
  <2>1. Room \in Int
    BY SizesAssumption DEF Room, IInv, OutTyped
  <2>2. Upto(tmp, Room) \in Seq(Nat) /\ ring \in Seq(Nat)
    BY <2>1, UptoTyped DEF IInv, OutTyped
  <2>3. QED BY <2>2 DEF BulkOut
<1>2. OutTyped'
  BY <1>1 DEF BulkOut, IInv, OutTyped, inVars, busVars
<1>3. QED
  BY <1>2 DEF BulkOut, IInv, OneOwner, HasRoom, NoneYet, ByEndpoint, ByHandler, ByFlag, ByTask,
              inVars, busVars

\* The handler hands over to the endpoint, when there is room, or to the flag.
LEMMA HandlerIInv ==
  ASSUME IInv, OutCheck \/ OutArm \/ OutIdle PROVE IInv'
<1>1. OutTyped' /\ ring' = ring /\ configured' = configured /\ resets' = resets
  BY DEF OutCheck, OutArm, OutIdle, IInv, OutTyped, outVars, inVars, busVars
<1>2. Room' = Room
  BY <1>1 DEF Room
<1>3. CASE OutCheck
  BY <1>1, <1>2, <1>3 DEF OutCheck, IInv, OneOwner, HasRoom, NoneYet, ByEndpoint, ByHandler,
     ByFlag, ByTask, outVars
<1>4. CASE OutArm
  BY <1>1, <1>2, <1>4 DEF OutArm, StartRead, IInv, OneOwner, HasRoom, NoneYet, ByEndpoint,
     ByHandler, ByFlag, ByTask
<1>5. CASE OutIdle
  BY <1>1, <1>2, <1>5 DEF OutIdle, IInv, OneOwner, HasRoom, NoneYet, ByEndpoint, ByHandler,
     ByFlag, ByTask
<1>6. QED BY <1>3, <1>4, <1>5

LEMMA ConfiguredIInv == ASSUME IInv, Configured PROVE IInv'
<1>1. OutTyped' /\ ring' = ring /\ resets' = resets /\ Room' = Room
  BY DEF Configured, IInv, OutTyped, Room, inVars
<1>2. resets = 0 => Room >= Mps
  <2>1. resets = 0 => Len(ring) = 0
    BY DEF Configured, IInv, NoneYet
  <2>2. QED BY <2>1, SizesAssumption DEF Room
<1>3. QED
  BY <1>1, <1>2 DEF Configured, IInv, OneOwner, HasRoom, NoneYet, ByEndpoint, ByHandler, ByFlag,
     ByTask

LEMMA ResetIInv == ASSUME IInv, BusReset PROVE IInv'
<1>1. resets' = resets + 1 /\ resets \in Nat
  BY DEF BusReset, IInv, OutTyped
<1>2. QED BY <1>1 DEF BusReset, IInv, OutTyped

-----------------------------------------------------------------------------
(* The steps of the task. *)

\* It empties the ring: the room only grows.
LEMMA SendIInv ==
  ASSUME IInv, UartIdle \/ SendComplete \/ SendMore PROVE IInv'
<1>1. Chunk \in Nat
  BY ChunkTyped DEF IInv
<1>2. /\ ring' \in Seq(Nat) /\ Len(ring') <= Len(ring) /\ (ring = <<>> => ring' = <<>>)
  <2>1. CASE SendComplete
    <3>1. After(ring, size) \in Seq(Nat) /\ Len(After(ring, size)) <= Len(ring)
      BY AfterTyped DEF IInv, OutTyped
    <3>2. QED BY <2>1, <3>1 DEF SendComplete
  <2>2. CASE UartIdle \/ SendMore
    BY <2>2 DEF UartIdle, SendMore, IInv, OutTyped, outVars
  <2>3. QED BY <2>1, <2>2
<1>3. Room' >= Room /\ Room \in Int /\ Room' \in Int
  BY <1>2, SizesAssumption DEF Room, IInv, OutTyped
<1>4. outPos' \in 0 .. Cap - 1 /\ size' \in Nat
  <2>1. CASE SendComplete
    <3>1. outPos + size \in Nat /\ Cap \in Nat \ {0}
      BY SizesAssumption DEF IInv, OutTyped
    <3>2. (outPos + size) % Cap \in 0 .. Cap - 1
      BY <3>1
    <3>3. QED BY <2>1, <3>2 DEF SendComplete, IInv, OutTyped
  <2>2. CASE UartIdle
    BY <1>1, <2>2 DEF UartIdle, IInv, OutTyped
  <2>3. CASE SendMore
    BY <1>1, <2>3 DEF SendMore, IInv, OutTyped, outVars
  <2>4. QED BY <2>1, <2>2, <2>3
<1>5. /\ UNCHANGED <<outEp, tmp, rx, rxIdle, sent, uartIn, isr, configured, resets>>
      /\ task # "startRead" /\ task' # "startRead"
  BY DEF UartIdle, SendComplete, SendMore, TaskAt, Goto, outVars, inVars, busVars
<1>6. OutTyped'
  BY <1>2, <1>4, <1>5 DEF IInv, OutTyped
<1>7. Mps \in Nat
  BY SizesAssumption
<1>8. QED
  BY <1>2, <1>3, <1>5, <1>6, <1>7 DEF IInv, OneOwner, HasRoom, NoneYet, ByEndpoint, ByHandler, ByFlag,
     ByTask

\* The flag hands over to the task, when there is room, and the task to the
\* endpoint.
LEMMA RearmIInv == ASSUME IInv, Rearm \/ RearmRead PROVE IInv'
<1>1. OutTyped' /\ ring' = ring /\ configured' = configured /\ resets' = resets
  BY DEF Rearm, RearmRead, IInv, OutTyped, inVars, busVars
<1>2. Room' = Room
  BY <1>1 DEF Room
<1>3. CASE Rearm
  BY <1>1, <1>2, <1>3 DEF Rearm, TaskAt, Goto, IInv, OneOwner, HasRoom, NoneYet, ByEndpoint,
     ByHandler, ByFlag, ByTask
<1>4. CASE RearmRead
  BY <1>1, <1>2, <1>4 DEF RearmRead, StartRead, TaskAt, Goto, IInv, OneOwner, HasRoom, NoneYet,
     ByEndpoint, ByHandler, ByFlag, ByTask
<1>5. QED BY <1>3, <1>4

\* The steps that concern the other direction, or no read.
OutUnchanged == UNCHANGED <<ring, outPos, outEp, tmp, rxIdle, sent, configured, resets>>

LEMMA OtherIInv ==
  ASSUME IInv, OutUnchanged, rx' \in Seq(Nat), size' \in Nat, uartIn' \in Nat,
         ByHandler' <=> ByHandler, isr' = "outArm" <=> isr = "outArm", ByTask' <=> ByTask
  PROVE  IInv'
BY DEF OutUnchanged, IInv, OutTyped, OneOwner, HasRoom, NoneYet, ByEndpoint, ByHandler, ByFlag,
       ByTask, Room

LEMMA InIInv ==
  ASSUME IInv, LoadFifo \/ HostRead \/ OwnerWrites \/ BulkIn \/ SendZlp PROVE IInv'
<1>1. /\ OutUnchanged /\ UNCHANGED <<rx, size, uartIn, task>>
      /\ isr \notin {"outCheck", "outArm", "outIdle"} \/ isr' = isr
      /\ isr' \notin {"outCheck", "outArm", "outIdle"} \/ isr' = isr
  BY DEF LoadFifo, HostRead, OwnerWrites, BulkIn, SendZlp, OutUnchanged, outVars, busVars
<1>2. QED BY <1>1, OtherIInv DEF ByHandler, ByTask, IInv, OutTyped

LEMMA ReceiveIInv == ASSUME IInv, UartReceive PROVE IInv'
<1>1. PICK n \in 1 .. limit.uart - uartIn :
        /\ uartIn' = uartIn + n
        /\ rx' \in {rx, rx \o Bytes(uartIn, uartIn + n)}
  BY DEF UartReceive
<1>2. n \in Nat /\ uartIn \in Nat /\ rx \in Seq(Nat)
  BY DEF IInv, OutTyped
<1>3. Bytes(uartIn, uartIn + n) \in Seq(Nat)
  <2>1. uartIn + n \in Nat /\ uartIn <= uartIn + n
    BY <1>2
  <2>2. QED BY <1>2, <2>1, BytesTyped
<1>4. rx' \in Seq(Nat) /\ uartIn' \in Nat
  <2>1. rx \o Bytes(uartIn, uartIn + n) \in Seq(Nat)
    BY <1>2, <1>3
  <2>2. uartIn + n \in Nat
    BY <1>2
  <2>3. QED BY <1>1, <1>2, <2>1, <2>2
<1>5. OutUnchanged /\ UNCHANGED <<size, isr, task>>
  BY DEF UartReceive, OutUnchanged, outVars, busVars
<1>6. QED BY <1>4, <1>5, OtherIInv DEF ByHandler, ByTask, IInv, OutTyped

LEMMA TaskIInv ==
  ASSUME IInv, ReadUart \/ WriteUsb \/ UartEvent \/ Gate \/ SendByDma \/ SendIdle PROVE IInv'
<1>1. /\ OutUnchanged /\ UNCHANGED <<isr, uartIn>>
      /\ task # "startRead" /\ task' # "startRead"
  BY DEF ReadUart, WriteUsb, UartEvent, Gate, SendByDma, SendIdle, TaskAt, Goto, OutUnchanged,
         outVars, inVars, busVars
<1>2. rx' \in {rx, <<>>} /\ size' \in {size, Len(rx)}
  BY DEF ReadUart, WriteUsb, UartEvent, Gate, SendByDma, SendIdle, inVars
<1>3. rx' \in Seq(Nat) /\ size' \in Nat
  <2>1. rx \in Seq(Nat) /\ size \in Nat
    BY DEF IInv, OutTyped
  <2>2. <<>> \in Seq(Nat) /\ Len(rx) \in Nat
    BY <2>1
  <2>3. QED BY <1>2, <2>1, <2>2
<1>4. QED BY <1>1, <1>3, OtherIInv DEF ByHandler, ByTask, IInv, OutTyped

-----------------------------------------------------------------------------
LEMMA InitIInv == Init => IInv
<1> SUFFICES ASSUME Init PROVE IInv
  OBVIOUS
<1>1. OutTyped
  BY SizesAssumption DEF Init, OutTyped
<1>2. QED BY <1>1 DEF Init, IInv, OneOwner, HasRoom, NoneYet, ByEndpoint, ByHandler, ByFlag, ByTask

LEMMA NextIInv == IInv /\ [Next]_vars => IInv'
<1>1. ASSUME IInv, UNCHANGED vars PROVE IInv'
  BY <1>1, OtherIInv DEF vars, outVars, inVars, busVars, OutUnchanged, ByHandler, ByTask, IInv,
     OutTyped
<1>2. QED
  BY <1>1, HostIInv, BulkOutIInv, HandlerIInv, ConfiguredIInv, ResetIInv, SendIInv, RearmIInv,
     InIInv, ReceiveIInv, TaskIInv
  DEF Next, Isr, Task, Environment

\* Until the bus is reset, one of the interrupt and the task may start the next
\* read, and it does so only with room for a packet: the ring never refuses a
\* byte that the host was told to send.
THEOREM ReadsHaveRoom == Spec => []ReadHasRoom
BY InitIInv, NextIInv, IInvImplies, PTL DEF Spec

-----------------------------------------------------------------------------
(* Types of the whole module.                                              *)

LEMMA Sizes ==
  /\ Mps \in Nat /\ Mps >= 1 /\ Cap \in Nat /\ Cap >= Mps /\ RxCap \in Nat
  /\ BufSize \in Nat
  /\ \A l \in Limits : l.host \in Nat /\ l.uart \in Nat /\ l.resets \in Nat
  BY SizesAssumption, BoundsAssumption

\* Steps that leave one direction alone.
LEMMA OutKept == ASSUME OutTypes, UNCHANGED outVars PROVE OutTypes'
  BY DEF OutTypes, outVars
LEMMA InKept == ASSUME InTypes, UNCHANGED inVars PROVE InTypes'
  BY DEF InTypes, inVars
LEMMA BusKept == ASSUME BusTypes, UNCHANGED busVars PROVE BusTypes'
  BY DEF BusTypes, busVars

LEMMA UptoShort ==
  ASSUME NEW q \in Seq(Nat), NEW n \in Nat
  PROVE  /\ Upto(q, n) \in Seq(Nat) /\ Len(Upto(q, n)) <= n /\ Len(Upto(q, n)) <= Len(q)
         /\ \A i \in 1 .. Len(Upto(q, n)) : Upto(q, n)[i] = q[i]
         /\ Len(q) <= n => Upto(q, n) = q
<1>1. Least(n, Len(q)) \in Nat /\ Least(n, Len(q)) <= n /\ Least(n, Len(q)) <= Len(q)
  BY DEF Least
<1>2. /\ Upto(q, n) \in Seq(Nat) /\ Len(Upto(q, n)) = Least(n, Len(q))
      /\ \A i \in 1 .. Least(n, Len(q)) : Upto(q, n)[i] = q[i]
  BY <1>1 DEF Upto
<1>3. Len(q) <= n => Upto(q, n) = q
  BY <1>2 DEF Least
<1>4. QED BY <1>1, <1>2, <1>3

LEMMA TypeInit == Init => TypeOK
<1> SUFFICES ASSUME Init PROVE TypeOK
  OBVIOUS
<1>0. <<>> \in Seq(Nat) /\ Len(<<>>) = 0
  OBVIOUS
<1>1. OutTypes /\ PlaceTypes
  <2>1. /\ ring \in Seq(Nat) /\ Len(ring) <= Cap /\ tmp \in Seq(Nat) /\ Len(tmp) <= Mps
        /\ outPos \in 0 .. Cap - 1
    BY <1>0, Sizes DEF Init
  <2>2. QED BY <2>1 DEF Init, OutTypes, PlaceTypes
<1>2. events \in [data : Nat, full : BOOLEAN] /\ dtmp \in [1 .. RxCap -> Nat]
  BY DEF Init
<1>3. rx = <<>> /\ fifo = <<>> /\ xferLen = 0 /\ loaded = 0 /\ inEp = "off"
  BY DEF Init
<1>4. rx \in Seq(Nat) /\ Len(rx) <= RxCap /\ fifo \in Seq(Nat) /\ Len(fifo) <= Mps
  BY <1>3, Sizes
<1>5. /\ xferLen \in 0 .. RxCap /\ loaded \in 0 .. xferLen
      /\ inEp \in {"off", "armed", "done"}
  BY <1>3, Sizes
<1>6. /\ uartIn \in Nat /\ got \in Nat
      /\ overlapped \in BOOLEAN /\ torn \in BOOLEAN /\ dropped \in BOOLEAN
      /\ overrun \in BOOLEAN
  BY DEF Init
<1>6a. ~overrun => xferLen <= BufSize
  BY <1>3, Sizes
<1>7. InTypes
  BY <1>2, <1>4, <1>5, <1>6, <1>6a DEF InTypes
<1>8. BusTypes
  BY DEF Init, BusTypes
<1>9. QED BY <1>1, <1>7, <1>8 DEF TypeOK

LEMMA StartWriteTyped ==
  ASSUME InTypes, NEW n \in 0 .. RxCap, StartWrite(n), ~overrun => n <= BufSize,
         UNCHANGED <<rx, events, dtmp, uartIn, got, torn, overrun>>
  PROVE  InTypes'
<1>1. CASE configured
  <2>1. /\ inEp' = "armed" /\ xferLen' = n /\ loaded' = 0 /\ fifo' \in {fifo, <<>>}
        /\ overlapped' = (overlapped \/ inEp # "off") /\ dropped' = dropped
    BY <1>1 DEF StartWrite
  <2>2. fifo' \in Seq(Nat) /\ Len(fifo') <= Mps
    <3>1. <<>> \in Seq(Nat) /\ Len(<<>>) = 0
      OBVIOUS
    <3>2. CASE fifo' = fifo
      BY <3>2 DEF InTypes
    <3>3. CASE fifo' = <<>>
      BY <3>1, <3>3, Sizes
    <3>4. QED BY <2>1, <3>2, <3>3
  <2>3. overlapped' \in BOOLEAN /\ loaded' \in 0 .. xferLen'
    BY <2>1
  <2>4. QED BY <2>1, <2>2, <2>3 DEF InTypes
<1>2. CASE ~configured
  <2>1. /\ dropped' = (dropped \/ n > 0)
        /\ UNCHANGED <<inEp, xferLen, loaded, fifo, overlapped>>
    BY <1>2 DEF StartWrite
  <2>2. dropped' \in BOOLEAN
    BY <2>1
  <2>3. QED BY <2>1, <2>2 DEF InTypes
<1>3. QED BY <1>1, <1>2

LEMMA TypeEnvironment == ASSUME TypeOK, Environment PROVE TypeOK'
<1> USE DEF TypeOK
<1>1. CASE HostSend
  <2>1. PICK n \in 1 .. Least(Mps, limit.host - sent) :
          tmp' = Bytes(sent, sent + n) /\ sent' = sent + n
    BY <1>1 DEF HostSend
  <2>2. n \in Nat /\ n <= Mps /\ sent \in Nat /\ sent + n \in Nat
    <3>1. limit.host - sent \in Int /\ sent \in Nat
      BY Sizes DEF OutTypes, BusTypes
    <3>2. /\ Least(Mps, limit.host - sent) \in Int
          /\ Least(Mps, limit.host - sent) <= Mps
      BY <3>1, Sizes, LeastInt
    <3>3. QED BY <3>1, <3>2, Sizes
  <2>3. tmp' \in Seq(Nat) /\ Len(tmp') <= Mps /\ sent' \in Nat
    <3>1. sent <= sent + n
      BY <2>2
    <3>2. Bytes(sent, sent + n) \in Seq(Nat) /\ Len(Bytes(sent, sent + n)) = (sent + n) - sent
      BY <2>2, <3>1, BytesTyped
    <3>3. QED BY <2>1, <2>2, <3>2, Sizes
  <2>4. OutTypes'
    BY <1>1, <2>3 DEF HostSend, OutTypes
  <2>5. PlaceTypes'
    BY <1>1 DEF HostSend, PlaceTypes, inVars
  <2>6. QED BY <1>1, <2>4, <2>5, InKept, BusKept DEF HostSend
<1>2. CASE HostRead
  <2>1. got' \in Nat
    <3>1. CASE fifo = <<>>
      BY <1>2, <3>1 DEF HostRead, InTypes
    <3>2. CASE fifo # <<>>
      <4>1. Len(fifo) \in 1 .. Len(fifo) /\ fifo \in Seq(Nat)
        BY <3>2 DEF InTypes
      <4>2. fifo[Len(fifo)] \in Nat
        BY <4>1
      <4>3. QED BY <1>2, <3>2, <4>2 DEF HostRead
    <3>3. QED BY <3>1, <3>2
  <2>2. fifo' \in Seq(Nat) /\ Len(fifo') <= Mps /\ inEp' \in {"off", "armed", "done"}
    BY <1>2, Sizes DEF HostRead
  <2>3. InTypes'
    BY <1>2, <2>1, <2>2 DEF HostRead, InTypes
  <2>4. PlaceTypes'
    BY <1>2 DEF HostRead, PlaceTypes, outVars
  <2>5. QED BY <1>2, <2>3, <2>4, OutKept, BusKept DEF HostRead
<1>3. CASE UartReceive
  <2>1. PICK n \in 1 .. limit.uart - uartIn :
          /\ uartIn' = uartIn + n
          /\ IF Len(rx) + n <= RxCap
             THEN /\ rx' = rx \o Bytes(uartIn, uartIn + n)
                  /\ events' = [events EXCEPT !.data = @ + 1]
                  /\ UNCHANGED dropped
             ELSE events' = [events EXCEPT !.full = TRUE] /\ dropped' = TRUE /\ UNCHANGED rx
    BY <1>3 DEF UartReceive
  <2>2. n \in Nat /\ uartIn \in Nat /\ uartIn + n \in Nat /\ rx \in Seq(Nat)
    <3>1. uartIn \in Nat /\ rx \in Seq(Nat) /\ limit.uart \in Nat
      BY Sizes DEF InTypes, BusTypes
    <3>2. QED BY <3>1
  <2>3. Bytes(uartIn, uartIn + n) \in Seq(Nat) /\ Len(Bytes(uartIn, uartIn + n)) = n
    <3>1. uartIn <= uartIn + n /\ (uartIn + n) - uartIn = n
      BY <2>2
    <3>2. QED BY <2>2, <3>1, BytesTyped
  <2>4. CASE Len(rx) + n <= RxCap
    <3>1. rx' \in Seq(Nat) /\ Len(rx') <= RxCap
      <4>1. rx' = rx \o Bytes(uartIn, uartIn + n)
        BY <2>1, <2>4
      <4>2. \A b \in Seq(Nat) : rx \o b \in Seq(Nat) /\ Len(rx \o b) = Len(rx) + Len(b)
        BY <2>2
      <4>3. QED BY <2>3, <2>4, <4>1, <4>2
    <3>2. events' \in [data : Nat, full : BOOLEAN] /\ dropped' = dropped
      <4>1. events.data + 1 \in Nat
        BY DEF InTypes
      <4>2. QED BY <2>1, <2>4, <4>1 DEF InTypes
    <3>3. uartIn' \in Nat
      BY <2>1, <2>2
    <3>4. QED BY <1>3, <3>1, <3>2, <3>3, OutKept, BusKept DEF UartReceive, InTypes, PlaceTypes,
                                                            outVars
  <2>5. CASE ~(Len(rx) + n <= RxCap)
    <3>1. events' = [events EXCEPT !.full = TRUE] /\ dropped' = TRUE /\ rx' = rx
      BY <2>1, <2>5
    <3>2. events' \in [data : Nat, full : BOOLEAN] /\ uartIn' \in Nat
      BY <2>1, <2>2, <3>1 DEF InTypes
    <3>3. QED BY <1>3, <3>1, <3>2, OutKept, BusKept DEF UartReceive, InTypes, PlaceTypes, outVars
  <2>6. QED BY <2>4, <2>5
<1>4. CASE BusReset
  <2>1. /\ resets' = resets + 1 /\ configured' = FALSE /\ transferOn' = FALSE
        /\ limit' = limit /\ fifo' = <<>> /\ inEp' = "off"
        /\ uartIdle' = FALSE /\ rxIdle' = FALSE /\ outEp' = "off"
        /\ dropped' = (dropped \/ inEp = "armed")
        /\ UNCHANGED <<ring, outPos, tmp, sent, written, rx, events, dtmp, xferLen, loaded,
                       uartIn, got, overlapped, torn, overrun, isr, task, size>>
    BY <1>4 DEF BusReset
  <2>2. BusTypes'
    <3>1. resets' \in Nat
      BY <2>1 DEF BusTypes
    <3>2. configured' \in BOOLEAN /\ transferOn' \in BOOLEAN
      BY <2>1, Zenon
    <3>3. QED BY <2>1, <3>1, <3>2 DEF BusTypes
  <2>3. OutTypes'
    BY <2>1 DEF OutTypes
  <2>4. fifo' \in Seq(Nat) /\ Len(fifo') <= Mps /\ dropped' \in BOOLEAN
    BY <2>1, Sizes
  <2>5. InTypes'
    BY <2>1, <2>4 DEF InTypes
  <2>6. PlaceTypes'
    BY <2>1 DEF PlaceTypes
  <2>7. QED BY <2>2, <2>3, <2>5, <2>6
<1>5. CASE Configured
  <2>1. BusTypes' /\ OutTypes' /\ PlaceTypes'
    BY <1>5 DEF Configured, BusTypes, OutTypes, PlaceTypes, inVars
  <2>2. QED BY <1>5, <2>1, InKept DEF Configured
<1>6. CASE OwnerWrites
  <2>1. PICK i \in DOMAIN dtmp : dtmp' = [dtmp EXCEPT ![i] = 0]
    BY <1>6 DEF OwnerWrites
  <2>2. dtmp' \in [1 .. RxCap -> Nat]
    BY <2>1 DEF InTypes
  <2>3. InTypes' /\ PlaceTypes'
    BY <1>6, <2>2 DEF OwnerWrites, InTypes, PlaceTypes, outVars
  <2>4. QED BY <1>6, <2>3, OutKept, BusKept DEF OwnerWrites
<1>7. QED BY <1>1, <1>2, <1>3, <1>4, <1>5, <1>6 DEF Environment

LEMMA TypeIsr == ASSUME TypeOK, Isr PROVE TypeOK'
<1> USE DEF TypeOK
<1>1. CASE BulkOut
  <2>1. Room \in Nat /\ Len(ring) \in Nat /\ Len(ring) + Room = Cap
    BY Sizes DEF Room, OutTypes
  <2>2. Upto(tmp, Room) \in Seq(Nat) /\ Len(Upto(tmp, Room)) <= Room
    BY <2>1, UptoShort DEF OutTypes
  <2>3. ring' \in Seq(Nat) /\ Len(ring') <= Cap /\ Len(ring') >= Len(ring)
    <3>1. ring' = ring \o Upto(tmp, Room) /\ ring \in Seq(Nat)
      BY <1>1 DEF BulkOut, OutTypes
    <3>2. QED BY <2>1, <2>2, <3>1, Sizes
  <2>4. OutTypes'
    BY <1>1, <2>3 DEF BulkOut, OutTypes
  <2>5. PlaceTypes'
    BY <1>1, <2>1, <2>3 DEF BulkOut, PlaceTypes, inVars
  <2>6. QED BY <1>1, <2>4, <2>5, InKept, BusKept DEF BulkOut
<1>2. CASE OutCheck
  BY <1>2, OutKept, InKept, BusKept DEF OutCheck, PlaceTypes, outVars, inVars
<1>3. CASE OutArm \/ OutIdle
  <2>1. OutTypes' /\ PlaceTypes'
    BY <1>3 DEF OutArm, OutIdle, StartRead, OutTypes, PlaceTypes, inVars
  <2>2. QED BY <1>3, <2>1, InKept, BusKept DEF OutArm, OutIdle
<1>4. CASE BulkIn
  <2>1. InTypes' /\ PlaceTypes'
    BY <1>4 DEF BulkIn, InTypes, PlaceTypes, outVars
  <2>2. QED BY <1>4, <2>1, OutKept, BusKept DEF BulkIn
<1>5. CASE SendZlp
  <2>1. StartWrite(0) /\ UNCHANGED <<rx, events, dtmp, uartIn, got, torn, overrun>>
    BY <1>5 DEF SendZlp
  <2>2. 0 \in 0 .. RxCap /\ 0 <= BufSize
    BY Sizes
  <2>2a. InTypes'
    BY <2>1, <2>2, StartWriteTyped
  <2>3. PlaceTypes'
    BY <1>5 DEF SendZlp, PlaceTypes, outVars
  <2>4. QED BY <1>5, <2>2a, <2>3, OutKept, BusKept DEF SendZlp
<1>6. CASE LoadFifo
  <2> DEFINE n == Least(Mps, xferLen - loaded)
  <2>1. /\ n \in Nat /\ n <= Mps /\ loaded + n <= xferLen /\ loaded \in Nat
        /\ xferLen \in Nat /\ xferLen <= RxCap
    BY <1>6, Sizes DEF LoadFifo, Least, InTypes
  <2>2. fifo' = SubSeq(dtmp, loaded + 1, loaded + n) /\ loaded' = loaded + n
    BY <1>6 DEF LoadFifo
  <2>3. dtmp \in Seq(Nat) /\ Len(dtmp) = RxCap
    BY Sizes DEF InTypes
  <2> HIDE DEF n
  <2>4. fifo' \in Seq(Nat) /\ Len(fifo') <= Mps
    <3>1. loaded + 1 \in Int /\ loaded + n \in Int /\ loaded + 1 >= 1 /\ loaded + n <= Len(dtmp)
      BY <2>1, <2>3, Sizes
    <3>2. /\ fifo' \in Seq(Nat)
          /\ Len(fifo') = IF loaded + 1 <= loaded + n THEN (loaded + n) - (loaded + 1) + 1 ELSE 0
      BY <2>2, <2>3, <3>1, SubSeqTyped
    <3>3. QED BY <2>1, <3>2, Sizes
  <2>5. loaded' \in 0 .. xferLen
    BY <2>1, <2>2
  <2>6. InTypes'
    BY <1>6, <2>4, <2>5 DEF LoadFifo, InTypes
  <2>7. PlaceTypes'
    BY <1>6 DEF LoadFifo, PlaceTypes, outVars
  <2>8. QED BY <1>6, <2>6, <2>7, OutKept, BusKept DEF LoadFifo
<1>7. QED BY <1>1, <1>2, <1>3, <1>4, <1>5, <1>6 DEF Isr

LEMMA ChunkFits ==
  ASSUME OutTypes, ring # <<>> PROVE Chunk \in Nat /\ Chunk >= 1 /\ Chunk <= Len(ring)
<1>1. Len(ring) \in Nat /\ Len(ring) >= 1 /\ Cap - outPos \in Nat /\ Cap - outPos >= 1
  BY Sizes DEF OutTypes
<1>2. QED BY <1>1 DEF Chunk, Least

LEMMA ClearedTyped ==
  ASSUME InTypes
  PROVE  /\ Cleared \in [1 .. RxCap -> Nat]
         /\ \A i \in 1 .. RxCap : i > BufSize => Cleared[i] = dtmp[i]
<1>1. DOMAIN dtmp = 1 .. RxCap /\ \A i \in 1 .. RxCap : dtmp[i] \in Nat
  BY DEF InTypes
<1>2. QED BY <1>1, Sizes DEF Cleared

LEMMA TypeTask == ASSUME TypeOK, Task PROVE TypeOK'
<1> USE DEF TypeOK
<1>1. CASE ReadUart
  <2>1. CASE rx = <<>>
    <3>1. UNCHANGED inVars /\ PlaceTypes'
      BY <1>1, <2>1 DEF ReadUart, Goto, PlaceTypes, inVars, outVars
    <3>2. QED BY <1>1, <3>1, OutKept, InKept, BusKept DEF ReadUart
  <2>2. CASE rx # <<>>
    <3>1. /\ size' = Len(rx) /\ rx' = <<>> /\ task' = "startWrite"
          /\ torn' = (torn \/ (inEp = "armed" /\ loaded < xferLen))
          /\ dtmp' = [i \in DOMAIN dtmp |-> IF i <= Len(rx) THEN rx[i] ELSE Cleared[i]]
          /\ overrun' = (overrun \/ Len(rx) > BufSize)
      BY <1>1, <2>2 DEF ReadUart, Changed, Goto
    <3>2. dtmp' \in [1 .. RxCap -> Nat]
      <4>0. rx \in Seq(Nat) /\ Cleared \in [1 .. RxCap -> Nat]
        BY ClearedTyped DEF InTypes
      <4>1. \A i \in 1 .. RxCap : (IF i <= Len(rx) THEN rx[i] ELSE Cleared[i]) \in Nat
        BY <4>0
      <4>2. QED BY <3>1, <4>1 DEF InTypes
    <3>3. size' \in Nat /\ size' <= RxCap /\ (~overrun' => size' <= BufSize)
      <4>1. Len(rx) \in Nat /\ Len(rx) <= RxCap /\ BufSize \in Nat
        BY Sizes DEF InTypes
      <4>2. ~overrun' => ~(Len(rx) > BufSize)
        BY <3>1, Zenon
      <4>3. QED BY <3>1, <4>1, <4>2
    <3>3a. overrun' \in BOOLEAN /\ (~overrun' => xferLen <= BufSize)
      BY <3>1 DEF InTypes
    <3>4. rx' \in Seq(Nat) /\ Len(rx') <= RxCap /\ torn' \in BOOLEAN
      BY <3>1, Sizes
    <3>5. InTypes'
      BY <1>1, <3>2, <3>3a, <3>4 DEF ReadUart, InTypes
    <3>6. PlaceTypes'
      BY <1>1, <3>1, <3>3 DEF ReadUart, PlaceTypes
    <3>7. QED BY <1>1, <3>5, <3>6, OutKept, BusKept DEF ReadUart
  <2>3. QED BY <2>1, <2>2
<1>2. CASE WriteUsb
  <2>1. /\ StartWrite(size) /\ size \in 0 .. RxCap /\ (~overrun => size <= BufSize)
        /\ UNCHANGED <<rx, events, dtmp, uartIn, got, torn, overrun>>
    BY <1>2, Sizes DEF WriteUsb, TaskAt, PlaceTypes
  <2>2. InTypes'
    BY <2>1, StartWriteTyped
  <2>3. PlaceTypes'
    BY <1>2 DEF WriteUsb, Goto, PlaceTypes
  <2>4. QED BY <1>2, <2>2, <2>3, OutKept, BusKept DEF WriteUsb
<1>3. CASE UartEvent
  <2>1. events' \in [data : Nat, full : BOOLEAN]
    <3>1. CASE events' = events
      BY <3>1 DEF InTypes
    <3>2. CASE events.data > 0 /\ events' = [events EXCEPT !.data = @ - 1]
      <4>1. events.data - 1 \in Nat
        BY <3>2 DEF InTypes
      <4>2. QED BY <3>2, <4>1 DEF InTypes
    <3>3. CASE events' = [data |-> 0, full |-> FALSE]
      BY <3>3
    <3>4. QED BY <1>3, <3>1, <3>2, <3>3 DEF UartEvent
  <2>2. /\ rx' \in {rx, <<>>} /\ dtmp' \in {dtmp, Cleared}
        /\ torn' = torn \/ torn' = (torn \/ (inEp = "armed" /\ loaded < xferLen))
    BY <1>3 DEF UartEvent, Changed
  <2>3. rx' \in Seq(Nat) /\ Len(rx') <= RxCap
    <3>1. CASE rx' = rx
      BY <3>1 DEF InTypes
    <3>2. CASE rx' = <<>>
      BY <3>2, Sizes
    <3>3. QED BY <2>2, <3>1, <3>2
  <2>4. dtmp' \in [1 .. RxCap -> Nat]
    BY <2>2, ClearedTyped DEF InTypes
  <2>5. torn' \in BOOLEAN /\ dropped' \in BOOLEAN
    <3>1. dropped' = dropped \/ dropped' = TRUE
      BY <1>3 DEF UartEvent
    <3>2. QED BY <2>2, <3>1 DEF InTypes
  <2>6. InTypes'
    BY <1>3, <2>1, <2>3, <2>4, <2>5 DEF UartEvent, InTypes
  <2>7. PlaceTypes'
    BY <1>3 DEF UartEvent, Goto, PlaceTypes, outVars
  <2>8. QED BY <1>3, <2>6, <2>7, OutKept, BusKept DEF UartEvent
<1>4. CASE Gate
  <2>1. PlaceTypes'
    BY <1>4 DEF Gate, Goto, PlaceTypes, outVars
  <2>2. QED BY <1>4, <2>1, OutKept, InKept, BusKept DEF Gate
<1>5. CASE UartIdle
  <2>1. OutTypes'
    BY <1>5 DEF UartIdle, OutTypes
  <2>2. PlaceTypes'
    BY <1>5, ChunkFits DEF UartIdle, Goto, PlaceTypes
  <2>3. QED BY <1>5, <2>1, <2>2, InKept, BusKept DEF UartIdle
<1>6. CASE SendMore
  <2>1. PlaceTypes'
    BY <1>6, ChunkFits DEF SendMore, Goto, PlaceTypes, outVars
  <2>2. QED BY <1>6, <2>1, OutKept, InKept, BusKept DEF SendMore
<1>7. CASE SendByDma
  <2>1. written' \in Nat
    <3>1. size \in 1 .. Len(ring) /\ ring \in Seq(Nat)
      BY <1>7 DEF SendByDma, TaskAt, PlaceTypes, OutTypes
    <3>2. QED BY <1>7, <3>1 DEF SendByDma
  <2>2. OutTypes'
    BY <1>7, <2>1 DEF SendByDma, OutTypes
  <2>3. PlaceTypes'
    BY <1>7 DEF SendByDma, TaskAt, Goto, PlaceTypes
  <2>4. QED BY <1>7, <2>2, <2>3, InKept, BusKept DEF SendByDma
<1>8. CASE SendComplete
  <2>1. ring' = After(ring, size) /\ outPos' = (outPos + size) % Cap /\ size \in Nat
    BY <1>8 DEF SendComplete, PlaceTypes
  <2>2. After(ring, size) \in Seq(Nat) /\ Len(After(ring, size)) <= Len(ring)
    BY <2>1, AfterTyped DEF OutTypes
  <2>3. outPos' \in 0 .. Cap - 1
    <3>1. outPos + size \in Nat /\ Cap \in Nat \ {0}
      BY <2>1, Sizes DEF OutTypes
    <3>2. (outPos + size) % Cap \in 0 .. Cap - 1
      BY <3>1
    <3>3. QED BY <2>1, <3>2
  <2>4. ring' \in Seq(Nat) /\ Len(ring') <= Cap
    BY <2>1, <2>2, Sizes DEF OutTypes
  <2>5. OutTypes'
    BY <1>8, <2>3, <2>4 DEF SendComplete, OutTypes
  <2>6. PlaceTypes'
    BY <1>8 DEF SendComplete, Goto, PlaceTypes
  <2>7. QED BY <1>8, <2>5, <2>6, InKept, BusKept DEF SendComplete
<1>9. CASE SendIdle \/ Rearm \/ RearmRead
  <2>1. OutTypes'
    BY <1>9 DEF SendIdle, Rearm, RearmRead, StartRead, OutTypes
  <2>2. PlaceTypes'
    BY <1>9 DEF SendIdle, Rearm, RearmRead, Goto, PlaceTypes
  <2>3. QED BY <1>9, <2>1, <2>2, InKept, BusKept DEF SendIdle, Rearm, RearmRead
<1>10. QED BY <1>1, <1>2, <1>3, <1>4, <1>5, <1>6, <1>7, <1>8, <1>9 DEF Task

LEMMA TypeNext == ASSUME TypeOK, [Next]_vars PROVE TypeOK'
<1>1. CASE UNCHANGED vars
  <2>1. PlaceTypes'
    BY <1>1 DEF TypeOK, PlaceTypes, vars, outVars, inVars
  <2>2. QED BY <1>1, <2>1, OutKept, InKept, BusKept DEF TypeOK, vars
<1>2. QED BY <1>1, TypeEnvironment, TypeIsr, TypeTask DEF Next

\* dap_main.c, usb2uart.c: until more was read from the UART than dtmp holds, a USB
\* write from it stays inside it; always, a chunk taken from the ring is never longer
\* than what is in it, and the ring never holds more than it can, whatever the host
\* and the target send and whenever the bus is reset.
THEOREM TypeCorrect == Spec => []TypeOK
  BY TypeInit, TypeNext, PTL DEF Spec

-----------------------------------------------------------------------------
(* The order of the host's bytes.                                          *)

LEMMA BytesAre ==
  ASSUME NEW a \in Nat, NEW b \in Nat, a <= b
  PROVE  /\ Bytes(a, b) \in Seq(Nat) /\ Len(Bytes(a, b)) = b - a
         /\ \A i \in 1 .. b - a : Bytes(a, b)[i] = a + i
  BY BytesTyped DEF Bytes

LEMMA BytesJoin ==
  ASSUME NEW a \in Nat, NEW b \in Nat, NEW c \in Nat, a <= b, b <= c
  PROVE  Bytes(a, b) \o Bytes(b, c) = Bytes(a, c)
<1> DEFINE s == Bytes(a, b)  t == Bytes(b, c)  u == Bytes(a, c)
<1>1. /\ s \in Seq(Nat) /\ Len(s) = b - a /\ \A i \in 1 .. b - a : s[i] = a + i
      /\ t \in Seq(Nat) /\ Len(t) = c - b /\ \A i \in 1 .. c - b : t[i] = b + i
      /\ u \in Seq(Nat) /\ Len(u) = c - a /\ \A i \in 1 .. c - a : u[i] = a + i
  <2>1. a <= c
    OBVIOUS
  <2>2. s \in Seq(Nat) /\ Len(s) = b - a /\ \A i \in 1 .. b - a : s[i] = a + i
    BY BytesAre
  <2>3. t \in Seq(Nat) /\ Len(t) = c - b /\ \A i \in 1 .. c - b : t[i] = b + i
    BY BytesAre
  <2>4. u \in Seq(Nat) /\ Len(u) = c - a /\ \A i \in 1 .. c - a : u[i] = a + i
    BY <2>1, BytesAre
  <2>5. QED BY <2>2, <2>3, <2>4
<1> HIDE DEF s, t, u
<1>2. s \o t \in Seq(Nat) /\ Len(s \o t) = Len(u)
  BY <1>1
<1>3. ASSUME NEW i \in 1 .. Len(u) PROVE (s \o t)[i] = u[i]
  <2>1. CASE i <= b - a
    <3>1. i \in 1 .. b - a
      BY <1>1, <2>1
    <3>2. (s \o t)[i] = s[i]
      BY <1>1, <3>1
    <3>3. s[i] = a + i /\ u[i] = a + i
      BY <1>1, <1>3, <3>1
    <3>4. QED BY <3>2, <3>3
  <2>2. CASE i > b - a
    <3>1. i - (b - a) \in 1 .. c - b
      BY <1>1, <2>2
    <3>2. (s \o t)[i] = t[i - (b - a)]
      <4>1. /\ s \in Seq(Nat) /\ t \in Seq(Nat) /\ Len(s) = b - a
            /\ i \in 1 .. Len(s) + Len(t) /\ i > Len(s)
        BY <1>1, <1>3, <2>2
      <4>2. (s \o t)[i] = t[i - Len(s)]
        BY <4>1
      <4>3. QED BY <4>1, <4>2
    <3>3. t[i - (b - a)] = b + (i - (b - a)) /\ u[i] = a + i
      BY <1>1, <1>3, <3>1
    <3>4. b + (i - (b - a)) = a + i
      BY <1>1
    <3>5. QED BY <3>2, <3>3, <3>4
  <2>3. QED BY <1>1, <2>1, <2>2
<1>4. s \o t = u
  BY <1>1, <1>2, <1>3, SeqEqual
<1>5. QED BY <1>4 DEF s, t, u

LEMMA AfterIs ==
  ASSUME NEW q \in Seq(Nat), NEW n \in Nat, n <= Len(q)
  PROVE  /\ After(q, n) \in Seq(Nat) /\ Len(After(q, n)) = Len(q) - n
         /\ \A i \in 1 .. Len(q) - n : After(q, n)[i] = q[n + i]
  BY DEF After

LEMMA BytesAfter ==
  ASSUME NEW a \in Nat, NEW b \in Nat, a <= b, NEW n \in Nat, n <= b - a
  PROVE  After(Bytes(a, b), n) = Bytes(a + n, b)
<1> DEFINE s == Bytes(a, b)  u == Bytes(a + n, b)
<1>1. /\ s \in Seq(Nat) /\ Len(s) = b - a /\ \A i \in 1 .. b - a : s[i] = a + i
      /\ u \in Seq(Nat) /\ Len(u) = b - a - n /\ \A i \in 1 .. b - a - n : u[i] = a + n + i
  <2>1. a + n \in Nat /\ a + n <= b /\ b - (a + n) = b - a - n
    OBVIOUS
  <2>2. QED BY <2>1, BytesAre
<1> HIDE DEF s, u
<1>2. /\ After(s, n) \in Seq(Nat) /\ Len(After(s, n)) = Len(u)
      /\ \A i \in 1 .. Len(u) : After(s, n)[i] = s[n + i]
  BY <1>1, AfterIs
<1>3. ASSUME NEW i \in 1 .. Len(u) PROVE After(s, n)[i] = u[i]
  BY <1>1, <1>2
<1>4. After(s, n) = u
  BY <1>1, <1>2, <1>3, SeqEqual
<1>5. QED BY <1>4 DEF s, u

\* The last byte that has left the ring, or that is about to; the last byte
\* that has come to it.
Base   == IF task = "complete" THEN written - size ELSE written
Stored == Base + Len(ring)

\* With no reset so far, what the ring and the packet buffer hold is
\* consecutive.
InTransit ==
  /\ Base \in Nat
  /\ ring = Bytes(Base, Stored)
  /\ IF outEp = "done" THEN Stored <= sent /\ tmp = Bytes(Stored, sent) ELSE Stored = sent

LEMMA TransitKept ==
  ASSUME InTransit, UNCHANGED <<ring, tmp, sent, written>>,
         outEp' = "done" <=> outEp = "done",
         \/ task # "complete" /\ task' # "complete"
         \/ UNCHANGED <<task, size>>
  PROVE  InTransit'
<1>1. Base' = Base /\ Stored' = Stored
  BY DEF Base, Stored
<1>2. QED BY <1>1 DEF InTransit

LEMMA TransitImplies ==
  ASSUME TypeOK, InTransit
  PROVE  LET held == (IF task = "complete" THEN After(ring, size) ELSE ring)
                       \o (IF outEp = "done" THEN tmp ELSE <<>>)
         IN  held = Bytes(written, sent)
<1> DEFINE head == IF task = "complete" THEN After(ring, size) ELSE ring
           tail == IF outEp = "done" THEN tmp ELSE <<>>
<1>1. /\ Base \in Nat /\ Stored \in Nat /\ sent \in Nat /\ written \in Nat
      /\ Base <= Stored /\ Stored <= sent /\ ring \in Seq(Nat) /\ Len(ring) = Stored - Base
  <2>1. ring \in Seq(Nat) /\ Len(ring) \in Nat /\ Base \in Nat /\ sent \in Nat /\ written \in Nat
    BY DEF TypeOK, OutTypes, InTransit
  <2>2. QED BY <2>1 DEF Stored, InTransit
<1>2. head = Bytes(written, Stored) /\ written <= Stored
  <2>1. CASE task = "complete"
    <3>1. size \in Nat /\ size <= Len(ring) /\ Base + size = written
      BY <1>1, <2>1 DEF TypeOK, PlaceTypes, Base
    <3>2. After(Bytes(Base, Stored), size) = Bytes(Base + size, Stored)
      BY <1>1, <3>1, BytesAfter
    <3>3. QED BY <1>1, <2>1, <3>1, <3>2 DEF InTransit
  <2>2. CASE task # "complete"
    BY <1>1, <2>2 DEF InTransit, Base
  <2>3. QED BY <2>1, <2>2
<1>3. tail = Bytes(Stored, sent)
  <2>1. CASE outEp = "done"
    BY <2>1 DEF InTransit
  <2>2. CASE outEp # "done"
    <3>1. Stored = sent
      BY <2>2 DEF InTransit
    <3>2. Bytes(sent, sent) \in Seq(Nat) /\ Len(Bytes(sent, sent)) = 0
      <4>1. sent \in Nat /\ sent <= sent /\ sent - sent = 0
        BY <1>1
      <4>2. QED BY <4>1, BytesAre
    <3>3. QED BY <2>2, <3>1, <3>2
  <2>3. QED BY <2>1, <2>2
<1>4. head \o tail = Bytes(written, sent)
  <2>1. Bytes(written, Stored) \o Bytes(Stored, sent) = Bytes(written, sent)
    BY <1>1, <1>2, BytesJoin
  <2>2. QED BY <1>2, <1>3, <2>1
<1>5. QED BY <1>4

-----------------------------------------------------------------------------
(* The order also with resets: what comes later has a greater number.      *)

\* The last byte that has come to the ring, or that was lost on its way.
Low == IF outEp = "done" THEN sent - Len(tmp) ELSE sent

Ordered ==
  /\ outEp = "done" => /\ Len(tmp) <= sent
                       /\ \A i \in 1 .. Len(tmp) : tmp[i] = sent - Len(tmp) + i
  /\ written <= Low
  /\ \A i \in 1 .. Len(ring) : ring[i] <= Low
  /\ \A i, j \in 1 .. Len(ring) : i < j => ring[i] < ring[j]
  /\ task # "complete" => \A i \in 1 .. Len(ring) : written < ring[i]
  /\ task = "complete" => written = ring[size]

LEMMA OrderedImplies == ASSUME TypeOK, Ordered PROVE RingInOrder
<1>1. CASE task = "complete"
  <2>1. ring \in Seq(Nat) /\ size \in Nat /\ size >= 1 /\ size <= Len(ring)
    BY <1>1 DEF TypeOK, OutTypes, PlaceTypes
  <2>2. /\ Len(After(ring, size)) = Len(ring) - size
        /\ \A i \in 1 .. Len(ring) - size : After(ring, size)[i] = ring[size + i]
    BY <2>1, AfterIs
  <2>3. ASSUME NEW i \in 1 .. Len(ring) - size
        PROVE  /\ After(ring, size)[i] > written
               /\ \A j \in 1 .. i - 1 : After(ring, size)[j] < After(ring, size)[i]
    <3>1. /\ size + i \in 1 .. Len(ring) /\ size \in 1 .. Len(ring) /\ size < size + i
          /\ written = ring[size] /\ \A k \in 1 .. Len(ring) : ring[k] \in Nat
      BY <1>1, <2>1, <2>3 DEF Ordered
    <3>2. ring[size] < ring[size + i]
      BY <3>1 DEF Ordered
    <3>3. ASSUME NEW j \in 1 .. i - 1 PROVE After(ring, size)[j] < After(ring, size)[i]
      <4>1. /\ j \in 1 .. Len(ring) - size /\ size + j \in 1 .. Len(ring)
            /\ size + j < size + i
        BY <2>1, <2>3, <3>3
      <4>2. ring[size + j] < ring[size + i]
        BY <3>1, <4>1 DEF Ordered
      <4>3. QED BY <2>2, <4>1, <4>2
    <3>4. QED BY <2>2, <3>1, <3>2, <3>3
  <2>4. QED BY <1>1, <2>2, <2>3 DEF RingInOrder, Increasing
<1>2. CASE task # "complete"
  <2>1. \A k \in 1 .. Len(ring) : ring[k] \in Nat
    BY DEF TypeOK, OutTypes
  <2>2. written \in Nat /\ Len(ring) \in Nat
    BY DEF TypeOK, OutTypes
  <2>3. ASSUME NEW i \in 1 .. Len(ring)
        PROVE  ring[i] > written /\ \A j \in 1 .. i - 1 : ring[j] < ring[i]
    <3>1. written < ring[i]
      BY <1>2 DEF Ordered
    <3>2. \A j \in 1 .. i - 1 : j \in 1 .. Len(ring) /\ j < i
      BY <2>2
    <3>3. QED BY <2>1, <2>2, <3>1, <3>2 DEF Ordered
  <2>4. QED BY <1>2, <2>3 DEF RingInOrder, Increasing
<1>3. QED BY <1>1, <1>2

LEMMA OrderedKept ==
  ASSUME TypeOK, Ordered, UNCHANGED <<ring, tmp, sent, written>>,
         outEp' = "done" => outEp = "done",
         \/ task # "complete" /\ task' # "complete"
         \/ UNCHANGED <<task, size>>
  PROVE  Ordered'
<1>1. /\ Len(tmp) \in Nat /\ sent \in Nat /\ written \in Nat
      /\ \A k \in 1 .. Len(ring) : ring[k] \in Nat
  BY DEF TypeOK, OutTypes
<1>2. Low \in Int /\ Low' \in Int /\ Low <= Low'
  BY <1>1 DEF Low
<1>3. written' <= Low' /\ \A i \in 1 .. Len(ring') : ring'[i] <= Low'
  BY <1>1, <1>2 DEF Ordered
<1>4. QED BY <1>3 DEF Ordered

-----------------------------------------------------------------------------
(* The steps. *)

OrderInv == Ordered /\ (resets = 0 => InTransit)

\* The steps that move no byte of the host.
Still ==
  \/ HostRead \/ UartReceive \/ OwnerWrites \/ LoadFifo \/ BulkIn \/ SendZlp \/ OutCheck \/ OutIdle
  \/ ReadUart \/ WriteUsb \/ UartEvent \/ Gate \/ UartIdle \/ SendMore \/ SendIdle \/ Rearm

LEMMA StillOrder == ASSUME TypeOK, OrderInv, Still PROVE OrderInv'
<1>1. /\ UNCHANGED <<ring, tmp, sent, written, outEp, resets>>
      /\ \/ task # "complete" /\ task' # "complete"
         \/ UNCHANGED <<task, size>>
  BY DEF Still, HostRead, UartReceive, OwnerWrites, LoadFifo, BulkIn, SendZlp, OutCheck, OutIdle, ReadUart,
         WriteUsb, UartEvent, Gate, UartIdle, SendMore, SendIdle, Rearm, TaskAt, Goto,
         outVars, inVars, busVars
<1>2. QED BY <1>1, OrderedKept, TransitKept DEF OrderInv

\* The steps that start a read: until a reset no packet is waiting then.
LEMMA ReadOrder ==
  ASSUME TypeOK, IInv, OrderInv, OutArm \/ RearmRead \/ Configured PROVE OrderInv'
<1>1. /\ UNCHANGED <<ring, tmp, sent, written, resets>>
      /\ outEp' = "armed" \/ outEp' = outEp
      /\ \/ task # "complete" /\ task' # "complete"
         \/ UNCHANGED <<task, size>>
  BY DEF OutArm, RearmRead, Configured, StartRead, TaskAt, Goto, inVars, busVars
<1>2. resets = 0 => outEp # "done"
  BY DEF OutArm, RearmRead, Configured, TaskAt, IInv, OneOwner, NoneYet, ByEndpoint, ByHandler,
         ByTask
<1>3. QED BY <1>1, <1>2, OrderedKept, TransitKept DEF OrderInv

LEMMA ResetOrder == ASSUME TypeOK, OrderInv, BusReset PROVE OrderInv'
<1>1. /\ UNCHANGED <<ring, tmp, sent, written, task, size>> /\ outEp' = "off"
      /\ resets' = resets + 1 /\ resets \in Nat
  BY DEF BusReset, TypeOK, BusTypes
<1>2. QED BY <1>1, OrderedKept DEF OrderInv

LEMMA HostOrder == ASSUME TypeOK, OrderInv, HostSend PROVE OrderInv'
<1>1. PICK n \in 1 .. Least(Mps, limit.host - sent) :
        tmp' = Bytes(sent, sent + n) /\ sent' = sent + n
  BY DEF HostSend
<1>2. /\ outEp = "armed" /\ outEp' = "done"
      /\ UNCHANGED <<ring, written, task, size, resets>>
  BY DEF HostSend, busVars
<1>3. sent \in Nat /\ n \in Nat /\ sent + n \in Nat /\ sent <= sent + n
  BY DEF TypeOK, OutTypes
<1>4. /\ Len(tmp') = n /\ \A i \in 1 .. n : tmp'[i] = sent + i
  <2>1. /\ Len(Bytes(sent, sent + n)) = (sent + n) - sent
        /\ \A i \in 1 .. (sent + n) - sent : Bytes(sent, sent + n)[i] = sent + i
    BY <1>3, BytesAre
  <2>2. (sent + n) - sent = n
    BY <1>3
  <2>3. QED BY <1>1, <2>1, <2>2
<1>5. Low = sent /\ Low' = sent /\ sent' - Len(tmp') = sent
  BY <1>1, <1>2, <1>3, <1>4 DEF Low
<1>6. Ordered'
  <2>1. Len(tmp') <= sent' /\ \A i \in 1 .. Len(tmp') : tmp'[i] = sent' - Len(tmp') + i
    <3>1. Len(tmp') = n /\ sent' = sent + n /\ n <= sent + n
      BY <1>1, <1>3, <1>4
    <3>2. QED BY <1>4, <1>5, <3>1
  <2>2. QED BY <1>2, <1>5, <2>1 DEF OrderInv, Ordered
<1>7. ASSUME resets = 0 PROVE InTransit'
  <2>1. InTransit /\ Stored = sent /\ Stored' = Stored /\ Base' = Base
    BY <1>2, <1>7 DEF OrderInv, InTransit, Base, Stored
  <2>2. QED BY <1>1, <1>2, <1>3, <2>1 DEF InTransit
<1>8. QED BY <1>2, <1>6, <1>7 DEF OrderInv

LEMMA BulkOrder == ASSUME TypeOK, IInv, OrderInv, BulkOut PROVE OrderInv'
<1> DEFINE new == Upto(tmp, Room)
<1>1. /\ outEp = "done" /\ outEp' = "off" /\ ring' = ring \o new
      /\ UNCHANGED <<tmp, sent, written, task, size, resets>>
  BY DEF BulkOut, busVars
<1>2. /\ ring \in Seq(Nat) /\ Len(ring) \in Nat /\ tmp \in Seq(Nat) /\ Len(tmp) \in Nat
      /\ sent \in Nat /\ written \in Nat /\ Room \in Nat /\ Len(tmp) <= Mps
      /\ \A k \in 1 .. Len(ring) : ring[k] \in Nat
  BY Sizes DEF TypeOK, OutTypes, Room
<1>3. /\ new \in Seq(Nat) /\ Len(new) \in Nat /\ Len(new) <= Len(tmp)
      /\ \A i \in 1 .. Len(new) : new[i] = tmp[i]
      /\ Len(tmp) <= Room => new = tmp
  BY <1>2, UptoShort
<1>4. /\ Low = sent - Len(tmp) /\ Low' = sent /\ Low \in Nat /\ Low <= sent
      /\ \A i \in 1 .. Len(new) : new[i] = Low + i
  BY <1>1, <1>2, <1>3 DEF Low, OrderInv, Ordered
<1> HIDE DEF new
<1>5. /\ Len(ring') = Len(ring) + Len(new)
      /\ \A i \in 1 .. Len(ring) : ring'[i] = ring[i]
      /\ \A i \in 1 .. Len(ring') : i > Len(ring) => ring'[i] = Low + (i - Len(ring))
  <2>1. Len(ring \o new) = Len(ring) + Len(new)
    BY <1>2, <1>3
  <2>2. \A i \in 1 .. Len(ring) : (ring \o new)[i] = ring[i]
    BY <1>2, <1>3
  <2>3. ASSUME NEW i \in 1 .. Len(ring) + Len(new), i > Len(ring)
        PROVE  (ring \o new)[i] = Low + (i - Len(ring))
    <3>1. i - Len(ring) \in 1 .. Len(new)
      BY <1>2, <1>3, <2>3
    <3>2. (ring \o new)[i] = new[i - Len(ring)]
      BY <1>2, <1>3, <2>3
    <3>3. QED BY <1>4, <3>1, <3>2
  <2>4. QED BY <1>1, <2>1, <2>2, <2>3
<1>6. Ordered'
  <2>1. \A i \in 1 .. Len(ring) : ring[i] <= Low /\ (task # "complete" => written < ring[i])
    BY DEF OrderInv, Ordered
  <2>2. written <= Low /\ written' <= Low'
    BY <1>1, <1>2, <1>4 DEF OrderInv, Ordered
  <2>3. ASSUME NEW i \in 1 .. Len(ring')
        PROVE  ring'[i] <= Low' /\ (task' # "complete" => written' < ring'[i])
    <3>1. CASE i <= Len(ring)
      <4>1. i \in 1 .. Len(ring)
        BY <1>2, <1>3, <1>5, <3>1
      <4>2. ring'[i] = ring[i] /\ ring[i] <= Low
        BY <1>5, <2>1, <4>1
      <4>3. ring[i] <= sent
        BY <1>2, <1>4, <4>1, <4>2
      <4>4. QED BY <1>1, <1>4, <2>1, <4>1, <4>2, <4>3
    <3>2. CASE i > Len(ring)
      <4>1. ring'[i] = Low + (i - Len(ring)) /\ i - Len(ring) >= 1 /\ i - Len(ring) <= Len(new)
        BY <1>2, <1>3, <1>5, <3>2
      <4>2. Low + Len(tmp) = sent
        BY <1>2, <1>4
      <4>3. QED BY <1>1, <1>2, <1>3, <1>4, <2>2, <4>1, <4>2
    <3>3. QED BY <1>2, <1>5, <3>1, <3>2
  <2>4. ASSUME NEW i \in 1 .. Len(ring'), NEW j \in 1 .. Len(ring'), i < j
        PROVE  ring'[i] < ring'[j]
    <3>1. CASE j <= Len(ring)
      <4>1. i \in 1 .. Len(ring) /\ j \in 1 .. Len(ring)
        BY <1>2, <1>3, <1>5, <2>4, <3>1
      <4>2. QED BY <1>5, <2>4, <4>1 DEF OrderInv, Ordered
    <3>2. CASE j > Len(ring) /\ i <= Len(ring)
      <4>1. i \in 1 .. Len(ring)
        BY <1>2, <1>3, <1>5, <3>2
      <4>2. ring'[i] = ring[i] /\ ring[i] <= Low /\ ring[i] \in Nat
        BY <1>2, <1>5, <2>1, <4>1
      <4>3. ring'[j] = Low + (j - Len(ring)) /\ j - Len(ring) >= 1
        BY <1>2, <1>3, <1>5, <3>2
      <4>4. QED BY <1>2, <1>4, <4>2, <4>3
    <3>3. CASE i > Len(ring)
      <4>1. j > Len(ring)
        BY <1>2, <1>3, <1>5, <2>4, <3>3
      <4>2. ring'[i] = Low + (i - Len(ring)) /\ ring'[j] = Low + (j - Len(ring))
        BY <1>5, <3>3, <4>1
      <4>3. QED BY <1>2, <1>3, <1>4, <1>5, <2>4, <4>2
    <3>4. QED BY <1>2, <1>5, <3>1, <3>2, <3>3
  <2>5. task' = "complete" => written' = ring'[size']
    <3>1. ASSUME task = "complete" PROVE size \in 1 .. Len(ring) /\ written = ring[size]
      BY <1>2, <3>1 DEF TypeOK, PlaceTypes, OrderInv, Ordered
    <3>2. QED BY <1>1, <1>5, <3>1
  <2>6. outEp' # "done"
    BY <1>1
  <2>7. QED BY <2>2, <2>3, <2>4, <2>5, <2>6 DEF Ordered
<1>7. ASSUME resets = 0 PROVE InTransit'
  <2>1. new = tmp
    BY <1>1, <1>2, <1>3, <1>7, Sizes DEF IInv, HasRoom, ByEndpoint
  <2>2. InTransit /\ Stored <= sent /\ tmp = Bytes(Stored, sent) /\ ring = Bytes(Base, Stored)
    BY <1>1, <1>7 DEF OrderInv, InTransit
  <2>3. Base' = Base /\ Base \in Nat /\ Stored \in Nat /\ Base <= Stored
    BY <1>1, <1>2, <2>2 DEF Base, Stored, InTransit
  <2>4. ring' = Bytes(Base, sent)
    BY <1>1, <1>2, <2>1, <2>2, <2>3, BytesJoin
  <2>5. Len(ring') = sent - Base /\ Stored' = sent
    <3>1. Len(ring') = sent - Base
      <4>1. Base \in Nat /\ sent \in Nat /\ Base <= sent
        BY <1>2, <2>2, <2>3
      <4>2. Len(Bytes(Base, sent)) = sent - Base
        BY <4>1, BytesAre
      <4>3. QED BY <2>4, <4>2
    <3>2. QED BY <1>2, <2>3, <3>1 DEF Stored
  <2>6. QED BY <1>1, <2>3, <2>4, <2>5 DEF InTransit
<1>8. QED BY <1>1, <1>6, <1>7 DEF OrderInv

LEMMA SendOrder == ASSUME TypeOK, OrderInv, SendByDma PROVE OrderInv'
<1>1. /\ task = "send" /\ task' = "complete" /\ written' = ring[size]
      /\ UNCHANGED <<ring, outEp, tmp, sent, size, resets>>
  BY DEF SendByDma, TaskAt, Goto, busVars
<1>2. /\ ring \in Seq(Nat) /\ Len(ring) \in Nat /\ size \in 1 .. Len(ring)
      /\ written \in Nat /\ sent \in Nat /\ ring[size] \in Nat
  BY <1>1 DEF TypeOK, OutTypes, PlaceTypes
<1>3. Ordered'
  <2>1. Low' = Low
    BY <1>1 DEF Low
  <2>2. QED BY <1>1, <1>2, <2>1 DEF OrderInv, Ordered
<1>4. ASSUME resets = 0 PROVE InTransit'
  <2>1. InTransit /\ Base = written /\ ring = Bytes(Base, Stored) /\ Stored = Base + Len(ring)
    BY <1>1, <1>4 DEF OrderInv, InTransit, Base, Stored
  <2>2. written' = written + size
    <3>1. Stored - Base = Len(ring) /\ Base <= Stored /\ Base \in Nat /\ Stored \in Nat
      BY <1>2, <2>1
    <3>2. ring[size] = Base + size
      <4>1. size \in 1 .. Stored - Base
        BY <1>2, <3>1
      <4>2. \A i \in 1 .. Stored - Base : Bytes(Base, Stored)[i] = Base + i
        BY <3>1, BytesAre
      <4>3. QED BY <2>1, <4>1, <4>2
    <3>3. QED BY <1>1, <2>1, <3>2
  <2>3. Base' = Base /\ Stored' = Stored
    <3>1. Base' = (written + size) - size
      BY <1>1, <2>2 DEF Base
    <3>2. (written + size) - size = written
      BY <1>2
    <3>3. QED BY <1>1, <2>1, <3>1, <3>2 DEF Stored
  <2>4. QED BY <1>1, <2>1, <2>3 DEF InTransit
<1>5. QED BY <1>1, <1>3, <1>4 DEF OrderInv

LEMMA CompleteOrder == ASSUME TypeOK, OrderInv, SendComplete PROVE OrderInv'
<1>1. /\ task = "complete" /\ task' = "more" /\ ring' = After(ring, size)
      /\ UNCHANGED <<outEp, tmp, sent, written, size, resets>>
  BY DEF SendComplete, TaskAt, Goto, busVars
<1>2. /\ ring \in Seq(Nat) /\ Len(ring) \in Nat /\ size \in Nat /\ size >= 1 /\ size <= Len(ring)
      /\ written \in Nat /\ sent \in Nat
  BY <1>1 DEF TypeOK, OutTypes, PlaceTypes
<1>3. /\ Len(ring') = Len(ring) - size
      /\ \A i \in 1 .. Len(ring') : ring'[i] = ring[size + i]
  BY <1>1, <1>2, AfterIs
<1>4. Ordered'
  <2>1. Low' = Low
    BY <1>1 DEF Low
  <2>2. size \in 1 .. Len(ring) /\ \A i \in 1 .. Len(ring') : size + i \in 1 .. Len(ring)
    BY <1>2, <1>3
  <2>3. ASSUME NEW i \in 1 .. Len(ring') PROVE ring'[i] <= Low' /\ written' < ring'[i]
    <3>1. ring[size + i] <= Low /\ size < size + i
      BY <1>2, <2>2 DEF OrderInv, Ordered
    <3>2. ring[size] < ring[size + i]
      BY <2>2, <3>1 DEF OrderInv, Ordered
    <3>3. QED BY <1>1, <1>3, <2>1, <3>1, <3>2 DEF OrderInv, Ordered
  <2>4. ASSUME NEW i \in 1 .. Len(ring'), NEW j \in 1 .. Len(ring'), i < j
        PROVE  ring'[i] < ring'[j]
    <3>1. size + i < size + j
      BY <1>2, <2>4
    <3>2. QED BY <1>3, <2>2, <3>1 DEF OrderInv, Ordered
  <2>5. written' <= Low' /\ task' # "complete"
    BY <1>1, <2>1 DEF OrderInv, Ordered
  <2>6. outEp' = "done" => /\ Len(tmp') <= sent'
                           /\ \A i \in 1 .. Len(tmp') : tmp'[i] = sent' - Len(tmp') + i
    BY <1>1 DEF OrderInv, Ordered
  <2>7. QED BY <2>3, <2>4, <2>5, <2>6 DEF Ordered
<1>5. ASSUME resets = 0 PROVE InTransit'
  <2>1. InTransit /\ ring = Bytes(Base, Stored) /\ Base \in Nat /\ Stored = Base + Len(ring)
    BY <1>5 DEF OrderInv, InTransit, Stored
  <2>2. Base + size = written /\ Base' = written
    BY <1>1, <1>2, <2>1 DEF Base
  <2>3. Stored' = Stored
    <3>1. Stored' = written + Len(ring') /\ Len(ring') = Len(ring) - size
      BY <1>3, <2>2 DEF Stored
    <3>2. (Base + size) + (Len(ring) - size) = Base + Len(ring)
      BY <1>2, <2>1
    <3>3. QED BY <2>1, <2>2, <3>1, <3>2
  <2>4. ring' = Bytes(written, Stored)
    <3>1. Stored \in Nat /\ Base <= Stored /\ size <= Stored - Base
      BY <1>2, <2>1
    <3>2. After(Bytes(Base, Stored), size) = Bytes(Base + size, Stored)
      BY <1>2, <2>1, <3>1, BytesAfter
    <3>3. QED BY <1>1, <2>1, <2>2, <3>2
  <2>5. QED BY <1>1, <1>2, <2>1, <2>2, <2>3, <2>4 DEF InTransit
<1>6. QED BY <1>1, <1>4, <1>5 DEF OrderInv

-----------------------------------------------------------------------------
LEMMA OrderInit == Init => OrderInv
<1> SUFFICES ASSUME Init PROVE OrderInv
  OBVIOUS
<1>1. /\ ring = <<>> /\ outEp = "off" /\ sent = 0 /\ written = 0 /\ task = "events"
  BY DEF Init
<1>2. Len(ring) = 0
  BY <1>1
<1>3. Bytes(0, 0) = <<>>
  <2>1. Bytes(0, 0) \in Seq(Nat) /\ Len(Bytes(0, 0)) = 0
    BY BytesAre
  <2>2. QED BY <2>1
<1>4. QED BY <1>1, <1>2, <1>3 DEF OrderInv, Ordered, InTransit, Base, Stored, Low

LEMMA OrderNext == ASSUME TypeOK, IInv, OrderInv, [Next]_vars PROVE OrderInv'
<1>1. CASE UNCHANGED vars
  <2>1. UNCHANGED <<ring, tmp, sent, written, outEp, resets, task, size>>
    BY <1>1 DEF vars, outVars, busVars
  <2>2. QED BY <2>1, OrderedKept, TransitKept DEF OrderInv
<1>2. CASE Next
  BY <1>2, StillOrder, ReadOrder, ResetOrder, HostOrder, BulkOrder, SendOrder, CompleteOrder
  DEF Next, Isr, Task, Environment, Still
<1>3. QED BY <1>1, <1>2

\* usb2uart.c, dap_main.c: the host's bytes go to the UART in the order they were
\* sent and none of them twice; until the bus is reset none is lost either: the ring
\* and the packet buffer hold exactly what was sent and not yet written.
THEOREM HostBytes == Spec => []HostBytesInOrder
<1>1. TypeOK /\ OrderInv => HostBytesInOrder
  BY TransitImplies, OrderedImplies DEF OrderInv, HostBytesInOrder, HostBytesAccounted
<1>2. QED
  BY <1>1, TypeInit, TypeNext, InitIInv, NextIInv, OrderInit, OrderNext, PTL DEF Spec

-----------------------------------------------------------------------------
(* The bytes of the UART.                                                  *)

\* Each place on their way holds the numbers that follow those of the places
\* nearer to the host: the FIFO, what is still to be loaded, what is still to
\* be written to the endpoint, what the driver holds.
Loadable == IF inEp = "armed" THEN xferLen - loaded ELSE 0
Writable == IF task = "startWrite" THEN size ELSE 0
FifoEnd  == got + Len(fifo)
LoadEnd  == FifoEnd + Loadable
WriteEnd == LoadEnd + Writable

InPlaces ==
  /\ uartIn = WriteEnd + Len(rx)
  /\ \A i \in 1 .. Len(fifo) : fifo[i] = got + i
  /\ inEp = "armed" => \A i \in loaded + 1 .. xferLen : dtmp[i] = FifoEnd + (i - loaded)
  /\ task = "startWrite" => \A i \in 1 .. size : dtmp[i] = LoadEnd + i
  /\ \A i \in 1 .. Len(rx) : rx[i] = WriteEnd + i

Intact == ~overlapped /\ ~torn /\ ~dropped /\ ~overrun

\* The endpoint's FIFO is empty when no transfer is in progress.
UartInv == (inEp # "armed" => fifo = <<>>) /\ (Intact => InPlaces)

LEMMA EndsTyped ==
  ASSUME TypeOK
  PROVE  /\ Loadable \in Nat /\ Writable \in Nat /\ FifoEnd \in Nat /\ LoadEnd \in Nat
         /\ WriteEnd \in Nat /\ got \in Nat /\ uartIn \in Nat /\ Len(fifo) \in Nat
         /\ Len(rx) \in Nat /\ got <= FifoEnd /\ FifoEnd <= LoadEnd /\ LoadEnd <= WriteEnd
<1>1. /\ got \in Nat /\ uartIn \in Nat /\ Len(fifo) \in Nat /\ Len(rx) \in Nat
      /\ xferLen \in Nat /\ loaded \in 0 .. xferLen /\ size \in Nat
  BY Sizes DEF TypeOK, InTypes, PlaceTypes
<1>2. Loadable \in Nat /\ Writable \in Nat
  BY <1>1 DEF Loadable, Writable
<1>3. FifoEnd \in Nat /\ got <= FifoEnd
  BY <1>1 DEF FifoEnd
<1>4. LoadEnd \in Nat /\ FifoEnd <= LoadEnd
  BY <1>2, <1>3 DEF LoadEnd
<1>5. WriteEnd \in Nat /\ LoadEnd <= WriteEnd
  BY <1>2, <1>4 DEF WriteEnd
<1>6. QED BY <1>1, <1>2, <1>3, <1>4, <1>5

\* A sequence of consecutive numbers.
LEMMA IsBytes ==
  ASSUME NEW q \in Seq(Nat), NEW a \in Nat, NEW b \in Nat, a <= b, Len(q) = b - a,
         \A i \in 1 .. Len(q) : q[i] = a + i
  PROVE  q = Bytes(a, b)
<1>1. /\ Bytes(a, b) \in Seq(Nat) /\ Len(Bytes(a, b)) = Len(q)
      /\ \A i \in 1 .. Len(q) : Bytes(a, b)[i] = q[i]
  BY BytesAre
<1>2. QED BY <1>1, SeqEqual

LEMMA UartInvImplies == ASSUME TypeOK, UartInv PROVE UartBytesAccounted
<1> DEFINE toLoad == IF inEp = "armed" THEN SubSeq(dtmp, loaded + 1, xferLen) ELSE <<>>
           toWrite == IF task = "startWrite" THEN SubSeq(dtmp, 1, size) ELSE <<>>
<1> SUFFICES ASSUME Intact PROVE fifo \o toLoad \o toWrite \o rx = Bytes(got, uartIn)
  BY DEF UartBytesAccounted, UartBytesHeld, Intact
<1>1. InPlaces /\ uartIn = WriteEnd + Len(rx)
  BY DEF UartInv, InPlaces
<1>2. /\ dtmp \in Seq(Nat) /\ Len(dtmp) = RxCap /\ fifo \in Seq(Nat) /\ rx \in Seq(Nat)
      /\ xferLen \in Nat /\ xferLen <= RxCap /\ loaded \in Nat /\ loaded <= xferLen
      /\ size \in Nat /\ (task = "startWrite" => size <= RxCap)
      /\ <<>> \in Seq(Nat) /\ Len(<<>>) = 0
  BY Sizes DEF TypeOK, InTypes, PlaceTypes
<1>3. fifo = Bytes(got, FifoEnd)
  <2>1. Len(fifo) = FifoEnd - got
    BY EndsTyped DEF FifoEnd
  <2>2. QED BY <1>1, <1>2, <2>1, EndsTyped, IsBytes DEF InPlaces
<1>4. toLoad = Bytes(FifoEnd, LoadEnd)
  <2>1. toLoad \in Seq(Nat) /\ Len(toLoad) = Loadable
    BY <1>2 DEF Loadable
  <2>2. ASSUME NEW i \in 1 .. Len(toLoad) PROVE toLoad[i] = FifoEnd + i
    <3>1. inEp = "armed" /\ i \in 1 .. xferLen - loaded
      BY <1>2, <2>1, <2>2 DEF Loadable
    <3>2. toLoad[i] = dtmp[loaded + i]
      BY <1>2, <3>1
    <3>3. loaded + i \in loaded + 1 .. xferLen /\ (loaded + i) - loaded = i
      BY <1>2, <3>1
    <3>4. QED BY <1>1, <3>1, <3>2, <3>3 DEF InPlaces
  <2>3. Len(toLoad) = LoadEnd - FifoEnd
    BY <2>1, EndsTyped DEF LoadEnd
  <2> HIDE DEF toLoad
  <2>4. QED BY <2>1, <2>2, <2>3, EndsTyped, IsBytes
<1>5. toWrite = Bytes(LoadEnd, WriteEnd)
  <2>1. toWrite \in Seq(Nat) /\ Len(toWrite) = Writable
    BY <1>2 DEF Writable
  <2>2. ASSUME NEW i \in 1 .. Len(toWrite) PROVE toWrite[i] = LoadEnd + i
    <3>1. task = "startWrite" /\ i \in 1 .. size
      BY <1>2, <2>1, <2>2 DEF Writable
    <3>2. toWrite[i] = dtmp[i]
      BY <1>2, <3>1
    <3>3. QED BY <1>1, <3>1, <3>2 DEF InPlaces
  <2>3. Len(toWrite) = WriteEnd - LoadEnd
    BY <2>1, EndsTyped DEF WriteEnd
  <2> HIDE DEF toWrite
  <2>4. QED BY <2>1, <2>2, <2>3, EndsTyped, IsBytes
<1>6. rx = Bytes(WriteEnd, uartIn) /\ WriteEnd <= uartIn
  <2>1. Len(rx) = uartIn - WriteEnd /\ WriteEnd <= uartIn
    BY <1>1, EndsTyped
  <2>2. QED BY <1>1, <1>2, <2>1, EndsTyped, IsBytes DEF InPlaces
<1> HIDE DEF toLoad, toWrite
<1>7. fifo \o toLoad = Bytes(got, LoadEnd)
  BY <1>3, <1>4, EndsTyped, BytesJoin
<1>8. Bytes(got, LoadEnd) \o toWrite = Bytes(got, WriteEnd)
  <2>1. got <= LoadEnd
    BY EndsTyped
  <2>2. QED BY <1>5, <2>1, EndsTyped, BytesJoin
<1>9. Bytes(got, WriteEnd) \o rx = Bytes(got, uartIn)
  <2>1. got <= WriteEnd
    BY EndsTyped
  <2>2. QED BY <1>6, <2>1, EndsTyped, BytesJoin
<1>10. QED BY <1>7, <1>8, <1>9

LEMMA UartKept ==
  ASSUME UartInv, UNCHANGED inVars,
         \/ task # "startWrite" /\ task' # "startWrite"
         \/ UNCHANGED <<task, size>>
  PROVE  UartInv'
<1>1. UNCHANGED <<Loadable, Writable, FifoEnd>>
  BY DEF Loadable, Writable, FifoEnd, inVars
<1>2. UNCHANGED <<LoadEnd, WriteEnd>>
  BY <1>1 DEF LoadEnd, WriteEnd
<1>3. QED BY <1>1, <1>2 DEF UartInv, InPlaces, Intact, inVars

\* The steps of the other direction.
OtherWay ==
  \/ HostSend \/ BulkOut \/ OutCheck \/ OutArm \/ OutIdle \/ Configured \/ Gate \/ UartIdle
  \/ SendByDma \/ SendComplete \/ SendMore \/ SendIdle \/ Rearm \/ RearmRead

LEMMA OtherWayUart == ASSUME UartInv, OtherWay PROVE UartInv'
<1>1. /\ UNCHANGED inVars
      /\ \/ task # "startWrite" /\ task' # "startWrite"
         \/ UNCHANGED <<task, size>>
  BY DEF OtherWay, HostSend, BulkOut, OutCheck, OutArm, OutIdle, Configured, Gate, UartIdle,
         SendByDma, SendComplete, SendMore, SendIdle, Rearm, RearmRead, TaskAt, Goto
<1>2. QED BY <1>1, UartKept

\* A write takes over what is to be written, or nothing (the empty packet).
LEMMA WriteUart ==
  ASSUME TypeOK, UartInv, WriteUsb \/ SendZlp PROVE UartInv'
<1> DEFINE n == IF SendZlp THEN 0 ELSE size
<1>1. /\ StartWrite(n) /\ UNCHANGED <<rx, dtmp, uartIn, got, torn, overrun, size>>
      /\ \/ task = "startWrite" /\ task' # "startWrite" /\ n = size
         \/ task' = task /\ n = 0
  BY DEF WriteUsb, SendZlp, TaskAt, Goto
<1>2. size \in Nat /\ n \in Nat /\ (task = "startWrite" => size >= 0)
  BY DEF TypeOK, PlaceTypes
<1> HIDE DEF n
<1>3. CASE configured
  <2>1. /\ inEp' = "armed" /\ xferLen' = n /\ loaded' = 0 /\ fifo' \in {fifo, <<>>}
        /\ overlapped' = (overlapped \/ inEp # "off") /\ dropped' = dropped
    BY <1>1, <1>3 DEF StartWrite
  <2>2. ASSUME Intact' PROVE InPlaces'
    <3>1. Intact /\ inEp = "off" /\ fifo = <<>> /\ fifo' = <<>> /\ InPlaces
      BY <1>1, <2>1, <2>2 DEF Intact, UartInv
    <3>2. /\ Loadable = 0 /\ Loadable' = n /\ FifoEnd = got /\ FifoEnd' = got /\ got \in Nat
          /\ LoadEnd = got /\ LoadEnd' = got + n
      BY <1>1, <1>2, <2>1, <3>1, EndsTyped DEF Loadable, FifoEnd, LoadEnd
    <3>3. WriteEnd' = WriteEnd
      <4>1. CASE task = "startWrite" /\ task' # "startWrite" /\ n = size
        BY <1>1, <1>2, <3>2, <4>1 DEF WriteEnd, Writable
      <4>2. CASE task' = task /\ n = 0
        BY <1>1, <1>2, <3>2, <4>2 DEF WriteEnd, Writable
      <4>3. QED BY <1>1, <4>1, <4>2
    <3>4. ASSUME NEW i \in loaded' + 1 .. xferLen'
          PROVE  dtmp'[i] = FifoEnd' + (i - loaded')
      <4>1. i \in 1 .. n /\ i - loaded' = i
        BY <1>2, <2>1, <3>4
      <4>2. task = "startWrite" /\ n = size
        BY <1>1, <4>1
      <4>3. dtmp[i] = LoadEnd + i
        BY <3>1, <4>1, <4>2 DEF InPlaces
      <4>4. QED BY <1>1, <3>2, <4>1, <4>3
    <3>5. ASSUME task' = "startWrite", NEW i \in 1 .. size' PROVE dtmp'[i] = LoadEnd' + i
      <4>1. task = "startWrite" /\ n = 0 /\ i \in 1 .. size
        BY <1>1, <3>5
      <4>2. dtmp[i] = LoadEnd + i /\ LoadEnd' = LoadEnd
        BY <3>1, <3>2, <4>1 DEF InPlaces
      <4>3. QED BY <1>1, <4>2
    <3>6. uartIn' = WriteEnd' + Len(rx') /\ \A i \in 1 .. Len(rx') : rx'[i] = WriteEnd' + i
      BY <1>1, <3>1, <3>3 DEF InPlaces
    <3>7. Len(fifo') = 0
      BY <3>1
    <3>8. QED BY <3>4, <3>5, <3>6, <3>7 DEF InPlaces
  <2>3. QED BY <2>1, <2>2 DEF UartInv
<1>4. CASE ~configured
  <2>1. /\ dropped' = (dropped \/ n > 0)
        /\ UNCHANGED <<inEp, xferLen, loaded, fifo, overlapped>>
    BY <1>1, <1>4 DEF StartWrite
  <2>2. ASSUME Intact' PROVE InPlaces'
    <3>1. Intact /\ InPlaces /\ n = 0
      <4>1. Intact /\ ~(n > 0)
        BY <1>1, <2>1, <2>2 DEF Intact
      <4>2. QED BY <1>2, <4>1 DEF UartInv
    <3>2. Writable' = Writable
      BY <1>1, <3>1 DEF Writable
    <3>3. UNCHANGED <<Loadable, FifoEnd>>
      BY <1>1, <2>1 DEF Loadable, FifoEnd
    <3>4. UNCHANGED <<LoadEnd, WriteEnd>>
      BY <3>2, <3>3 DEF LoadEnd, WriteEnd
    <3>5. task' = "startWrite" => task = "startWrite"
      BY <1>1
    <3>6. QED BY <1>1, <2>1, <3>1, <3>3, <3>4, <3>5 DEF InPlaces
  <2>3. QED BY <2>1, <2>2 DEF UartInv
<1>5. QED BY <1>3, <1>4

LEMMA LoadUart == ASSUME TypeOK, UartInv, LoadFifo PROVE UartInv'
<1> DEFINE n == Least(Mps, xferLen - loaded)
<1>1. /\ n \in Nat /\ loaded \in Nat /\ xferLen \in Nat /\ loaded + n <= xferLen
      /\ xferLen <= RxCap
  BY Sizes DEF LoadFifo, Least, TypeOK, InTypes
<1>2. /\ inEp = "armed" /\ inEp' = "armed" /\ fifo = <<>> /\ loaded' = loaded + n
      /\ fifo' = SubSeq(dtmp, loaded + 1, loaded + n)
      /\ UNCHANGED <<rx, dtmp, xferLen, uartIn, got, overlapped, torn, dropped, overrun, task, size>>
  BY DEF LoadFifo
<1> HIDE DEF n
<1>3. dtmp \in Seq(Nat) /\ Len(dtmp) = RxCap
  BY Sizes DEF TypeOK, InTypes
<1>4. Len(fifo') = n /\ \A i \in 1 .. n : fifo'[i] = dtmp[loaded + i]
  BY <1>1, <1>2, <1>3
<1>5. Len(fifo) = 0
  BY <1>2
<1>6. FifoEnd = got /\ FifoEnd' = got + n /\ LoadEnd' = LoadEnd
  BY <1>1, <1>2, <1>4, <1>5, EndsTyped DEF FifoEnd, LoadEnd, Loadable
<1>7. WriteEnd' = WriteEnd
  BY <1>2, <1>6 DEF WriteEnd, Writable
<1>8. ASSUME InPlaces PROVE InPlaces'
  <2>1. \A i \in loaded + 1 .. xferLen : dtmp[i] = got + (i - loaded)
    BY <1>2, <1>6, <1>8 DEF InPlaces
  <2>2. ASSUME NEW i \in 1 .. Len(fifo') PROVE fifo'[i] = got' + i
    <3>1. loaded + i \in loaded + 1 .. xferLen /\ (loaded + i) - loaded = i /\ i \in 1 .. n
      BY <1>1, <1>4, <2>2
    <3>2. QED BY <1>2, <1>4, <2>1, <3>1
  <2>3. ASSUME NEW i \in loaded' + 1 .. xferLen' PROVE dtmp'[i] = FifoEnd' + (i - loaded')
    <3>1. i \in loaded + 1 .. xferLen /\ got + (i - loaded) = (got + n) + (i - (loaded + n))
      BY <1>1, <1>2, <2>3, EndsTyped
    <3>2. QED BY <1>2, <1>6, <2>1, <3>1
  <2>4. QED BY <1>2, <1>6, <1>7, <1>8, <2>2, <2>3 DEF InPlaces
<1>9. QED BY <1>2, <1>8 DEF UartInv, Intact

LEMMA ReadUartHost == ASSUME TypeOK, UartInv, HostRead PROVE UartInv'
<1>1. /\ inEp = "armed" /\ (fifo # <<>> \/ loaded = xferLen) /\ fifo' = <<>>
      /\ got' = (IF fifo = <<>> THEN got ELSE fifo[Len(fifo)])
      /\ inEp' = (IF loaded = xferLen THEN "done" ELSE "armed")
      /\ UNCHANGED <<rx, dtmp, xferLen, loaded, uartIn, overlapped, torn, dropped, overrun,
                     task, size>>
  BY DEF HostRead, outVars, busVars
<1>2. Len(fifo') = 0 /\ fifo \in Seq(Nat) /\ loaded \in Nat /\ xferLen \in Nat
  BY <1>1, Sizes DEF TypeOK, InTypes
<1>3. ASSUME InPlaces PROVE InPlaces'
  <2>1. got' = FifoEnd /\ FifoEnd' = FifoEnd
    <3>1. CASE fifo = <<>>
      BY <1>1, <1>2, <3>1, EndsTyped DEF FifoEnd
    <3>2. CASE fifo # <<>>
      <4>1. Len(fifo) \in 1 .. Len(fifo)
        BY <1>2, <3>2
      <4>2. fifo[Len(fifo)] = got + Len(fifo)
        BY <1>3, <4>1 DEF InPlaces
      <4>3. QED BY <1>1, <1>2, <3>2, <4>2, EndsTyped DEF FifoEnd
    <3>3. QED BY <3>1, <3>2
  <2>2. Loadable' = Loadable
    BY <1>1, <1>2 DEF Loadable
  <2>3. LoadEnd' = LoadEnd /\ WriteEnd' = WriteEnd
    BY <1>1, <2>1, <2>2 DEF LoadEnd, WriteEnd, Writable
  <2>4. QED BY <1>1, <1>2, <1>3, <2>1, <2>3 DEF InPlaces
<1>4. QED BY <1>1, <1>3 DEF UartInv, Intact

LEMMA ReceiveUart == ASSUME TypeOK, UartInv, UartReceive PROVE UartInv'
<1>1. PICK n \in 1 .. limit.uart - uartIn :
        /\ uartIn' = uartIn + n
        /\ \/ rx' = rx \o Bytes(uartIn, uartIn + n) /\ dropped' = dropped
           \/ dropped' = TRUE
  BY DEF UartReceive
<1>2. UNCHANGED <<dtmp, inEp, xferLen, loaded, fifo, got, overlapped, torn, overrun, task, size>>
  BY DEF UartReceive
<1>3. n \in Nat /\ uartIn \in Nat /\ uartIn + n \in Nat /\ uartIn <= uartIn + n
      /\ rx \in Seq(Nat)
  BY Sizes DEF TypeOK, InTypes, BusTypes
<1>4. UNCHANGED <<FifoEnd, Loadable, Writable>>
  BY <1>2 DEF FifoEnd, Loadable, Writable
<1>5. UNCHANGED <<LoadEnd, WriteEnd>>
  BY <1>4 DEF LoadEnd, WriteEnd
<1>6. ASSUME Intact' PROVE InPlaces'
  <2> DEFINE new == Bytes(uartIn, uartIn + n)
  <2>1. rx' = rx \o new /\ InPlaces
    BY <1>1, <1>2, <1>6 DEF Intact, UartInv
  <2>2. new \in Seq(Nat) /\ Len(new) = n /\ \A i \in 1 .. n : new[i] = uartIn + i
    <3>1. (uartIn + n) - uartIn = n
      BY <1>3
    <3>2. QED BY <1>3, <3>1, BytesAre
  <2> HIDE DEF new
  <2>3. Len(rx') = Len(rx) + n
    <3>1. rx \in Seq(Nat) /\ new \in Seq(Nat)
      BY <1>3, <2>2
    <3>2. Len(rx \o new) = Len(rx) + Len(new)
      BY <3>1, ConcatProperties
    <3>3. QED BY <2>1, <2>2, <3>2
  <2>4. ASSUME NEW i \in 1 .. Len(rx') PROVE rx'[i] = WriteEnd + i
    <3>1. CASE i <= Len(rx)
      <4>1. i \in 1 .. Len(rx)
        BY <1>3, <2>3, <3>1
      <4>2. rx'[i] = rx[i]
        BY <1>3, <2>1, <2>2, <4>1
      <4>3. QED BY <2>1, <4>1, <4>2 DEF InPlaces
    <3>2. CASE i > Len(rx)
      <4>1. i - Len(rx) \in 1 .. n
        BY <1>3, <2>3, <3>2
      <4>2. rx'[i] = new[i - Len(rx)]
        BY <1>3, <2>1, <2>2, <2>3, <3>2
      <4>3. uartIn = WriteEnd + Len(rx)
        BY <2>1 DEF InPlaces
      <4>4. uartIn + (i - Len(rx)) = WriteEnd + i
        BY <1>3, <4>3, EndsTyped
      <4>5. QED BY <2>2, <4>1, <4>2, <4>4
    <3>3. QED BY <1>3, <2>3, <3>1, <3>2
  <2>5. uartIn' = WriteEnd + Len(rx')
    BY <1>1, <1>3, <2>1, <2>3, EndsTyped DEF InPlaces
  <2>6. QED BY <1>2, <1>4, <1>5, <2>1, <2>4, <2>5 DEF InPlaces
<1>7. QED BY <1>2, <1>6 DEF UartInv

\* The task reads the driver's bytes into dtmp, or clears it: that leaves what
\* is still to be sent as it is only when there is none.
LEMMA TakeUart == ASSUME TypeOK, UartInv, ReadUart PROVE UartInv'
<1>1. CASE rx = <<>>
  <2>1. UNCHANGED inVars /\ task # "startWrite" /\ task' # "startWrite"
    BY <1>1 DEF ReadUart, TaskAt, Goto, inVars
  <2>2. QED BY <2>1, UartKept
<1>2. CASE rx # <<>>
  <2>1. /\ task = "events" /\ task' = "startWrite" /\ size' = Len(rx) /\ rx' = <<>>
        /\ dtmp' = [i \in DOMAIN dtmp |-> IF i <= Len(rx) THEN rx[i] ELSE Cleared[i]]
        /\ overrun' = (overrun \/ Len(rx) > BufSize)
        /\ torn' = (torn \/ (inEp = "armed" /\ loaded < xferLen))
        /\ UNCHANGED <<inEp, xferLen, loaded, fifo, uartIn, got, overlapped, dropped>>
    BY <1>2 DEF ReadUart, TaskAt, Goto, Changed
  <2>2. /\ Len(rx') = 0 /\ Len(rx) \in Nat /\ Len(rx) <= RxCap /\ DOMAIN dtmp = 1 .. RxCap
        /\ loaded \in Nat /\ xferLen \in Nat /\ loaded <= xferLen /\ RxCap \in Nat
    BY <2>1, Sizes DEF TypeOK, InTypes
  <2>3. ASSUME Intact' PROVE InPlaces'
    <3>1. InPlaces /\ Loadable = 0 /\ (inEp = "armed" => loaded = xferLen)
      <4>1. Intact /\ ~(inEp = "armed" /\ loaded < xferLen)
        BY <2>1, <2>3 DEF Intact
      <4>2. InPlaces
        BY <4>1 DEF UartInv
      <4>3. QED BY <2>2, <4>1, <4>2 DEF Loadable
    <3>2. UNCHANGED <<Loadable, FifoEnd>>
      BY <2>1 DEF Loadable, FifoEnd
    <3>3. LoadEnd' = LoadEnd
      BY <3>2 DEF LoadEnd
    <3>4. WriteEnd = LoadEnd /\ WriteEnd' = LoadEnd + Len(rx)
      BY <2>1, <3>3, EndsTyped DEF WriteEnd, Writable
    <3>5. ASSUME NEW i \in 1 .. size' PROVE dtmp'[i] = LoadEnd' + i
      <4>1. i \in DOMAIN dtmp /\ i <= Len(rx) /\ i \in 1 .. Len(rx)
        BY <2>1, <2>2, <3>5
      <4>2. dtmp'[i] = rx[i]
        BY <2>1, <4>1
      <4>3. QED BY <3>1, <3>3, <3>4, <4>1, <4>2 DEF InPlaces
    <3>6. inEp' = "armed" => loaded' + 1 > xferLen'
      BY <2>1, <2>2, <3>1
    <3>7. uartIn' = WriteEnd' + Len(rx')
      BY <2>1, <2>2, <3>1, <3>4, EndsTyped DEF InPlaces
    <3>8. \A i \in 1 .. Len(fifo') : fifo'[i] = got' + i
      BY <2>1, <3>1 DEF InPlaces
    <3>9. inEp' = "armed" => \A i \in loaded' + 1 .. xferLen' : FALSE
      BY <2>1, <2>2, <3>6
    <3>10. QED BY <2>2, <3>5, <3>7, <3>8, <3>9 DEF InPlaces
  <2>4. QED BY <2>1, <2>3 DEF UartInv
<1>3. QED BY <1>1, <1>2

LEMMA EventUart == ASSUME TypeOK, UartInv, UartEvent PROVE UartInv'
<1>1. /\ task = "queue" /\ task' = "gate"
      /\ UNCHANGED <<inEp, xferLen, loaded, fifo, uartIn, got, overlapped, overrun, size>>
  BY DEF UartEvent, TaskAt, Goto
<1>2. \/ UNCHANGED <<rx, dtmp, torn, dropped>>
      \/ /\ UNCHANGED <<rx, dropped>>
         /\ torn' = (torn \/ (inEp = "armed" /\ loaded < xferLen))
      \/ dropped' = TRUE
  BY DEF UartEvent, Changed
<1>3. UNCHANGED <<Loadable, FifoEnd, Writable>>
  BY <1>1 DEF Loadable, FifoEnd, Writable
<1>4. UNCHANGED <<LoadEnd, WriteEnd>>
  BY <1>3 DEF LoadEnd, WriteEnd
<1>5. ASSUME Intact' PROVE InPlaces'
  <2>1. /\ InPlaces /\ rx' = rx
        /\ dtmp' = dtmp \/ (inEp = "armed" => ~(loaded < xferLen))
    BY <1>1, <1>2, <1>5 DEF Intact, UartInv
  <2>2. inEp' = "armed" => \A i \in loaded' + 1 .. xferLen' : dtmp'[i] = FifoEnd' + (i - loaded')
    <3>1. CASE dtmp' = dtmp
      BY <1>1, <1>3, <2>1, <3>1 DEF InPlaces
    <3>2. CASE inEp = "armed" => ~(loaded < xferLen)
      <4>1. loaded \in Nat /\ xferLen \in Nat
        BY Sizes DEF TypeOK, InTypes
      <4>2. inEp' = "armed" => \A i \in loaded' + 1 .. xferLen' : FALSE
        BY <1>1, <3>2, <4>1
      <4>3. QED BY <4>2
    <3>3. QED BY <2>1, <3>1, <3>2
  <2>3. QED BY <1>1, <1>4, <2>1, <2>2 DEF InPlaces
<1>6. QED BY <1>1, <1>5 DEF UartInv

\* A reset loses what the endpoint holds; a completed write holds nothing.
LEMMA EndUart == ASSUME TypeOK, UartInv, BusReset \/ BulkIn PROVE UartInv'
<1>1. /\ UNCHANGED <<rx, dtmp, xferLen, loaded, uartIn, got, overlapped, torn, overrun, task, size>>
      /\ inEp' = "off" /\ fifo' \in {fifo, <<>>}
      /\ ~dropped' => ~dropped /\ inEp # "armed"
  <2>1. CASE BusReset
    BY <2>1 DEF BusReset
  <2>2. CASE BulkIn
    BY <2>2 DEF BulkIn
  <2>3. QED BY <2>1, <2>2
<1>2. fifo' = <<>>
  <2>1. BulkIn => fifo = <<>>
    BY DEF BulkIn, UartInv
  <2>2. BusReset => fifo' = <<>>
    BY DEF BusReset
  <2>3. QED BY <1>1, <2>1, <2>2
<1>3. ASSUME Intact' PROVE InPlaces'
  <2>1. InPlaces /\ inEp # "armed" /\ fifo' = fifo
    <3>1. Intact /\ inEp # "armed"
      BY <1>1, <1>3 DEF Intact
    <3>2. QED BY <1>2, <3>1 DEF UartInv
  <2>2. UNCHANGED <<Loadable, FifoEnd, Writable>>
    BY <1>1, <2>1 DEF Loadable, FifoEnd, Writable
  <2>3. UNCHANGED <<LoadEnd, WriteEnd>>
    BY <2>2 DEF LoadEnd, WriteEnd
  <2>4. QED BY <1>1, <2>1, <2>2, <2>3 DEF InPlaces
<1>4. QED BY <1>2, <1>3 DEF UartInv

\* What another owner writes to the memory behind dtmp is on the way of no byte as
\* long as every read from the UART stayed inside dtmp.
LEMMA OwnerUart == ASSUME TypeOK, UartInv, OwnerWrites PROVE UartInv'
<1>1. PICK k \in DOMAIN dtmp : k > BufSize /\ dtmp' = [dtmp EXCEPT ![k] = 0]
  BY DEF OwnerWrites
<1>2. UNCHANGED <<rx, inEp, xferLen, loaded, fifo, uartIn, got, overlapped, torn, dropped,
                  overrun, task, size>>
  BY DEF OwnerWrites
<1>3. UNCHANGED <<Loadable, FifoEnd, Writable>>
  BY <1>2 DEF Loadable, FifoEnd, Writable
<1>4. UNCHANGED <<LoadEnd, WriteEnd>>
  BY <1>3 DEF LoadEnd, WriteEnd
<1>5. ASSUME Intact PROVE /\ xferLen \in Nat /\ xferLen <= BufSize /\ loaded \in Nat /\ size \in Nat
                          /\ task = "startWrite" => size <= BufSize
  BY <1>5, Sizes DEF Intact, TypeOK, InTypes, PlaceTypes
<1>6. DOMAIN dtmp = 1 .. RxCap /\ \A i \in DOMAIN dtmp : i # k => dtmp'[i] = dtmp[i]
  BY <1>1 DEF TypeOK, InTypes
<1>7. xferLen <= RxCap /\ (task = "startWrite" => size <= RxCap)
  BY DEF TypeOK, InTypes, PlaceTypes
<1>8. ASSUME Intact' PROVE InPlaces'
  <2>1. Intact /\ InPlaces
    BY <1>2, <1>8 DEF Intact, UartInv
  <2>2. \A i \in 1 .. RxCap : i <= BufSize => dtmp'[i] = dtmp[i]
    BY <1>1, <1>6, Sizes
  <2>3. \A i \in loaded + 1 .. xferLen : dtmp'[i] = dtmp[i]
    BY <1>5, <1>7, <2>1, <2>2, Sizes
  <2>4. task = "startWrite" => \A i \in 1 .. size : dtmp'[i] = dtmp[i]
    BY <1>5, <1>7, <2>1, <2>2, Sizes
  <2>5. QED BY <1>2, <1>3, <1>4, <2>1, <2>3, <2>4 DEF InPlaces
<1>9. QED BY <1>2, <1>8 DEF UartInv

LEMMA UartInit == Init => UartInv
<1> SUFFICES ASSUME Init PROVE UartInv
  OBVIOUS
<1>1. /\ rx = <<>> /\ fifo = <<>> /\ inEp = "off" /\ task = "events" /\ uartIn = 0 /\ got = 0
  BY DEF Init
<1>2. Len(rx) = 0 /\ Len(fifo) = 0
  BY <1>1
<1>3. QED BY <1>1, <1>2 DEF UartInv, InPlaces, Loadable, Writable, FifoEnd, LoadEnd, WriteEnd

LEMMA UartNext == ASSUME TypeOK, UartInv, [Next]_vars PROVE UartInv'
<1>1. CASE UNCHANGED vars
  BY <1>1, UartKept DEF vars
<1>2. CASE Next
  BY <1>2, OtherWayUart, WriteUart, LoadUart, ReadUartHost, ReceiveUart, TakeUart, EventUart,
     EndUart, OwnerUart
  DEF Next, Isr, Task, Environment, OtherWay
<1>3. QED BY <1>1, <1>2

\* usb2uart.c: what the UART received and the host has not read is in the endpoint,
\* in dtmp or in the driver, in order and once, unless a write was started over
\* another, dtmp was changed under a write, bytes were flushed or refused, or more
\* bytes were read at once than dtmp holds.
THEOREM UartBytes == Spec => []UartBytesAccounted
  BY UartInit, UartNext, UartInvImplies, TypeInit, TypeNext, PTL DEF Spec
=============================================================================
