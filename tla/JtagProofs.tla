---------------------------- MODULE JtagProofs -----------------------------
(* The JTAG chain of JtagChain.tla, for every chain of devices: a command    *)
(* reaches the device it is for and no other.  The lemmas on cycles on the   *)
(* pins, folds and sets of naturals are those of PinsProofs.tla.             *)
EXTENDS PinsProofs

-----------------------------------------------------------------------------
(* Scans of a JTAG chain.  For a chain of lengths l and a command c, Moves   *)
(* says what the cycle is that has so many before it, and TapAt where the    *)
(* TAPs are then.                                                            *)

Width == Jtag!WordBits
IrBits(l) == Jtag!SumOf(l)
UpTo(l, d) == Jtag!SumOf(SubSeq(l, 1, d))

\* Cycles before the first data bit is shifted: 4 and 2 around the bits of the
\* instructions, 3 to come to the data.
Entry(l) == IrBits(l) + 9

Name(c) == IF c.kind = "transfer" THEN c.port ELSE c.kind
Waits(c) == c.kind = "transfer" /\ c.wait
ReadsWord(c) == c.kind = "transfer" /\ c.request[1] = 1

\* The bits shifted into the instruction registers, by their place.
IrBit(l, c, j) ==
  IF j \in UpTo(l, c.dev - 1) + 1 .. UpTo(l, c.dev - 1) + 4
  THEN Jtag!Instruction[Name(c)][j - UpTo(l, c.dev - 1)] ELSE 1

\* Bits of data that are shifted in all: JTAG_ReadIDCode stops behind the word,
\* a refused transfer one bit behind the acknowledge.
Shifts(l, c) == IF c.kind = "idcode" THEN c.dev - 1 + Width
                ELSE IF Waits(c) THEN c.dev + 3 ELSE Len(l) + 2 + Width

\* What the probe shifts in: the data bit of this number.
DrBit(c, j) ==
  IF j < c.dev \/ c.kind = "idcode" \/ (Waits(c) /\ j > c.dev + 2) THEN 1
  ELSE IF j <= c.dev + 2 THEN (IF c.kind = "abort" THEN 0 ELSE c.request[j - c.dev + 1])
  ELSE IF ReadsWord(c) THEN c.request[3]
  ELSE c.data[IF j <= c.dev + 2 + Width THEN j - c.dev - 2 ELSE Width]

\* What the devices load, as one sequence; w is the word of the one addressed.
OwnBits(c) == IF c.kind = "idcode" THEN Width ELSE Width + 3
Own(c, w) == CASE c.kind = "idcode" -> w
               [] c.kind = "abort" -> Jtag!Same(0, 3 + Width)
               [] OTHER -> (IF c.wait THEN <<1, 0, 0>> ELSE <<0, 1, 0>>) \o w
Loaded(c, w, j) ==
  IF j \in c.dev .. c.dev + OwnBits(c) - 1 THEN Own(c, w)[j - c.dev + 1] ELSE 0
Length(l, c) == Len(l) - 1 + OwnBits(c)

\* Which of the bits that come out are kept in got; while the result is r, they
\* are those from FirstKept to LastKept.
Keeps(c, j) ==
  CASE c.kind = "idcode" -> j >= c.dev
    [] c.kind = "abort" -> FALSE
    [] OTHER -> \/ j \in c.dev .. c.dev + 2
                \/ ~c.wait /\ ReadsWord(c) /\ j \in c.dev + 3 .. c.dev + 2 + Width
FirstKept(c, r) == IF c.kind = "transfer" /\ r # 0 THEN c.dev + 3 ELSE c.dev
LastKept(c, r) ==
  IF c.kind = "idcode" THEN c.dev - 1 + Width
  ELSE IF c.kind = "abort" THEN c.dev - 1
  ELSE IF r # 0 /\ ~c.wait /\ ReadsWord(c) THEN c.dev + 2 + Width
  ELSE c.dev + 2
KeptOf(c, r, k) == IF k < FirstKept(c, r) THEN 0
                   ELSE (IF k < LastKept(c, r) THEN k ELSE LastKept(c, r)) - FirstKept(c, r) + 1

Cycle(tms, tdi, in) == [tms |-> tms, tdi |-> tdi, in |-> in]
Moves(l, c) ==
  [p \in Nat |->
     IF p < 4 THEN Cycle(IF p < 2 THEN 1 ELSE 0, 1, FALSE)
     ELSE IF p < IrBits(l) + 4
          THEN Cycle(IF p = IrBits(l) + 3 THEN 1 ELSE 0, IrBit(l, c, p - 3), FALSE)
     ELSE IF p < Entry(l)
          THEN Cycle(IF p \in {IrBits(l) + 4, IrBits(l) + 6} THEN 1 ELSE 0, 1, FALSE)
     ELSE IF p < Entry(l) + Shifts(l, c)
          THEN Cycle(IF p = Entry(l) + Shifts(l, c) - 1 THEN 1 ELSE 0,
                     DrBit(c, p - Entry(l) + 1), Keeps(c, p - Entry(l) + 1))
     ELSE Cycle(IF p = Entry(l) + Shifts(l, c) THEN 1 ELSE 0, 1, FALSE)]

\* Cycles of a command as far as it is known, at the result r, what they are.
AckAt(l, c) == Entry(l) + c.dev + 2
Known(l, c, r) == IF c.kind # "transfer" THEN Entry(l) + Shifts(l, c) + 2
                  ELSE IF r = 0 THEN AckAt(l, c) ELSE Entry(l) + Shifts(l, c) + 2 + c.idle

TapAt(l, c, p) ==
  IF p < IrBits(l) + 6
  THEN (IF p = 0 THEN "idle" ELSE IF p = 1 THEN "selectDr" ELSE IF p = 2 THEN "selectIr"
        ELSE IF p = 3 THEN "captureIr" ELSE IF p < IrBits(l) + 4 THEN "shiftIr"
        ELSE IF p = IrBits(l) + 4 THEN "exit1Ir" ELSE "updateIr")
  ELSE IF p < Entry(l)
  THEN (IF p = IrBits(l) + 6 THEN "idle"
        ELSE IF p = IrBits(l) + 7 THEN "selectDr" ELSE "captureDr")
  ELSE IF p < Entry(l) + Shifts(l, c) THEN "shiftDr"
  ELSE IF p = Entry(l) + Shifts(l, c) THEN "exit1Dr"
  ELSE IF p = Entry(l) + Shifts(l, c) + 1 THEN "updateDr" ELSE "idle"

\* The shift registers when k bits of what they loaded have been replaced.
IrShifted(k) ==
  /\ Len(shift) = IrBits(chain)
  /\ \A j \in 1 .. k : shift[IrBits(chain) - k + j] = IrBit(chain, cmd, j)
DrShifted(k) ==
  /\ Len(shift) = Length(chain, cmd)
  /\ \A j \in 1 .. Length(chain, cmd) - k : shift[j] = Loaded(cmd, reg[cmd.dev], k + j)
  /\ \A j \in 1 .. k : shift[Length(chain, cmd) - k + j] = DrBit(cmd, j)

\* The instruction has reached the device that is meant, the others are bypassed.
Addressed ==
  \A d \in 1 .. Len(chain) : IF d = cmd.dev THEN Jtag!Has(d, Name(cmd)) ELSE Jtag!Bypassed(d)

\* What has been read when k data bits have been shifted.
Kept(k) ==
  /\ Len(got) = KeptOf(cmd, result, k)
  /\ \A i \in 1 .. Len(got) : got[i] = Loaded(cmd, reg[cmd.dev], FirstKept(cmd, result) + i - 1)

JtagTyped ==
  /\ chain \in Chains /\ tap \in DOMAIN Jtag!Tap
  /\ instr \in [1 .. Len(chain) -> Seq({0, 1})]
  /\ \A d \in 1 .. Len(chain) : Len(instr[d]) = chain[d]
  /\ reg \in [1 .. Len(chain) -> JtagWords] /\ shift \in Seq({0, 1}) /\ got \in Seq({0, 1})
  /\ scan \in Seq([tms : {0, 1}, tdi : {0, 1}, in : BOOLEAN])
  /\ commands \in 0 .. MaxCommands

\* Between two commands; a command for a device that is not configured; one that
\* is carried out, with p cycles made.
Unused == cmd = Jtag!None /\ scan = <<>> /\ tap = "idle" /\ got = <<>>
Refused == /\ cmd \in Jtag!Commands /\ cmd.dev = Len(chain) + 1 /\ scan = <<>> /\ tap = "idle"
           /\ result = Jtag!Error /\ done = {} /\ got = <<>>
Asked == /\ cmd \in Jtag!Commands /\ cmd.dev <= Len(chain)
         /\ \/ result = 0
            \/ cmd.kind = "transfer" /\ result = IF cmd.wait THEN 2 ELSE Jtag!Ok
InIr(p) ==
  /\ p \in 4 .. IrBits(chain) + 4 => IrShifted(p - 4)
  /\ p = IrBits(chain) + 5 => IrShifted(IrBits(chain))
  /\ p >= IrBits(chain) + 6 => Addressed
InDr(p) ==
  /\ p \in Entry(chain) .. Entry(chain) + Shifts(chain, cmd) => DrShifted(p - Entry(chain))
  /\ p = Entry(chain) + Shifts(chain, cmd) + 1 => DrShifted(Shifts(chain, cmd))
  /\ Kept(p - Entry(chain))
Effected(p) ==
  done = IF p < Entry(chain) + Shifts(chain, cmd) + 2 \/ cmd.kind = "idcode" \/ Waits(cmd)
         THEN {} ELSE Jtag!Effect(cmd)
Scanned(p) ==
  /\ Asked
  /\ p \in (IF result = 0 THEN 0 ELSE AckAt(chain, cmd)) .. Known(chain, cmd, result)
  /\ Len(scan) = Known(chain, cmd, result) - p
  /\ \A i \in 1 .. Len(scan) : scan[i] = Moves(chain, cmd)[p + i - 1]
  /\ tap = TapAt(chain, cmd, p) /\ InIr(p) /\ InDr(p) /\ Effected(p)

JtagStages == Unused \/ Refused \/ \E p \in Nat : Scanned(p)

-----------------------------------------------------------------------------
(* The lengths of the instruction registers, summed.                         *)

LEMMA ChainFacts ==
  /\ Width \in Nat /\ Width >= 2 /\ MaxCommands \in Nat /\ IdleCycles \subseteq Nat
  /\ Chains \subseteq Seq(Nat \ {0, 1}) /\ <<>> \notin Chains
  /\ \A w \in JtagWords : w \in [1 .. Width -> {0, 1}]
  /\ JtagWords # {} /\ \A w \in JtagWords : \E v \in JtagWords : v # w
<1>1. Width \in Nat \ {0, 1}
  BY JtagAssumption DEF Jtag!ChainAssumption, Width
<1>2. QED BY <1>1, JtagAssumption DEF Jtag!ChainAssumption, Width, Jtag!Bit

LEMMA SumIs == \A s : Jtag!SumOf(s) = Total(s)
BY Zenon DEF Jtag!SumOf, Total, FoldLeft, Jtag!FoldLeft, MapThenFoldSet, Jtag!MapThenFoldSet,
         Max, Jtag!Max

LEMMA SumsAgree ==
  ASSUME NEW n \in Nat, NEW m \in Nat, m <= n, NEW s, NEW t, \A i \in 1 .. m : s[i] = t[i],
         NEW g, NEW h, Sums(g, s, n), Sums(h, t, m)
  PROVE  g[m] = h[m]
<1> DEFINE S == {i \in Nat : i <= m => g[i] = h[i]}
<1>1. 0 \in S
  BY DEF Sums
<1>2. ASSUME NEW i \in Nat, i \in S PROVE i + 1 \in S
  <2> SUFFICES ASSUME i + 1 <= m PROVE g[i + 1] = h[i + 1]
    OBVIOUS
  <2>1. i + 1 \in 1 .. m /\ i + 1 \in 1 .. n /\ (i + 1) - 1 = i
    OBVIOUS
  <2>2. g[i + 1] = g[i] + s[i + 1] /\ h[i + 1] = h[i] + t[i + 1]
    BY <2>1 DEF Sums
  <2>3. g[i] = h[i] /\ s[i + 1] = t[i + 1]
    BY <1>2, <2>1
  <2>4. QED BY <2>2, <2>3
<1>3. Nat \subseteq S
  <2> HIDE DEF S
  <2>1. QED BY <1>1, <1>2, SetInduction
<1>4. QED BY <1>3

\* What is used of the lengths: UpTo adds them one by one.
Lengths(n) ==
  /\ chain \in Seq(Nat \ {0, 1}) /\ Len(chain) = n /\ n \in Nat \ {0}
  /\ UpTo(chain, 0) = 0 /\ IrBits(chain) = UpTo(chain, n)
  /\ \A d \in 0 .. n : UpTo(chain, d) \in Nat
  /\ \A d \in 1 .. n : UpTo(chain, d) = UpTo(chain, d - 1) + chain[d] /\ chain[d] \in Nat \ {0, 1}

LEMMA LengthsAre == ASSUME chain \in Chains PROVE Lengths(Len(chain))
<1> DEFINE n == Len(chain)
<1>1. chain \in Seq(Nat \ {0, 1}) /\ chain # <<>> /\ Len(chain) = n /\ n \in Nat \ {0}
      /\ DOMAIN chain = 1 .. n
  BY ChainFacts
<1> HIDE DEF n
<1>2. \A d \in 1 .. n : chain[d] \in Nat \ {0, 1} /\ chain[d] \in Int
  BY <1>1
<1>3. PICK g : Sums(g, chain, n) /\ Total(chain) = g[n]
  BY <1>1, <1>2, TotalSums
<1>4. ASSUME NEW d \in 0 .. n PROVE UpTo(chain, d) = g[d]
  <2> DEFINE t == SubSeq(chain, 1, d)
  <2>0. d \in Nat /\ d <= n /\ 1 \in Nat /\ d = d - 1 + 1
    BY <1>1
  <2>1. PartIs(chain, 1, d, d, Nat \ {0, 1})
    BY <1>1, <2>0, PartOfSeq
  <2>2. DOMAIN t = 1 .. d /\ \A i \in 1 .. d : t[i] = chain[1 + i - 1] /\ t[i] \in Nat \ {0, 1}
    BY <2>1 DEF PartIs
  <2>3. \A i \in 1 .. d : chain[i] = t[i] /\ t[i] \in Int
    <3>1. \A i \in 1 .. d : 1 + i - 1 = i
      BY <2>0
    <3>2. QED BY <2>2, <3>1
  <2> HIDE DEF t
  <2>4. PICK h : Sums(h, t, d) /\ Total(t) = h[d]
    BY <2>0, <2>2, <2>3, TotalSums
  <2>5. g[d] = h[d]
    <3>1. n \in Nat /\ Sums(g, chain, n) /\ Sums(h, t, d) /\ \A i \in 1 .. d : chain[i] = t[i]
      BY <1>1, <1>3, <2>3, <2>4
    <3>2. QED BY <2>0, <3>1, SumsAgree
  <2>6. QED BY <2>4, <2>5, SumIs DEF UpTo, t
<1>5. UpTo(chain, 0) = 0
  <2>1. 0 \in 0 .. n
    BY <1>1
  <2>2. QED BY <1>3, <1>4, <2>1 DEF Sums
<1>6. IrBits(chain) = UpTo(chain, n)
  <2>1. n \in 0 .. n
    BY <1>1
  <2>2. QED BY <1>3, <1>4, <2>1, SumIs DEF IrBits
<1>7. \A d \in 1 .. n : UpTo(chain, d) = UpTo(chain, d - 1) + chain[d]
  <2>1. \A d \in 1 .. n : d \in 0 .. n /\ d - 1 \in 0 .. n
    BY <1>1
  <2>2. QED BY <1>3, <1>4, <2>1 DEF Sums
<1>8. \A d \in 0 .. n : UpTo(chain, d) \in Nat
  <2> DEFINE S == {d \in Nat : d <= n => UpTo(chain, d) \in Nat}
  <2>1. 0 \in S
    BY <1>5
  <2>2. ASSUME NEW d \in Nat, d \in S PROVE d + 1 \in S
    <3> SUFFICES ASSUME d + 1 <= n PROVE UpTo(chain, d + 1) \in Nat
      OBVIOUS
    <3>1. d + 1 \in 1 .. n /\ (d + 1) - 1 = d /\ UpTo(chain, d) \in Nat
      BY <1>1, <2>2
    <3>2. UpTo(chain, d + 1) = UpTo(chain, d) + chain[d + 1]
      BY <1>7, <3>1
    <3>3. QED BY <1>2, <3>1, <3>2
  <2>3. Nat \subseteq S
    <3> HIDE DEF S
    <3>1. QED BY <2>1, <2>2, SetInduction
  <2>4. QED BY <2>3
<1>9. QED BY <1>1, <1>2, <1>5, <1>6, <1>7, <1>8 DEF Lengths, n

\* They only grow.
LEMMA UpToGrows ==
  ASSUME NEW n, Lengths(n), NEW d \in 0 .. n, NEW e \in 0 .. n, d <= e PROVE UpTo(chain, d) <= UpTo(chain, e)
<1> DEFINE S == {i \in Nat : d <= i /\ i <= n => UpTo(chain, d) <= UpTo(chain, i)}
<1>1. 0 \in S
  <2>1. d <= 0 => UpTo(chain, d) = UpTo(chain, 0) /\ UpTo(chain, 0) = 0
    BY DEF Lengths
  <2>2. QED BY <2>1
<1>2. ASSUME NEW i \in Nat, i \in S PROVE i + 1 \in S
  <2> SUFFICES ASSUME d <= i + 1, i + 1 <= n PROVE UpTo(chain, d) <= UpTo(chain, i + 1)
    OBVIOUS
  <2>1. n \in Nat /\ UpTo(chain, d) \in Nat
    BY DEF Lengths
  <2>2. i + 1 \in 1 .. n /\ i + 1 \in 0 .. n /\ i \in 0 .. n /\ (i + 1) - 1 = i
    BY <2>1
  <2>3. UpTo(chain, i + 1) = UpTo(chain, i) + chain[i + 1] /\ chain[i + 1] \in Nat /\ UpTo(chain, i) \in Nat
    BY <2>2 DEF Lengths
  <2>4. CASE d = i + 1
    BY <2>1, <2>3, <2>4
  <2>5. CASE d # i + 1
    <3>1. UpTo(chain, d) <= UpTo(chain, i)
      BY <1>2, <2>1, <2>2, <2>5
    <3>2. QED BY <2>1, <2>3, <3>1
  <2>6. QED BY <2>4, <2>5
<1>3. Nat \subseteq S
  <2> HIDE DEF S
  <2>1. QED BY <1>1, <1>2, SetInduction
<1>4. n \in Nat /\ e \in Nat /\ e <= n
  BY DEF Lengths
<1>5. QED BY <1>3, <1>4

-----------------------------------------------------------------------------
(* The commands, and their cycles in the order of Move.                      *)

CycleSet == [tms : {0, 1}, tdi : {0, 1}, in : BOOLEAN]

LEMMA CommandKinds ==
  ASSUME chain \in Chains, NEW c \in Jtag!Commands
  PROVE  /\ c.kind \in {"idcode", "abort", "transfer"}
         /\ c.dev \in 1 .. Len(chain) + 1
         /\ c.dev <= Len(chain) => chain[c.dev] = 4
         /\ c.kind # "idcode" => c.data \in [1 .. Width -> {0, 1}]
         /\ c.kind = "transfer" => /\ c.port \in {"dpacc", "apacc"} /\ c.wait \in BOOLEAN
                                   /\ c.request \in {<<1, 0, 1>>, <<0, 1, 0>>}
                                   /\ c.idle \in IdleCycles
<1>1. Len(chain) \in Nat
  BY LengthsAre DEF Lengths
<1> DEFINE devs == {d \in 1 .. Len(chain) : Jtag!IsDap(chain, d)} \cup {Len(chain) + 1}
<1>2. \A d \in devs : d \in 1 .. Len(chain) + 1 /\ (d <= Len(chain) => chain[d] = 4)
  BY <1>1 DEF Jtag!IsDap
<1>3. c \in [kind : {"idcode"}, dev : devs]
             \cup [kind : {"abort"}, dev : devs, data : JtagWords]
             \cup [kind : {"transfer"}, dev : devs, port : {"dpacc", "apacc"}, wait : BOOLEAN,
                   request : {<<1, 0, 1>>, <<0, 1, 0>>}, data : JtagWords, idle : IdleCycles]
  BY DEF Jtag!Commands
<1> HIDE DEF devs
<1>4. c.dev \in devs
  BY <1>3
<1>5. \A w \in JtagWords : w \in [1 .. Width -> {0, 1}]
  BY ChainFacts
<1>6. CASE c \in [kind : {"idcode"}, dev : devs]
  BY <1>2, <1>4, <1>6
<1>7. CASE c \in [kind : {"abort"}, dev : devs, data : JtagWords]
  BY <1>2, <1>4, <1>5, <1>7
<1>8. CASE c \in [kind : {"transfer"}, dev : devs, port : {"dpacc", "apacc"}, wait : BOOLEAN,
                  request : {<<1, 0, 1>>, <<0, 1, 0>>}, data : JtagWords, idle : IdleCycles]
  BY <1>2, <1>4, <1>5, <1>8
<1>9. QED BY <1>3, <1>6, <1>7, <1>8

\* A stretch of the cycles of a plan, the first of them with p before it.
Runs(cycles, plan, p, m) ==
  /\ cycles \in Seq(CycleSet) /\ Len(cycles) = m
  /\ \A i \in 1 .. m : cycles[i] = plan[p + i - 1]

LEMMA RunsJoined ==
  ASSUME NEW plan, NEW p \in Nat, NEW m \in Nat, NEW k \in Nat, NEW s, NEW t,
         NEW q, q = p + m, Runs(s, plan, p, m), Runs(t, plan, q, k), NEW x, x = m + k
  PROVE  Runs(s \o t, plan, p, x)
<1>1. s \o t \in Seq(CycleSet) /\ Joint(s, t, m, k)
  BY Joining DEF Runs
<1>2. ASSUME NEW i \in 1 .. m + k PROVE (s \o t)[i] = plan[p + i - 1]
  <2>1. CASE i <= m
    <3>1. i \in 1 .. m
      BY <2>1
    <3>2. (s \o t)[i] = s[i] /\ s[i] = plan[p + i - 1]
      BY <1>1, <3>1 DEF Joint, Runs
    <3>3. QED BY <3>2
  <2>2. CASE ~(i <= m)
    <3> DEFINE j == i - m
    <3>1. j \in 1 .. k /\ i = m + j /\ q + j - 1 = p + i - 1
      BY <2>2
    <3> HIDE DEF j
    <3>2. (s \o t)[m + j] = t[j] /\ t[j] = plan[q + j - 1]
      BY <1>1, <3>1 DEF Joint, Runs
    <3>3. QED BY <3>1, <3>2
  <2>3. QED BY <2>1, <2>2
<1>3. QED BY <1>1, <1>2 DEF Runs, Joint

LEMMA RunsMade ==
  ASSUME NEW plan, NEW p \in Nat, NEW m \in Nat, NEW s, DOMAIN s = 1 .. m, s = [i \in 1 .. m |-> s[i]],
         \A i \in 1 .. m : s[i] \in CycleSet /\ s[i] = plan[p + i - 1]
  PROVE  Runs(s, plan, p, m)
<1>1. s \in [1 .. m -> CycleSet]
  OBVIOUS
<1>2. QED BY <1>1, FunctionIsSeq DEF Runs

\* Bits b that are shifted one by one, the last of them with TMS set.
LEMMA ShiftRuns ==
  ASSUME NEW plan, NEW p \in Nat, NEW m \in Nat, NEW b, b \in Seq({0, 1}), Len(b) = m,
         NEW in \in BOOLEAN,
         \A i \in 1 .. m : plan[p + i - 1] = [tms |-> 0, tdi |-> b[i], in |-> in]
  PROVE  Runs(Jtag!Shift(b, in), plan, p, m)
<1> DEFINE s == Jtag!Shift(b, in)
<1>1. DOMAIN b = 1 .. m /\ \A i \in 1 .. m : b[i] \in {0, 1}
  BY LenProperties
<1>2. s = [i \in 1 .. m |-> [tms |-> 0, tdi |-> b[i], in |-> in]]
  BY <1>1 DEF Jtag!Shift
<1>3. \A i \in 1 .. m : s[i] = [tms |-> 0, tdi |-> b[i], in |-> in] /\ s[i] \in CycleSet
  BY <1>1, <1>2 DEF CycleSet
<1>4. s = [i \in 1 .. m |-> s[i]] /\ DOMAIN s = 1 .. m
  BY <1>2
<1> HIDE DEF s
<1>5. QED BY <1>3, <1>4, RunsMade DEF s

LEMMA LeavingRuns ==
  ASSUME NEW plan, NEW p \in Nat, NEW m \in Nat, m >= 1, NEW b, b \in Seq({0, 1}), Len(b) = m,
         NEW in \in BOOLEAN,
         \A i \in 1 .. m :
           plan[p + i - 1] = [tms |-> IF i = m THEN 1 ELSE 0, tdi |-> b[i], in |-> in]
  PROVE  Runs(Jtag!Leaving(Jtag!Shift(b, in)), plan, p, m)
<1> DEFINE s == Jtag!Shift(b, in)
           t == Jtag!Leaving(s)
<1>1. DOMAIN b = 1 .. m /\ \A i \in 1 .. m : b[i] \in {0, 1}
  BY LenProperties
<1>2. s = [i \in 1 .. m |-> [tms |-> 0, tdi |-> b[i], in |-> in]]
  BY <1>1 DEF Jtag!Shift
<1>3. Len(s) = m
  <2>1. \A i \in 1 .. m : [tms |-> 0, tdi |-> b[i], in |-> in] \in CycleSet
    BY <1>1 DEF CycleSet
  <2>2. s \in [1 .. m -> CycleSet]
    BY <1>2, <2>1
  <2> HIDE DEF s
  <2>3. QED BY <2>2, FunctionIsSeq
<1>4. t = [i \in 1 .. m |-> IF i = m THEN [s[i] EXCEPT !.tms = 1] ELSE s[i]]
  <2>1. t = [s EXCEPT ![m].tms = 1] /\ DOMAIN s = 1 .. m
    BY <1>2, <1>3 DEF Jtag!Leaving
  <2> HIDE DEF s
  <2>2. QED BY <2>1
<1>5. ASSUME NEW i \in 1 .. m
      PROVE  t[i] = [tms |-> IF i = m THEN 1 ELSE 0, tdi |-> b[i], in |-> in] /\ t[i] \in CycleSet
  <2>1. s[i] = [tms |-> 0, tdi |-> b[i], in |-> in]
    BY <1>2
  <2>2. t[i] = IF i = m THEN [s[i] EXCEPT !.tms = 1] ELSE s[i]
    BY <1>4
  <2> HIDE DEF s, t
  <2>3. CASE i = m
    BY <1>1, <2>1, <2>2, <2>3 DEF CycleSet
  <2>4. CASE i # m
    BY <1>1, <2>1, <2>2, <2>4 DEF CycleSet
  <2>5. QED BY <2>3, <2>4
<1>6. t = [i \in 1 .. m |-> t[i]] /\ DOMAIN t = 1 .. m
  BY <1>4
<1> HIDE DEF s, t
<1>7. QED BY <1>5, <1>6, RunsMade DEF s, t

LEMMA TmsRuns ==
  ASSUME NEW plan, NEW p \in Nat, NEW m \in Nat, NEW b, b \in Seq({0, 1}), Len(b) = m,
         \A i \in 1 .. m : plan[p + i - 1] = [tms |-> b[i], tdi |-> 1, in |-> FALSE]
  PROVE  Runs(Jtag!Tms(b), plan, p, m)
<1> DEFINE s == Jtag!Tms(b)
<1>1. DOMAIN b = 1 .. m /\ \A i \in 1 .. m : b[i] \in {0, 1}
  BY LenProperties
<1>2. s = [i \in 1 .. m |-> [tms |-> b[i], tdi |-> 1, in |-> FALSE]]
  BY <1>1 DEF Jtag!Tms
<1>3. \A i \in 1 .. m : s[i] = [tms |-> b[i], tdi |-> 1, in |-> FALSE] /\ s[i] \in CycleSet
  BY <1>1, <1>2 DEF CycleSet
<1>4. s = [i \in 1 .. m |-> s[i]] /\ DOMAIN s = 1 .. m
  BY <1>2
<1> HIDE DEF s
<1>5. QED BY <1>3, <1>4, RunsMade DEF s

Addressable(c) == chain \in Chains /\ c \in Jtag!Commands /\ c.dev <= Len(chain)

LEMMA Places ==
  ASSUME NEW c, Addressable(c)
  PROVE  /\ c.dev \in 1 .. Len(chain) /\ Len(chain) \in Nat
         /\ UpTo(chain, c.dev - 1) \in Nat /\ UpTo(chain, c.dev) = UpTo(chain, c.dev - 1) + 4
         /\ UpTo(chain, c.dev) <= IrBits(chain) /\ IrBits(chain) \in Nat
         /\ Entry(chain) \in Nat /\ Entry(chain) = IrBits(chain) + 9
         /\ Width \in Nat /\ Width >= 2
<1>1. Lengths(Len(chain))
  BY LengthsAre DEF Addressable
<1> DEFINE n == Len(chain)
           d == c.dev
<1>2. n \in Nat /\ d \in 1 .. n /\ chain[d] = 4
  BY <1>1, CommandKinds DEF Addressable, Lengths
<1>3. Lengths(n)
  BY <1>1
<1> HIDE DEF n, d
<1>4. d - 1 \in 0 .. n /\ d \in 0 .. n /\ n \in 0 .. n /\ d <= n
  BY <1>2
<1>5. UpTo(chain, d - 1) \in Nat /\ UpTo(chain, d) = UpTo(chain, d - 1) + 4
      /\ IrBits(chain) = UpTo(chain, n) /\ UpTo(chain, n) \in Nat
  BY <1>2, <1>3, <1>4 DEF Lengths
<1>6. UpTo(chain, d) <= UpTo(chain, n)
  BY <1>3, <1>4, UpToGrows
<1>7. QED BY <1>2, <1>5, <1>6, ChainFacts DEF Entry, n, d

LEMMA ShiftsAre ==
  ASSUME NEW c, Addressable(c)
  PROVE  /\ Shifts(chain, c) \in Nat /\ Shifts(chain, c) >= 1 /\ Length(chain, c) \in Nat
         /\ Shifts(chain, c) <= Length(chain, c) /\ OwnBits(c) \in {Width, Width + 3}
         /\ c.kind = "transfer" => Shifts(chain, c) >= c.dev + 3
  <1>1. c.dev \in 1 .. Len(chain) /\ Len(chain) \in Nat /\ Width \in Nat /\ Width >= 2
    BY Places
  <1>2. c.kind \in {"idcode", "abort", "transfer"} /\ (c.kind = "transfer" => c.wait \in BOOLEAN)
    BY CommandKinds DEF Addressable
  <1> DEFINE n == Len(chain)
             d == c.dev
  <1> HIDE DEF n, d
  <1>3. /\ OwnBits(c) = IF c.kind = "idcode" THEN Width ELSE Width + 3
        /\ Length(chain, c) = n - 1 + OwnBits(c)
        /\ Shifts(chain, c) = IF c.kind = "idcode" THEN d - 1 + Width
                              ELSE IF Waits(c) THEN d + 3 ELSE n + 2 + Width
    BY DEF OwnBits, Length, Shifts, n, d
  <1>4. d \in 1 .. n /\ n \in Nat
    BY <1>1 DEF n, d
  <1>5. Waits(c) => c.kind = "transfer"
    BY DEF Waits
  <1>6. CASE c.kind = "idcode"
    BY <1>1, <1>3, <1>4, <1>6 DEF d
  <1>7. CASE c.kind # "idcode"
    BY <1>1, <1>3, <1>4, <1>7 DEF d
  <1>8. QED BY <1>6, <1>7

\* The cycles by their number, part by part.
LEMMA MovesAre ==
  ASSUME NEW c, Addressable(c)
  PROVE  /\ \A p \in 0 .. 3 : Moves(chain, c)[p] = Cycle(IF p < 2 THEN 1 ELSE 0, 1, FALSE)
         /\ \A j \in 1 .. IrBits(chain) :
              Moves(chain, c)[3 + j] = Cycle(IF j = IrBits(chain) THEN 1 ELSE 0, IrBit(chain, c, j), FALSE)
         /\ \A j \in 1 .. 5 :
              Moves(chain, c)[IrBits(chain) + 3 + j] = Cycle(IF j \in {1, 3} THEN 1 ELSE 0, 1, FALSE)
         /\ \A j \in 1 .. Shifts(chain, c) :
              Moves(chain, c)[Entry(chain) + j - 1]
                = Cycle(IF j = Shifts(chain, c) THEN 1 ELSE 0, DrBit(c, j), Keeps(c, j))
         /\ \A j \in Nat : Moves(chain, c)[Entry(chain) + Shifts(chain, c) + j]
                             = Cycle(IF j = 0 THEN 1 ELSE 0, 1, FALSE)
<1> DEFINE T == IrBits(chain)
           E == Entry(chain)
           S == Shifts(chain, c)
<1>1. T \in Nat /\ E = T + 9 /\ S \in Nat
  BY Places, ShiftsAre
<1>2. Moves(chain, c) =
        [p \in Nat |->
          IF p < 4 THEN Cycle(IF p < 2 THEN 1 ELSE 0, 1, FALSE)
          ELSE IF p < T + 4 THEN Cycle(IF p = T + 3 THEN 1 ELSE 0, IrBit(chain, c, p - 3), FALSE)
          ELSE IF p < E THEN Cycle(IF p \in {T + 4, T + 6} THEN 1 ELSE 0, 1, FALSE)
          ELSE IF p < E + S THEN Cycle(IF p = E + S - 1 THEN 1 ELSE 0, DrBit(c, p - E + 1), Keeps(c, p - E + 1))
          ELSE Cycle(IF p = E + S THEN 1 ELSE 0, 1, FALSE)]
  BY DEF Moves
<1> HIDE DEF T, E, S
<1>3. ASSUME NEW p \in 0 .. 3 PROVE Moves(chain, c)[p] = Cycle(IF p < 2 THEN 1 ELSE 0, 1, FALSE)
  <2>1. p \in Nat /\ p < 4
    OBVIOUS
  <2>2. QED BY <1>2, <2>1
<1>4. ASSUME NEW j \in 1 .. T
      PROVE  Moves(chain, c)[3 + j] = Cycle(IF j = T THEN 1 ELSE 0, IrBit(chain, c, j), FALSE)
  <2> DEFINE p == 3 + j
  <2>1. p \in Nat /\ ~(p < 4) /\ p < T + 4 /\ p - 3 = j /\ (p = T + 3 <=> j = T)
    BY <1>1
  <2> HIDE DEF p
  <2>2. Moves(chain, c)[p] = Cycle(IF p = T + 3 THEN 1 ELSE 0, IrBit(chain, c, p - 3), FALSE)
    BY <1>2, <2>1
  <2>3. QED BY <2>1, <2>2 DEF p
<1>5. ASSUME NEW j \in 1 .. 5
      PROVE  Moves(chain, c)[T + 3 + j] = Cycle(IF j \in {1, 3} THEN 1 ELSE 0, 1, FALSE)
  <2> DEFINE p == T + 3 + j
  <2>1. p \in Nat /\ ~(p < 4) /\ ~(p < T + 4) /\ p < E /\ (p \in {T + 4, T + 6} <=> j \in {1, 3})
    BY <1>1
  <2> HIDE DEF p
  <2>2. Moves(chain, c)[p] = Cycle(IF p \in {T + 4, T + 6} THEN 1 ELSE 0, 1, FALSE)
    BY <1>2, <2>1
  <2>3. QED BY <2>1, <2>2 DEF p
<1>6. ASSUME NEW j \in 1 .. S
      PROVE  Moves(chain, c)[E + j - 1] = Cycle(IF j = S THEN 1 ELSE 0, DrBit(c, j), Keeps(c, j))
  <2> DEFINE p == E + j - 1
  <2>1. p \in Nat /\ ~(p < 4) /\ ~(p < T + 4) /\ ~(p < E) /\ p < E + S
        /\ p - E + 1 = j /\ (p = E + S - 1 <=> j = S)
    BY <1>1
  <2> HIDE DEF p
  <2>2. Moves(chain, c)[p]
          = Cycle(IF p = E + S - 1 THEN 1 ELSE 0, DrBit(c, p - E + 1), Keeps(c, p - E + 1))
    BY <1>2, <2>1
  <2>3. QED BY <2>1, <2>2 DEF p
<1>7. ASSUME NEW j \in Nat
      PROVE  Moves(chain, c)[E + S + j] = Cycle(IF j = 0 THEN 1 ELSE 0, 1, FALSE)
  <2> DEFINE p == E + S + j
  <2>1. p \in Nat /\ ~(p < 4) /\ ~(p < T + 4) /\ ~(p < E) /\ ~(p < E + S) /\ (p = E + S <=> j = 0)
    BY <1>1
  <2> HIDE DEF p
  <2>2. Moves(chain, c)[p] = Cycle(IF p = E + S THEN 1 ELSE 0, 1, FALSE)
    BY <1>2, <2>1
  <2>3. QED BY <2>1, <2>2 DEF p
<1>8. QED BY <1>3, <1>4, <1>5, <1>6, <1>7 DEF T, E, S

LEMMA SameIs ==
  ASSUME NEW b \in {0, 1}, NEW n \in Nat
  PROVE  Jtag!Same(b, n) \in Seq({0, 1}) /\ Len(Jtag!Same(b, n)) = n
         /\ \A i \in 1 .. n : Jtag!Same(b, n)[i] = b
<1>1. Jtag!Same(b, n) \in [1 .. n -> {0, 1}] /\ \A i \in 1 .. n : Jtag!Same(b, n)[i] = b
  BY DEF Jtag!Same
<1>2. QED BY <1>1, FunctionIsSeq

LEMMA FewBits ==
  /\ \A a \in {0, 1} : <<a>> \in Seq({0, 1}) /\ Len(<<a>>) = 1
  /\ \A a, b \in {0, 1} : <<a, b>> \in Seq({0, 1}) /\ Len(<<a, b>>) = 2
  /\ \A a, b, c \in {0, 1} : <<a, b, c>> \in Seq({0, 1}) /\ Len(<<a, b, c>>) = 3
  /\ \A a, b, c, d \in {0, 1} : <<a, b, c, d>> \in Seq({0, 1}) /\ Len(<<a, b, c, d>>) = 4
OBVIOUS

LEMMA InstructionIs ==
  ASSUME NEW c, Addressable(c)
  PROVE  /\ Name(c) \in {"idcode", "abort", "dpacc", "apacc"}
         /\ Jtag!Instruction[Name(c)] \in Seq({0, 1}) /\ Len(Jtag!Instruction[Name(c)]) = 4
<1>1. Name(c) \in {"idcode", "abort", "dpacc", "apacc"}
  BY CommandKinds DEF Addressable, Name
<1>2. /\ Jtag!Instruction["abort"] = <<0, 0, 0, 1>> /\ Jtag!Instruction["dpacc"] = <<0, 1, 0, 1>>
      /\ Jtag!Instruction["apacc"] = <<1, 1, 0, 1>> /\ Jtag!Instruction["idcode"] = <<0, 1, 1, 1>>
  BY DEF Jtag!Instruction
<1>3. ASSUME NEW s, s \in {<<0, 0, 0, 1>>, <<0, 1, 0, 1>>, <<1, 1, 0, 1>>, <<0, 1, 1, 1>>}
      PROVE  s \in Seq({0, 1}) /\ Len(s) = 4
  <2>1. 0 \in {0, 1} /\ 1 \in {0, 1}
    OBVIOUS
  <2>2. CASE s = <<0, 0, 0, 1>>
    BY <2>1, <2>2, FewBits
  <2>3. CASE s = <<0, 1, 0, 1>>
    BY <2>1, <2>3, FewBits
  <2>4. CASE s = <<1, 1, 0, 1>>
    BY <2>1, <2>4, FewBits
  <2>5. CASE s = <<0, 1, 1, 1>>
    BY <2>1, <2>5, FewBits
  <2>6. QED BY <1>3, <2>2, <2>3, <2>4, <2>5
<1>4. Jtag!Instruction[Name(c)] \in {<<0, 0, 0, 1>>, <<0, 1, 0, 1>>, <<1, 1, 0, 1>>, <<0, 1, 1, 1>>}
  BY <1>1, <1>2
<1>5. QED BY <1>1, <1>3, <1>4

\* The bits of the instructions, in the order they are shifted.
LEMMA IrBitsAre ==
  ASSUME NEW c, Addressable(c)
  PROVE  LET b == Jtag!Same(1, Jtag!IrBefore(c.dev)) \o Jtag!Instruction[Name(c)]
                    \o Jtag!Same(1, Jtag!IrAfter(c.dev))
         IN  b \in Seq({0, 1}) /\ Len(b) = IrBits(chain)
             /\ \A i \in 1 .. IrBits(chain) : b[i] = IrBit(chain, c, i)
<1> DEFINE u == UpTo(chain, c.dev - 1)
           T == IrBits(chain)
           v == T - (u + 4)
           x == Jtag!Same(1, u)
           y == Jtag!Instruction[Name(c)]
           z == Jtag!Same(1, v)
<1>1. u \in Nat /\ T \in Nat /\ v \in Nat
  BY Places
<1>2. Jtag!IrBefore(c.dev) = u /\ Jtag!IrAfter(c.dev) = v
  BY Places DEF Jtag!IrBefore, Jtag!IrAfter, UpTo, IrBits
<1>3. y \in Seq({0, 1}) /\ Len(y) = 4
  BY InstructionIs
<1>4. \A i : IrBit(chain, c, i) = IF i \in u + 1 .. u + 4 THEN y[i - u] ELSE 1
  BY DEF IrBit
<1>5. T = (u + 4) + v
  BY <1>1
<1> HIDE DEF u, T, v
<1>6. /\ x \in Seq({0, 1}) /\ Len(x) = u /\ \A i \in 1 .. u : x[i] = 1
      /\ z \in Seq({0, 1}) /\ Len(z) = v /\ \A i \in 1 .. v : z[i] = 1
  BY <1>1, SameIs
<1> HIDE DEF x, y, z
<1>7. x \o y \in Seq({0, 1}) /\ Joint(x, y, u, 4)
  BY <1>3, <1>6, Joining
<1> DEFINE a == x \o y
<1>8. a \in Seq({0, 1}) /\ Len(a) = u + 4 /\ (\A i \in 1 .. u : a[i] = 1)
      /\ \A i \in 1 .. 4 : a[u + i] = y[i]
  BY <1>6, <1>7 DEF Joint
<1> HIDE DEF a
<1>9. a \o z \in Seq({0, 1}) /\ Joint(a, z, u + 4, v)
  BY <1>6, <1>8, Joining
<1>10. ASSUME NEW i \in 1 .. T PROVE (a \o z)[i] = IrBit(chain, c, i)
  <2>1. CASE i <= u
    <3>1. i \in 1 .. u /\ i \in 1 .. u + 4 /\ i \notin u + 1 .. u + 4
      BY <1>1, <2>1
    <3>2. (a \o z)[i] = 1
      BY <1>8, <1>9, <3>1 DEF Joint
    <3>3. QED BY <1>4, <3>1, <3>2
  <2>2. CASE u < i /\ i <= u + 4
    <3> DEFINE j == i - u
    <3>1. j \in 1 .. 4 /\ i = u + j /\ i \in 1 .. u + 4 /\ i \in u + 1 .. u + 4
      BY <1>1, <2>2
    <3>2. IrBit(chain, c, i) = y[j]
      BY <1>4, <3>1
    <3> HIDE DEF j
    <3>3. (a \o z)[i] = a[i] /\ a[u + j] = y[j]
      BY <1>8, <1>9, <3>1 DEF Joint
    <3>4. QED BY <3>1, <3>2, <3>3
  <2>3. CASE u + 4 < i
    <3> DEFINE j == i - (u + 4)
    <3>1. j \in 1 .. v /\ i = (u + 4) + j /\ i \notin u + 1 .. u + 4
      BY <1>1, <1>5, <2>3
    <3>2. IrBit(chain, c, i) = 1
      BY <1>4, <3>1
    <3> HIDE DEF j
    <3>3. (a \o z)[(u + 4) + j] = z[j] /\ z[j] = 1
      BY <1>6, <1>9, <3>1 DEF Joint
    <3>4. QED BY <3>1, <3>2, <3>3
  <2>4. i <= u \/ (u < i /\ i <= u + 4) \/ u + 4 < i
    BY <1>1
  <2>5. QED BY <2>1, <2>2, <2>3, <2>4
<1>11. Len(a \o z) = T
  BY <1>5, <1>9 DEF Joint
<1>12. QED BY <1>2, <1>9, <1>10, <1>11 DEF T, a, x, y, z

\* The functions of the source clock what Moves says.
LEMMA IrRuns ==
  ASSUME NEW c, Addressable(c)
  PROVE  Runs(Jtag!JtagIr(Name(c), c.dev), Moves(chain, c), 0, IrBits(chain) + 6)
<1> DEFINE T == IrBits(chain)
           plan == Moves(chain, c)
           b == Jtag!Same(1, Jtag!IrBefore(c.dev)) \o Jtag!Instruction[Name(c)]
                  \o Jtag!Same(1, Jtag!IrAfter(c.dev))
           x == Jtag!Tms(<<1, 1, 0, 0>>)
           y == Jtag!Leaving(Jtag!Shift(b, FALSE))
           z == Jtag!Tms(<<1, 0>>)
<1>1. T \in Nat /\ T >= 1
  BY Places
<1>2. b \in Seq({0, 1}) /\ Len(b) = T /\ \A i \in 1 .. T : b[i] = IrBit(chain, c, i)
  BY IrBitsAre
<1>3. /\ \A p \in 0 .. 3 : plan[p] = Cycle(IF p < 2 THEN 1 ELSE 0, 1, FALSE)
      /\ \A j \in 1 .. T : plan[3 + j] = Cycle(IF j = T THEN 1 ELSE 0, IrBit(chain, c, j), FALSE)
      /\ \A j \in 1 .. 5 : plan[T + 3 + j] = Cycle(IF j \in {1, 3} THEN 1 ELSE 0, 1, FALSE)
  BY MovesAre
<1> HIDE DEF T, plan, b
<1>4. Runs(x, plan, 0, 4)
  <2> DEFINE s == <<1, 1, 0, 0>>
  <2>1. s \in Seq({0, 1}) /\ Len(s) = 4
    BY FewBits
  <2>2. ASSUME NEW i \in 1 .. 4 PROVE plan[0 + i - 1] = [tms |-> s[i], tdi |-> 1, in |-> FALSE]
    <3>1. 0 + i - 1 \in 0 .. 3 /\ (0 + i - 1 < 2 <=> i <= 2)
      OBVIOUS
    <3>2. s[i] = IF i <= 2 THEN 1 ELSE 0
      OBVIOUS
    <3> HIDE DEF s
    <3>3. QED BY <1>3, <3>1, <3>2 DEF Cycle
  <2> HIDE DEF s
  <2>3. QED BY <2>1, <2>2, TmsRuns DEF s
<1>5. Runs(y, plan, 4, T)
  <2>1. ASSUME NEW i \in 1 .. T
        PROVE  plan[4 + i - 1] = [tms |-> IF i = T THEN 1 ELSE 0, tdi |-> b[i], in |-> FALSE]
    <3>1. 4 + i - 1 = 3 + i
      BY <1>1
    <3>2. plan[3 + i] = Cycle(IF i = T THEN 1 ELSE 0, IrBit(chain, c, i), FALSE) /\ b[i] = IrBit(chain, c, i)
      BY <1>2, <1>3
    <3>3. QED BY <3>1, <3>2 DEF Cycle
  <2>2. QED BY <1>1, <1>2, <2>1, LeavingRuns
<1>6. Runs(z, plan, T + 4, 2)
  <2> DEFINE s == <<1, 0>>
  <2>1. s \in Seq({0, 1}) /\ Len(s) = 2
    BY FewBits
  <2>2. ASSUME NEW i \in 1 .. 2 PROVE plan[T + 4 + i - 1] = [tms |-> s[i], tdi |-> 1, in |-> FALSE]
    <3>1. T + 4 + i - 1 = T + 3 + i /\ i \in 1 .. 5 /\ (i \in {1, 3} <=> i = 1)
      BY <1>1
    <3>2. s[i] = IF i = 1 THEN 1 ELSE 0
      OBVIOUS
    <3> HIDE DEF s
    <3>3. plan[T + 3 + i] = Cycle(IF i = 1 THEN 1 ELSE 0, 1, FALSE)
      BY <1>3, <3>1
    <3>4. QED BY <3>1, <3>2, <3>3 DEF Cycle
  <2> HIDE DEF s
  <2>3. T + 4 \in Nat
    BY <1>1
  <2>4. QED BY <2>1, <2>2, <2>3, TmsRuns DEF s
<1> HIDE DEF x, y, z
<1>7. Runs(x \o y, plan, 0, 4 + T)
  <2>1. 4 = 0 + 4 /\ 0 \in Nat /\ 4 \in Nat /\ T \in Nat
    BY <1>1
  <2>2. QED BY <1>4, <1>5, <2>1, RunsJoined
<1>8. Runs((x \o y) \o z, plan, 0, T + 6)
  <2>1. 0 \in Nat /\ 4 + T \in Nat /\ 2 \in Nat /\ T + 4 = 0 + (4 + T) /\ T + 6 = (4 + T) + 2
    BY <1>1
  <2> HIDE DEF Runs
  <2>2. QED BY <1>6, <1>7, <2>1, RunsJoined
<1>9. Jtag!JtagIr(Name(c), c.dev) = (x \o y) \o z
  BY DEF Jtag!JtagIr, Jtag!Finish, x, y, z, b
<1>10. QED BY <1>8, <1>9 DEF T, plan

LEMMA BeforeRuns ==
  ASSUME NEW c, Addressable(c)
  PROVE  Runs(Jtag!Before(c.dev), Moves(chain, c), IrBits(chain) + 6, c.dev + 2)
<1> DEFINE T == IrBits(chain)
           E == Entry(chain)
           d == c.dev
           S == Shifts(chain, c)
           plan == Moves(chain, c)
           b == Jtag!Same(1, d - 1)
           x == Jtag!Tms(<<1, 0, 0>>)
           y == Jtag!Shift(b, FALSE)
<1>1. T \in Nat /\ E = T + 9 /\ d \in Nat \ {0} /\ d - 1 \in Nat
  BY Places
<1>2. b \in Seq({0, 1}) /\ Len(b) = d - 1 /\ \A i \in 1 .. d - 1 : b[i] = 1
  BY <1>1, SameIs
<1>3. /\ \A j \in 1 .. 5 : plan[T + 3 + j] = Cycle(IF j \in {1, 3} THEN 1 ELSE 0, 1, FALSE)
      /\ \A j \in 1 .. S : plan[E + j - 1] = Cycle(IF j = S THEN 1 ELSE 0, DrBit(c, j), Keeps(c, j))
  BY MovesAre
<1>4. ASSUME NEW j \in 1 .. d - 1
      PROVE  j \in 1 .. S /\ j # S /\ DrBit(c, j) = 1 /\ Keeps(c, j) = FALSE
  <2>1. Width \in Nat /\ Width >= 2 /\ d <= Len(chain) /\ Len(chain) \in Nat
    BY Places
  <2>2. S >= d
    BY <1>1, <2>1 DEF Shifts
  <2>3. S \in Nat
    BY ShiftsAre
  <2>4. j < c.dev /\ ~(j >= c.dev) /\ j \notin d .. d + 2 /\ j \notin d + 3 .. d + 2 + Width
    BY <1>1
  <2>5. DrBit(c, j) = 1
    BY <2>4 DEF DrBit
  <2>6. c.kind \in {"idcode", "abort", "transfer"}
    BY CommandKinds DEF Addressable
  <2>7. Keeps(c, j) = FALSE
    BY <2>4, <2>6 DEF Keeps
  <2> HIDE DEF S, d
  <2>8. QED BY <1>1, <2>2, <2>3, <2>5, <2>7
<1> HIDE DEF T, plan, b, E, S, d
<1>5. Runs(x, plan, T + 6, 3)
  <2> DEFINE s == <<1, 0, 0>>
  <2>1. s \in Seq({0, 1}) /\ Len(s) = 3
    BY FewBits
  <2>2. ASSUME NEW i \in 1 .. 3 PROVE plan[T + 6 + i - 1] = [tms |-> s[i], tdi |-> 1, in |-> FALSE]
    <3>1. T + 6 + i - 1 = T + 3 + (i + 2) /\ i + 2 \in 1 .. 5 /\ (i + 2 \in {1, 3} <=> i = 1)
      BY <1>1
    <3>2. s[i] = IF i = 1 THEN 1 ELSE 0
      OBVIOUS
    <3> HIDE DEF s
    <3>3. plan[T + 3 + (i + 2)] = Cycle(IF i = 1 THEN 1 ELSE 0, 1, FALSE)
      BY <1>3, <3>1
    <3>4. QED BY <3>1, <3>2, <3>3 DEF Cycle
  <2> HIDE DEF s
  <2>3. T + 6 \in Nat
    BY <1>1
  <2>4. QED BY <2>1, <2>2, <2>3, TmsRuns DEF s
<1>6. Runs(y, plan, E, d - 1)
  <2>1. ASSUME NEW i \in 1 .. d - 1 PROVE plan[E + i - 1] = [tms |-> 0, tdi |-> b[i], in |-> FALSE]
    <3>1. plan[E + i - 1] = Cycle(IF i = S THEN 1 ELSE 0, DrBit(c, i), Keeps(c, i))
      BY <1>3, <1>4
    <3>2. QED BY <1>2, <1>4, <3>1 DEF Cycle
  <2>2. E \in Nat
    BY <1>1
  <2>3. QED BY <1>1, <1>2, <2>1, <2>2, ShiftRuns
<1>7. Jtag!Before(d) = x \o y
  BY DEF Jtag!Before, x, y, b
<1> HIDE DEF x, y
<1>8. Runs(x \o y, plan, T + 6, d + 2)
  <2>1. T + 6 \in Nat /\ 3 \in Nat /\ d - 1 \in Nat /\ E = T + 6 + 3 /\ d + 2 = 3 + (d - 1)
    BY <1>1
  <2>2. QED BY <1>5, <1>6, <2>1, RunsJoined
<1>9. QED BY <1>7, <1>8 DEF T, plan, d

LEMMA ClosingRuns ==
  ASSUME NEW c, Addressable(c), NEW n \in Nat
  PROVE  /\ Runs(Jtag!Finish, Moves(chain, c), Entry(chain) + Shifts(chain, c), 2)
         /\ Runs(Jtag!Idle(n), Moves(chain, c), Entry(chain) + Shifts(chain, c) + 2, n)
<1> DEFINE e == Entry(chain) + Shifts(chain, c)
           plan == Moves(chain, c)
           y == Jtag!Idle(n)
<1>1. e \in Nat
  BY Places, ShiftsAre
<1>2. \A j \in Nat : plan[e + j] = Cycle(IF j = 0 THEN 1 ELSE 0, 1, FALSE)
  BY MovesAre
<1> HIDE DEF e, plan
<1>3. Runs(Jtag!Finish, plan, e, 2)
  <2> DEFINE s == <<1, 0>>
  <2>1. s \in Seq({0, 1}) /\ Len(s) = 2
    BY FewBits
  <2>2. ASSUME NEW i \in 1 .. 2 PROVE plan[e + i - 1] = [tms |-> s[i], tdi |-> 1, in |-> FALSE]
    <3>1. e + i - 1 = e + (i - 1) /\ i - 1 \in Nat /\ (i - 1 = 0 <=> i = 1)
      BY <1>1
    <3>2. s[i] = IF i = 1 THEN 1 ELSE 0
      OBVIOUS
    <3> HIDE DEF s
    <3>3. plan[e + (i - 1)] = Cycle(IF i = 1 THEN 1 ELSE 0, 1, FALSE)
      BY <1>2, <3>1
    <3>4. QED BY <3>1, <3>2, <3>3 DEF Cycle
  <2> HIDE DEF s
  <2>3. QED BY <1>1, <2>1, <2>2, TmsRuns DEF s, Jtag!Finish
<1>4. Runs(y, plan, e + 2, n)
  <2> DEFINE s == Jtag!Same(0, n)
  <2>1. s \in Seq({0, 1}) /\ Len(s) = n /\ \A i \in 1 .. n : s[i] = 0
    BY SameIs
  <2> HIDE DEF s
  <2>2. ASSUME NEW i \in 1 .. n PROVE plan[e + 2 + i - 1] = [tms |-> s[i], tdi |-> 1, in |-> FALSE]
    <3>1. e + 2 + i - 1 = e + (i + 1) /\ i + 1 \in Nat /\ i + 1 # 0
      BY <1>1
    <3>2. plan[e + (i + 1)] = Cycle(0, 1, FALSE)
      BY <1>2, <3>1
    <3>3. QED BY <2>1, <3>1, <3>2 DEF Cycle
  <2>3. e + 2 \in Nat
    BY <1>1
  <2>4. QED BY <2>1, <2>2, <2>3, TmsRuns DEF s, Jtag!Idle
<1> HIDE DEF y
<1>5. QED BY <1>3, <1>4 DEF e, plan, y

\* Cycles of which only the last has TMS set.
LEMMA LeavingOf ==
  ASSUME NEW plan, NEW same, NEW p \in Nat, NEW m \in Nat, m >= 1, NEW s, Runs(s, same, p, m),
         \A i \in 1 .. m :
           plan[p + i - 1] = [same[p + i - 1] EXCEPT !.tms = IF i = m THEN 1 ELSE 0],
         \A i \in 1 .. m : same[p + i - 1].tms = 0
  PROVE  Runs(Jtag!Leaving(s), plan, p, m)
<1> DEFINE t == Jtag!Leaving(s)
<1>1. s \in [1 .. m -> CycleSet] /\ Len(s) = m /\ \A i \in 1 .. m : s[i] = same[p + i - 1]
  BY LenProperties DEF Runs
<1>2. t = [i \in 1 .. m |-> IF i = m THEN [s[i] EXCEPT !.tms = 1] ELSE s[i]]
  BY <1>1 DEF Jtag!Leaving
<1>3. ASSUME NEW i \in 1 .. m PROVE t[i] = plan[p + i - 1] /\ t[i] \in CycleSet
  <2>1. t[i] = (IF i = m THEN [s[i] EXCEPT !.tms = 1] ELSE s[i]) /\ s[i] \in CycleSet
    BY <1>1, <1>2
  <2>2. s[i] = same[p + i - 1] /\ s[i].tms = 0
    BY <1>1
  <2>3. plan[p + i - 1] = [s[i] EXCEPT !.tms = IF i = m THEN 1 ELSE 0]
    BY <2>2
  <2> DEFINE a == s[i]
             b == t[i]
             q == plan[p + i - 1]
  <2>4. /\ b = (IF i = m THEN [a EXCEPT !.tms = 1] ELSE a) /\ a \in CycleSet /\ a.tms = 0
        /\ q = [a EXCEPT !.tms = IF i = m THEN 1 ELSE 0]
    BY <2>1, <2>2, <2>3
  <2> HIDE DEF a, b, q, t
  <2>5. b = q /\ b \in CycleSet
    BY <2>4 DEF CycleSet
  <2>6. QED BY <2>5 DEF a, b, q
<1>4. t = [i \in 1 .. m |-> t[i]] /\ DOMAIN t = 1 .. m
  BY <1>2
<1> HIDE DEF t
<1>5. QED BY <1>3, <1>4, RunsMade DEF t

\* The data bits from one to another, as cycles with TMS low.
Low(c) == [p \in Nat |-> Cycle(0, DrBit(c, p - Entry(chain) + 1), Keeps(c, p - Entry(chain) + 1))]

LEMMA LowRuns ==
  ASSUME NEW c, Addressable(c), NEW k \in Nat, NEW m \in Nat, NEW b, b \in Seq({0, 1}), Len(b) = m,
         NEW in \in BOOLEAN, \A i \in 1 .. m : b[i] = DrBit(c, k + i) /\ in = Keeps(c, k + i)
  PROVE  Runs(Jtag!Shift(b, in), Low(c), Entry(chain) + k, m)
<1> DEFINE E == Entry(chain)
           plan == Low(c)
<1>1. E \in Nat
  BY Places
<1>2. ASSUME NEW i \in 1 .. m PROVE plan[E + k + i - 1] = [tms |-> 0, tdi |-> b[i], in |-> in]
  <2> DEFINE p == E + k + i - 1
  <2>1. p \in Nat /\ p - E + 1 = k + i
    BY <1>1
  <2> HIDE DEF p, E
  <2>2. Low(c)[p] = Cycle(0, DrBit(c, p - E + 1), Keeps(c, p - E + 1))
    BY <2>1 DEF Low, E
  <2>3. QED BY <2>1, <2>2 DEF Cycle, p
<1> HIDE DEF E, plan
<1>3. E + k \in Nat
  BY <1>1
<1>4. QED BY <1>2, <1>3, ShiftRuns DEF E, plan

LEMMA LowStays ==
  ASSUME NEW c, Addressable(c), NEW k \in Nat, NEW m \in Nat, NEW s, k + m < Shifts(chain, c),
         Runs(s, Low(c), Entry(chain) + k, m)
  PROVE  Runs(s, Moves(chain, c), Entry(chain) + k, m)
<1> DEFINE E == Entry(chain)
           S == Shifts(chain, c)
           q == E + k
<1>1. E \in Nat /\ S \in Nat /\ k + m < S
  BY Places, ShiftsAre
<1>2. /\ \A j \in 1 .. S : Moves(chain, c)[E + j - 1]
                             = Cycle(IF j = S THEN 1 ELSE 0, DrBit(c, j), Keeps(c, j))
      /\ Low(c) = [p \in Nat |-> Cycle(0, DrBit(c, p - E + 1), Keeps(c, p - E + 1))]
  BY MovesAre DEF Low
<1> HIDE DEF E, S
<1>3. ASSUME NEW i \in 1 .. m PROVE Low(c)[q + i - 1] = Moves(chain, c)[q + i - 1]
  <2> DEFINE p == q + i - 1
             j == k + i
  <2>1. p \in Nat /\ p - E + 1 = j /\ p = E + j - 1 /\ j \in 1 .. S /\ j # S
    BY <1>1
  <2> HIDE DEF p, j, q
  <2>2. Low(c)[p] = Cycle(0, DrBit(c, j), Keeps(c, j))
    BY <1>2, <2>1
  <2>3. Moves(chain, c)[E + j - 1] = Cycle(IF j = S THEN 1 ELSE 0, DrBit(c, j), Keeps(c, j))
    BY <1>2, <2>1
  <2>4. QED BY <2>1, <2>2, <2>3 DEF p
<1>4. Runs(s, Low(c), q, m)
  BY DEF q, E
<1> HIDE DEF q
<1>5. Runs(s, Moves(chain, c), q, m)
  BY <1>3, <1>4 DEF Runs
<1>6. QED BY <1>5 DEF q, E

LEMMA LowLeaves ==
  ASSUME NEW c, Addressable(c), NEW k \in Nat, NEW m \in Nat, NEW s, m >= 1, k + m = Shifts(chain, c),
         Runs(s, Low(c), Entry(chain) + k, m)
  PROVE  Runs(Jtag!Leaving(s), Moves(chain, c), Entry(chain) + k, m)
<1> DEFINE E == Entry(chain)
           S == Shifts(chain, c)
           q == E + k
           plan == Moves(chain, c)
           same == Low(c)
<1>1. E \in Nat /\ S \in Nat /\ k + m = S /\ q \in Nat
  BY Places, ShiftsAre
<1>2. /\ \A j \in 1 .. S : plan[E + j - 1]
                             = Cycle(IF j = S THEN 1 ELSE 0, DrBit(c, j), Keeps(c, j))
      /\ same = [p \in Nat |-> Cycle(0, DrBit(c, p - E + 1), Keeps(c, p - E + 1))]
  BY MovesAre DEF Low
<1>3. Runs(s, same, q, m)
  OBVIOUS
<1> HIDE DEF E, S, plan, same
<1>4. ASSUME NEW i \in 1 .. m
      PROVE  /\ plan[q + i - 1] = [same[q + i - 1] EXCEPT !.tms = IF i = m THEN 1 ELSE 0]
             /\ same[q + i - 1].tms = 0
  <2> DEFINE p == q + i - 1
             j == k + i
  <2>1. p \in Nat /\ p - E + 1 = j /\ p = E + j - 1 /\ j \in 1 .. S /\ (j = S <=> i = m)
    BY <1>1
  <2> HIDE DEF p, j, q
  <2>2. same[p] = Cycle(0, DrBit(c, j), Keeps(c, j))
    BY <1>2, <2>1
  <2>3. plan[E + j - 1] = Cycle(IF j = S THEN 1 ELSE 0, DrBit(c, j), Keeps(c, j))
    BY <1>2, <2>1
  <2>4. plan[p] = [same[p] EXCEPT !.tms = IF i = m THEN 1 ELSE 0] /\ same[p].tms = 0
    BY <2>1, <2>2, <2>3 DEF Cycle
  <2>5. QED BY <2>4 DEF p
<1> HIDE DEF q
<1>5. Runs(Jtag!Leaving(s), plan, q, m)
  BY <1>1, <1>3, <1>4, LeavingOf
<1>6. QED BY <1>5 DEF q, E, plan

LEMMA BitsOf ==
  ASSUME NEW c, Addressable(c)
  PROVE  /\ c.kind = "idcode" =>
              /\ Shifts(chain, c) = c.dev - 1 + Width
              /\ \A j : j >= c.dev => DrBit(c, j) = 1 /\ Keeps(c, j) = TRUE
         /\ c.kind = "abort" =>
              /\ Shifts(chain, c) = Len(chain) + 2 + Width
              /\ \A j : Keeps(c, j) = FALSE
              /\ \A j \in c.dev .. c.dev + 2 : DrBit(c, j) = 0
         /\ c.kind = "transfer" =>
              /\ Shifts(chain, c) = IF c.wait THEN c.dev + 3 ELSE Len(chain) + 2 + Width
              /\ \A j \in c.dev .. c.dev + 2 : DrBit(c, j) = c.request[j - c.dev + 1] /\ Keeps(c, j) = TRUE
              /\ \A j \in Nat : j > c.dev + 2 =>
                   (Keeps(c, j) <=> ~c.wait /\ c.request[1] = 1 /\ j <= c.dev + 2 + Width)
              /\ c.wait => DrBit(c, c.dev + 3) = 1
         /\ c.kind = "abort" \/ (c.kind = "transfer" /\ ~c.wait) =>
              \A j \in Nat : j > c.dev + 2 =>
                DrBit(c, j) = IF c.kind = "transfer" /\ c.request[1] = 1 THEN c.request[3]
                              ELSE c.data[IF j <= c.dev + 2 + Width THEN j - c.dev - 2 ELSE Width]
<1> DEFINE d == c.dev
<1>1. d \in Nat /\ d >= 1 /\ Width \in Nat
  BY Places
<1>2. c.kind \in {"idcode", "abort", "transfer"} /\ (c.kind = "transfer" => c.wait \in BOOLEAN)
  BY CommandKinds DEF Addressable
<1>3. ASSUME c.kind = "idcode"
      PROVE  /\ Shifts(chain, c) = d - 1 + Width
             /\ \A j : j >= d => DrBit(c, j) = 1 /\ Keeps(c, j) = TRUE
  BY <1>3 DEF Shifts, DrBit, Keeps
<1>4. ASSUME c.kind = "abort"
      PROVE  /\ Shifts(chain, c) = Len(chain) + 2 + Width
             /\ \A j : Keeps(c, j) = FALSE
             /\ \A j \in d .. d + 2 : DrBit(c, j) = 0
  <2>1. c.kind # "idcode" /\ c.kind # "transfer"
    BY <1>4
  <2>2. \A j \in d .. d + 2 : ~(j < d) /\ j <= d + 2
    BY <1>1
  <2> HIDE DEF d
  <2>3. Shifts(chain, c) = Len(chain) + 2 + Width
    BY <2>1 DEF Shifts, Waits
  <2>4. \A j : Keeps(c, j) = FALSE
    BY <1>4, <2>1 DEF Keeps
  <2>5. \A j \in d .. d + 2 : DrBit(c, j) = 0
    BY <1>4, <2>1, <2>2 DEF DrBit, Waits, d
  <2>6. QED BY <2>3, <2>4, <2>5
<1>5. ASSUME c.kind = "transfer"
      PROVE  /\ Shifts(chain, c) = IF c.wait THEN d + 3 ELSE Len(chain) + 2 + Width
             /\ \A j \in d .. d + 2 : DrBit(c, j) = c.request[j - d + 1] /\ Keeps(c, j) = TRUE
             /\ \A j \in Nat : j > d + 2 =>
                  (Keeps(c, j) <=> ~c.wait /\ c.request[1] = 1 /\ j <= d + 2 + Width)
             /\ c.wait => DrBit(c, d + 3) = 1
  <2>1. c.kind # "idcode" /\ c.kind # "abort" /\ c.wait \in BOOLEAN
    BY <1>2, <1>5
  <2>2. Shifts(chain, c) = IF c.wait THEN d + 3 ELSE Len(chain) + 2 + Width
    BY <1>5, <2>1 DEF Shifts, Waits
  <2>3. ASSUME NEW j \in d .. d + 2 PROVE DrBit(c, j) = c.request[j - d + 1] /\ Keeps(c, j) = TRUE
    <3>1. ~(j < d) /\ j <= d + 2 /\ ~(j > d + 2)
      BY <1>1
    <3> HIDE DEF d
    <3>2. DrBit(c, j) = c.request[j - d + 1]
      BY <2>1, <3>1 DEF DrBit, d
    <3>3. Keeps(c, j) = TRUE
      BY <2>1 DEF Keeps, d
    <3>4. QED BY <3>2, <3>3
  <2>4. ASSUME NEW j \in Nat, j > d + 2
        PROVE  Keeps(c, j) <=> ~c.wait /\ c.request[1] = 1 /\ j <= d + 2 + Width
    <3>1. j \notin d .. d + 2 /\ (j \in d + 3 .. d + 2 + Width <=> j <= d + 2 + Width)
      BY <1>1, <2>4
    <3> HIDE DEF d
    <3>2. Keeps(c, j) <=> \/ j \in d .. d + 2
                          \/ ~c.wait /\ ReadsWord(c) /\ j \in d + 3 .. d + 2 + Width
      BY <2>1 DEF Keeps, d
    <3>3. QED BY <1>5, <3>1, <3>2 DEF ReadsWord
  <2>5. ASSUME c.wait PROVE DrBit(c, d + 3) = 1
    <3>1. d + 3 > d + 2
      BY <1>1
    <3>2. QED BY <1>5, <2>5, <3>1 DEF DrBit, Waits
  <2>6. QED BY <2>2, <2>3, <2>4, <2>5
<1>6. ASSUME c.kind = "abort" \/ (c.kind = "transfer" /\ ~c.wait), NEW j \in Nat, j > d + 2
      PROVE  DrBit(c, j) = IF c.kind = "transfer" /\ c.request[1] = 1 THEN c.request[3]
                           ELSE c.data[IF j <= d + 2 + Width THEN j - d - 2 ELSE Width]
  <2>1. c.kind # "idcode" /\ ~Waits(c) /\ (ReadsWord(c) <=> c.kind = "transfer" /\ c.request[1] = 1)
    BY <1>6 DEF Waits, ReadsWord
  <2>2. ~(j < d) /\ ~(j <= d + 2)
    BY <1>1, <1>6
  <2> HIDE DEF d
  <2>3. DrBit(c, j) = IF ReadsWord(c) THEN c.request[3]
                      ELSE c.data[IF j <= d + 2 + Width THEN j - d - 2 ELSE Width]
    BY <2>1, <2>2 DEF DrBit, d
  <2>4. QED BY <2>1, <2>3
<1>7. QED BY <1>3, <1>4, <1>5, <1>6

LEMMA IdcodeRuns ==
  ASSUME NEW c, Addressable(c), c.kind = "idcode"
  PROVE  Runs(Jtag!JtagIr("idcode", c.dev) \o Jtag!ReadIDCode(c.dev), Moves(chain, c), 0, Known(chain, c, 0))
<1> DEFINE T == IrBits(chain)
           E == Entry(chain)
           d == c.dev
           plan == Moves(chain, c)
           low == Low(c)
           s == Jtag!Same(1, Width)
           x == Jtag!Before(d)
           y == Jtag!Shift(s, TRUE)
           i == Jtag!JtagIr("idcode", d)
<1>1. T \in Nat /\ E = T + 9 /\ d \in Nat \ {0} /\ Width \in Nat /\ Width >= 1
  BY Places
<1>2. s \in Seq({0, 1}) /\ Len(s) = Width /\ \A j \in 1 .. Width : s[j] = 1
  BY <1>1, SameIs
<1>3. Shifts(chain, c) = d - 1 + Width /\ \A j : j >= d => DrBit(c, j) = 1 /\ Keeps(c, j) = TRUE
  BY BitsOf
<1>4. Runs(i, plan, 0, T + 6)
  BY IrRuns DEF Name
<1>5. Runs(x, plan, T + 6, d + 2)
  BY BeforeRuns
<1>6. Known(chain, c, 0) = E + (d - 1 + Width) + 2
  BY <1>3 DEF Known
<1>7. Runs(Jtag!Finish, plan, E + (d - 1 + Width), 2)
  BY <1>3, ClosingRuns
<1> DEFINE k == d - 1
<1>8. Runs(y, low, E + k, Width)
  <2>1. \A j \in 1 .. Width : s[j] = DrBit(c, k + j) /\ TRUE = Keeps(c, k + j)
    <3>1. \A j \in 1 .. Width : k + j >= d
      BY <1>1
    <3>2. QED BY <1>2, <1>3, <3>1
  <2>2. k \in Nat
    BY <1>1
  <2> HIDE DEF k, s
  <2>3. QED BY <1>1, <1>2, <2>1, <2>2, LowRuns
<1> DEFINE z == Jtag!Leaving(y)
<1>9. Runs(z, plan, E + k, Width)
  <2>1. k \in Nat /\ k + Width = Shifts(chain, c)
    BY <1>1, <1>3
  <2> HIDE DEF k, y
  <2>2. QED BY <1>1, <1>8, <2>1, LowLeaves
<1>10. Jtag!ReadIDCode(d) = (x \o z) \o Jtag!Finish
  BY DEF Jtag!ReadIDCode, Width
<1> HIDE DEF T, E, d, plan, x, z, i, y
<1>11. k \in Nat /\ E + k = T + 6 + (d + 2) /\ E + (d - 1 + Width) = T + 6 + (d + 2 + Width)
  BY <1>1
<1>12. Runs(x \o z, plan, T + 6, d + 2 + Width)
  <2>1. T + 6 \in Nat /\ d + 2 \in Nat /\ d + 2 + Width = (d + 2) + Width
    BY <1>1
  <2>2. QED BY <1>1, <1>5, <1>9, <1>11, <2>1, RunsJoined
<1>13. Runs((x \o z) \o Jtag!Finish, plan, T + 6, d + 4 + Width)
  <2>1. T + 6 \in Nat /\ d + 2 + Width \in Nat /\ d + 4 + Width = (d + 2 + Width) + 2 /\ 2 \in Nat
    BY <1>1
  <2>2. QED BY <1>7, <1>11, <1>12, <2>1, RunsJoined
<1>14. Runs(i \o ((x \o z) \o Jtag!Finish), plan, 0, E + (d - 1 + Width) + 2)
  <2>1. T + 6 = 0 + (T + 6) /\ T + 6 \in Nat /\ d + 4 + Width \in Nat /\ 0 \in Nat
        /\ E + (d - 1 + Width) + 2 = (T + 6) + (d + 4 + Width)
    BY <1>1
  <2>2. QED BY <1>4, <1>13, <2>1, RunsJoined
<1>15. QED BY <1>6, <1>10, <1>14 DEF i, d, plan

LEMMA AbortRuns ==
  ASSUME NEW c, Addressable(c), c.kind = "abort"
  PROVE  Runs(Jtag!JtagIr("abort", c.dev) \o Jtag!WriteAbort(c.dev, c.data), Moves(chain, c), 0,
              Known(chain, c, 0))
<1> DEFINE T == IrBits(chain)
           E == Entry(chain)
           d == c.dev
           plan == Moves(chain, c)
           low == Low(c)
           n == Len(chain)
           r == <<0, 0, 0>>
           s == c.data
           t == Jtag!Same(s[Width], n - d)
           x == Jtag!Before(d)
           u == Jtag!Shift(r, FALSE)
           v == Jtag!Shift(s, FALSE)
           w == Jtag!Shift(t, FALSE)
           i == Jtag!JtagIr("abort", d)
           k == d - 1
<1>1. T \in Nat /\ E = T + 9 /\ d \in 1 .. n /\ n \in Nat /\ Width \in Nat /\ Width >= 1
  BY Places
<1>2. s \in Seq({0, 1}) /\ Len(s) = Width /\ s[Width] \in {0, 1}
  <2>1. s \in [1 .. Width -> {0, 1}]
    BY CommandKinds DEF Addressable
  <2>2. QED BY <1>1, <2>1, FunctionIsSeq
<1>3. t \in Seq({0, 1}) /\ Len(t) = n - d /\ \A j \in 1 .. n - d : t[j] = s[Width]
  <2>1. n - d \in Nat
    BY <1>1
  <2>2. QED BY <1>2, <2>1, SameIs
<1>4. r \in Seq({0, 1}) /\ Len(r) = 3 /\ \A j \in 1 .. 3 : r[j] = 0
  BY FewBits
<1>5. /\ Shifts(chain, c) = n + 2 + Width
      /\ \A j : Keeps(c, j) = FALSE
      /\ \A j \in d .. d + 2 : DrBit(c, j) = 0
      /\ \A j \in Nat : j > d + 2 => DrBit(c, j) = s[IF j <= d + 2 + Width THEN j - d - 2 ELSE Width]
  BY BitsOf
<1>6. Runs(i, plan, 0, T + 6)
  BY IrRuns DEF Name
<1>7. Runs(x, plan, T + 6, d + 2)
  BY BeforeRuns
<1>8. Known(chain, c, 0) = E + (n + 2 + Width) + 2
  BY <1>5 DEF Known
<1>9. Runs(Jtag!Finish, plan, E + (n + 2 + Width), 2)
  BY <1>5, ClosingRuns
<1>10. Jtag!WriteAbort(d, s) = ((x \o u) \o Jtag!Leaving(v \o w)) \o Jtag!Finish
  BY DEF Jtag!WriteAbort, Jtag!After, Width
<1> HIDE DEF T, E, d, plan, n, r, s, t, low
<1>11. Runs(u, plan, E + k, 3)
  <2>1. \A j \in 1 .. 3 : r[j] = DrBit(c, k + j) /\ FALSE = Keeps(c, k + j)
    <3>1. \A j \in 1 .. 3 : k + j \in d .. d + 2
      BY <1>1
    <3>2. QED BY <1>4, <1>5, <3>1
  <2>2. k \in Nat /\ k + 3 < Shifts(chain, c) /\ 3 \in Nat
    BY <1>1, <1>5
  <2> HIDE DEF k
  <2>3. Runs(u, Low(c), E + k, 3)
    BY <1>4, <2>1, <2>2, LowRuns DEF E
  <2>4. QED BY <2>2, <2>3, LowStays DEF E, plan
<1>12. Runs(v, low, E + (d + 2), Width)
  <2>1. ASSUME NEW j \in 1 .. Width PROVE s[j] = DrBit(c, d + 2 + j) /\ FALSE = Keeps(c, d + 2 + j)
    <3> DEFINE g == d + 2 + j
    <3>1. g \in Nat /\ g > d + 2 /\ g <= d + 2 + Width /\ g - d - 2 = j
      BY <1>1
    <3> HIDE DEF g
    <3>2. DrBit(c, g) = s[g - d - 2] /\ FALSE = Keeps(c, g)
      BY <1>5, <3>1
    <3>3. QED BY <3>1, <3>2 DEF g
  <2>2. d + 2 \in Nat
    BY <1>1
  <2>3. QED BY <1>1, <1>2, <2>1, <2>2, LowRuns DEF E, low
<1>13. Runs(w, low, E + (d + 2 + Width), n - d)
  <2>1. ASSUME NEW j \in 1 .. n - d
        PROVE  t[j] = DrBit(c, d + 2 + Width + j) /\ FALSE = Keeps(c, d + 2 + Width + j)
    <3> DEFINE g == d + 2 + Width + j
    <3>1. g \in Nat /\ g > d + 2 /\ ~(g <= d + 2 + Width)
      BY <1>1
    <3> HIDE DEF g
    <3>2. DrBit(c, g) = s[Width] /\ FALSE = Keeps(c, g)
      BY <1>5, <3>1
    <3>3. QED BY <1>3, <3>2 DEF g
  <2>2. d + 2 + Width \in Nat /\ n - d \in Nat
    BY <1>1
  <2>3. QED BY <1>3, <2>1, <2>2, LowRuns DEF E, low
<1> HIDE DEF u, v, w, x, i
<1>14. Runs(v \o w, low, E + (d + 2), Width + (n - d))
  <2>1. E + (d + 2) \in Nat /\ n - d \in Nat /\ E + (d + 2 + Width) = E + (d + 2) + Width
    BY <1>1
  <2>2. QED BY <1>1, <1>12, <1>13, <2>1, RunsJoined
<1> DEFINE z == Jtag!Leaving(v \o w)
<1>15. Runs(z, plan, E + (d + 2), Width + (n - d))
  <2>1. d + 2 \in Nat /\ Width + (n - d) \in Nat /\ Width + (n - d) >= 1
        /\ (d + 2) + (Width + (n - d)) = Shifts(chain, c)
    BY <1>1, <1>5
  <2>2. QED BY <1>14, <2>1, LowLeaves DEF E, plan, low
<1> HIDE DEF z
<1>16. Runs(x \o u, plan, T + 6, d + 5)
  <2>1. T + 6 \in Nat /\ d + 2 \in Nat /\ 3 \in Nat /\ E + k = T + 6 + (d + 2) /\ d + 5 = (d + 2) + 3
    BY <1>1
  <2>2. QED BY <1>7, <1>11, <2>1, RunsJoined
<1>17. Runs((x \o u) \o z, plan, T + 6, 5 + Width + n)
  <2>1. T + 6 \in Nat /\ d + 5 \in Nat /\ Width + (n - d) \in Nat /\ E + (d + 2) = T + 6 + (d + 5)
        /\ 5 + Width + n = (d + 5) + (Width + (n - d))
    BY <1>1
  <2>2. QED BY <1>15, <1>16, <2>1, RunsJoined
<1>18. Runs(((x \o u) \o z) \o Jtag!Finish, plan, T + 6, 7 + Width + n)
  <2>1. T + 6 \in Nat /\ 5 + Width + n \in Nat /\ 2 \in Nat
        /\ E + (n + 2 + Width) = T + 6 + (5 + Width + n) /\ 7 + Width + n = (5 + Width + n) + 2
    BY <1>1
  <2>2. QED BY <1>9, <1>17, <2>1, RunsJoined
<1>19. Runs(i \o (((x \o u) \o z) \o Jtag!Finish), plan, 0, E + (n + 2 + Width) + 2)
  <2>1. 0 \in Nat /\ T + 6 \in Nat /\ 7 + Width + n \in Nat /\ T + 6 = 0 + (T + 6)
        /\ E + (n + 2 + Width) + 2 = (T + 6) + (7 + Width + n)
    BY <1>1
  <2>2. QED BY <1>6, <1>18, <2>1, RunsJoined
<1>20. QED BY <1>8, <1>10, <1>19 DEF i, d, plan, s, z

LEMMA TransferRuns ==
  ASSUME NEW c, Addressable(c), c.kind = "transfer"
  PROVE  Runs(Jtag!JtagIr(c.port, c.dev) \o Jtag!Before(c.dev) \o Jtag!Acknowledged(c.request),
              Moves(chain, c), 0, Known(chain, c, 0))
<1> DEFINE T == IrBits(chain)
           E == Entry(chain)
           d == c.dev
           plan == Moves(chain, c)
           r == c.request
           x == Jtag!Before(d)
           u == Jtag!Shift(r, TRUE)
           i == Jtag!JtagIr(c.port, d)
           k == d - 1
<1>1. T \in Nat /\ E = T + 9 /\ d \in Nat \ {0} /\ Width \in Nat /\ Width >= 1
  BY Places
<1>2. r \in Seq({0, 1}) /\ Len(r) = 3
  <2>1. r = <<1, 0, 1>> \/ r = <<0, 1, 0>>
    BY CommandKinds DEF Addressable
  <2>2. 0 \in {0, 1} /\ 1 \in {0, 1}
    OBVIOUS
  <2>3. CASE r = <<1, 0, 1>>
    BY <2>2, <2>3, FewBits
  <2>4. CASE r = <<0, 1, 0>>
    BY <2>2, <2>4, FewBits
  <2>5. QED BY <2>1, <2>3, <2>4
<1>3. \A j \in d .. d + 2 : DrBit(c, j) = r[j - d + 1] /\ Keeps(c, j) = TRUE
  BY BitsOf
<1>4. Shifts(chain, c) \in Nat /\ Shifts(chain, c) >= d + 3
  BY ShiftsAre
<1>6. Runs(i, plan, 0, T + 6)
  BY IrRuns DEF Name
<1>7. Runs(x, plan, T + 6, d + 2)
  BY BeforeRuns
<1>8. Known(chain, c, 0) = E + d + 2
  BY DEF Known, AckAt
<1> HIDE DEF T, E, d, plan, r
<1>9. Runs(u, plan, E + k, 3)
  <2>1. ASSUME NEW j \in 1 .. 3 PROVE r[j] = DrBit(c, k + j) /\ TRUE = Keeps(c, k + j)
    <3>1. k + j \in d .. d + 2 /\ (k + j) - d + 1 = j
      BY <1>1
    <3> HIDE DEF k
    <3>2. QED BY <1>3, <3>1
  <2>2. k \in Nat /\ k + 3 < Shifts(chain, c) /\ 3 \in Nat
    BY <1>1, <1>4
  <2> HIDE DEF k
  <2>3. Runs(u, Low(c), E + k, 3)
    BY <1>2, <2>1, <2>2, LowRuns DEF E
  <2>4. QED BY <2>2, <2>3, LowStays DEF E, plan
<1>10. Jtag!Acknowledged(r) = u
  BY DEF Jtag!Acknowledged
<1> HIDE DEF u, x, i
<1>11. Runs(i \o x, plan, 0, T + d + 8)
  <2>1. 0 \in Nat /\ T + 6 \in Nat /\ d + 2 \in Nat /\ T + 6 = 0 + (T + 6) /\ T + d + 8 = (T + 6) + (d + 2)
    BY <1>1
  <2>2. QED BY <1>6, <1>7, <2>1, RunsJoined
<1>12. Runs((i \o x) \o u, plan, 0, E + d + 2)
  <2>1. 0 \in Nat /\ T + d + 8 \in Nat /\ 3 \in Nat /\ E + k = 0 + (T + d + 8)
        /\ E + d + 2 = (T + d + 8) + 3
    BY <1>1
  <2>2. QED BY <1>9, <1>11, <2>1, RunsJoined
<1>13. QED BY <1>8, <1>10, <1>12 DEF i, x, d, plan, r

LEMMA RestRuns ==
  ASSUME NEW c, Addressable(c), c.kind = "transfer", NEW r \in {1, 2}, r = 1 <=> ~c.wait
  PROVE  Runs((IF r = 1 THEN Jtag!Data(c) ELSE Jtag!Tms(<<1>>)) \o Jtag!Finish \o Jtag!Idle(c.idle),
              Moves(chain, c), AckAt(chain, c), Known(chain, c, r) - AckAt(chain, c))
<1> DEFINE T == IrBits(chain)
           E == Entry(chain)
           d == c.dev
           n == Len(chain)
           S == Shifts(chain, c)
           plan == Moves(chain, c)
           low == Low(c)
           x == IF r = 1 THEN Jtag!Data(c) ELSE Jtag!Tms(<<1>>)
           o == Jtag!Idle(c.idle)
<1>1. E \in Nat /\ d \in 1 .. n /\ n \in Nat /\ Width \in Nat /\ Width >= 1
  BY Places
<1>2. c.idle \in Nat /\ c.wait \in BOOLEAN
  BY CommandKinds, ChainFacts DEF Addressable
<1>3. S \in Nat /\ S = IF c.wait THEN d + 3 ELSE n + 2 + Width
  BY BitsOf, ShiftsAre
<1>4. Runs(Jtag!Finish, plan, E + S, 2) /\ Runs(o, plan, E + S + 2, c.idle)
  BY <1>2, ClosingRuns
<1>5. AckAt(chain, c) = E + d + 2 /\ Known(chain, c, r) = E + S + 2 + c.idle
  BY DEF AckAt, Known
<1>6. CASE r = 2
  <2>1. S = d + 3 /\ x = Jtag!Tms(<<1>>) /\ c.wait
    BY <1>2, <1>3, <1>6
  <2>2. DrBit(c, S) = 1 /\ Keeps(c, S) = FALSE
    <3>1. DrBit(c, d + 3) = 1 /\ \A j \in Nat : j > d + 2 => ~Keeps(c, j)
      BY <2>1, BitsOf
    <3>2. d + 3 \in Nat /\ d + 3 > d + 2
      BY <1>1
    <3>3. ~Keeps(c, d + 3)
      BY <3>1, <3>2
    <3>4. Keeps(c, d + 3) \in BOOLEAN
      BY CommandKinds DEF Keeps, Addressable
    <3>5. QED BY <2>1, <3>1, <3>3, <3>4
  <2>3. plan[E + S - 1] = Cycle(1, 1, FALSE)
    <3>1. \A j \in 1 .. S : plan[E + j - 1] = Cycle(IF j = S THEN 1 ELSE 0, DrBit(c, j), Keeps(c, j))
      BY MovesAre
    <3>2. S \in 1 .. S
      BY <1>1, <2>1
    <3> HIDE DEF S, plan
    <3>3. QED BY <2>2, <3>1, <3>2
  <2> HIDE DEF S, plan, E, d, n
  <2>4. Runs(x, plan, E + d + 2, 1)
    <3> DEFINE b == <<1>>
    <3>1. b \in Seq({0, 1}) /\ Len(b) = 1 /\ b[1] = 1
      BY FewBits
    <3> HIDE DEF b
    <3>2. ASSUME NEW i \in 1 .. 1 PROVE plan[E + d + 2 + i - 1] = [tms |-> b[i], tdi |-> 1, in |-> FALSE]
      <4>1. i = 1 /\ E + d + 2 + i - 1 = E + S - 1
        BY <1>1, <2>1
      <4>2. QED BY <2>3, <3>1, <4>1 DEF Cycle
    <3>3. E + d + 2 \in Nat /\ 1 \in Nat
      BY <1>1
    <3>4. Runs(Jtag!Tms(b), plan, E + d + 2, 1)
      BY <3>1, <3>2, <3>3, TmsRuns
    <3>5. QED BY <2>1, <3>4 DEF b
  <2> HIDE DEF x, o
  <2>5. Runs(x \o Jtag!Finish, plan, E + d + 2, 3)
    <3>1. E + d + 2 \in Nat /\ 1 \in Nat /\ 2 \in Nat /\ E + S = E + d + 2 + 1 /\ 3 = 1 + 2
      BY <1>1, <2>1
    <3>2. QED BY <1>4, <2>4, <3>1, RunsJoined
  <2>6. Runs((x \o Jtag!Finish) \o o, plan, E + d + 2, (E + S + 2 + c.idle) - (E + d + 2))
    <3>1. E + d + 2 \in Nat /\ 3 \in Nat /\ E + S + 2 = E + d + 2 + 3
          /\ (E + S + 2 + c.idle) - (E + d + 2) = 3 + c.idle
      BY <1>1, <1>2, <2>1
    <3>2. QED BY <1>2, <1>4, <2>5, <3>1, RunsJoined
  <2>7. QED BY <1>5, <2>6 DEF x, o, plan, E, d, S
<1>7. CASE r = 1
  <2> DEFINE reads == c.request[1] = 1
             z == IF reads THEN c.request[3] ELSE c.data[Width]
             s == IF reads THEN Jtag!Same(c.request[3], Width) ELSE c.data
             t == Jtag!Same(z, n - d)
             v == IF reads THEN Jtag!Shift(Jtag!Same(c.request[3], Width), TRUE)
                  ELSE Jtag!Shift(c.data, FALSE)
             w == Jtag!Shift(t, FALSE)
  <2>1. S = n + 2 + Width /\ ~c.wait
    BY <1>2, <1>3, <1>7
  <2>2. c.data \in [1 .. Width -> {0, 1}] /\ c.request[3] \in {0, 1}
    <3>1. c.request = <<1, 0, 1>> \/ c.request = <<0, 1, 0>>
      BY CommandKinds DEF Addressable
    <3>2. c.data \in [1 .. Width -> {0, 1}]
      BY CommandKinds DEF Addressable
    <3>3. QED BY <3>1, <3>2
  <2>3. s \in Seq({0, 1}) /\ Len(s) = Width
    <3>1. Jtag!Same(c.request[3], Width) \in Seq({0, 1}) /\ Len(Jtag!Same(c.request[3], Width)) = Width
      BY <1>1, <2>2, SameIs
    <3>2. c.data \in Seq({0, 1}) /\ Len(c.data) = Width
      BY <1>1, <2>2, FunctionIsSeq
    <3>3. QED BY <3>1, <3>2
  <2>4. z \in {0, 1} /\ n - d \in Nat
    BY <1>1, <2>2
  <2>5. t \in Seq({0, 1}) /\ Len(t) = n - d /\ \A j \in 1 .. n - d : t[j] = z
    <3> HIDE DEF z
    <3>1. QED BY <2>4, SameIs
  <2>6. ASSUME NEW j \in Nat, j > d + 2
        PROVE  /\ DrBit(c, j) = IF j <= d + 2 + Width THEN s[j - d - 2] ELSE z
               /\ Keeps(c, j) = (reads /\ j <= d + 2 + Width)
    <3>1. /\ Keeps(c, j) <=> reads /\ j <= d + 2 + Width
          /\ DrBit(c, j) = IF reads THEN c.request[3]
                           ELSE c.data[IF j <= d + 2 + Width THEN j - d - 2 ELSE Width]
      BY <2>1, <2>6, BitsOf
    <3>2. Keeps(c, j) \in BOOLEAN
      BY CommandKinds DEF Keeps, Addressable
    <3>3. j <= d + 2 + Width /\ reads => s[j - d - 2] = c.request[3]
      <4> SUFFICES ASSUME j <= d + 2 + Width, reads PROVE s[j - d - 2] = c.request[3]
        OBVIOUS
      <4>1. j - d - 2 \in 1 .. Width /\ s = Jtag!Same(c.request[3], Width)
        BY <1>1, <2>6
      <4>2. QED BY <1>1, <2>2, <4>1, SameIs
    <3>4. Keeps(c, j) = (reads /\ j <= d + 2 + Width)
      BY <3>1, <3>2
    <3>5. ASSUME reads PROVE DrBit(c, j) = IF j <= d + 2 + Width THEN s[j - d - 2] ELSE z
      BY <3>1, <3>3, <3>5
    <3>6. ASSUME ~reads PROVE DrBit(c, j) = IF j <= d + 2 + Width THEN s[j - d - 2] ELSE z
      BY <3>1, <3>6
    <3>7. DrBit(c, j) = IF j <= d + 2 + Width THEN s[j - d - 2] ELSE z
      BY <3>5, <3>6
    <3>8. QED BY <3>4, <3>7
  <2>7. v = Jtag!Shift(s, reads) /\ reads \in BOOLEAN
    OBVIOUS
  <2>8. x = Jtag!Leaving(v \o w)
    <3>1. x = Jtag!Data(c)
      BY <1>7
    <3>2. Jtag!Data(c) = Jtag!Leaving(v \o w)
      BY DEF Jtag!Data, Jtag!After, Width
    <3>3. QED BY <3>1, <3>2
  <2> HIDE DEF S, plan, E, d, n, low, s, z, t, reads
  <2>9. Runs(Jtag!Shift(s, reads), low, E + (d + 2), Width)
    <3>1. ASSUME NEW j \in 1 .. Width PROVE s[j] = DrBit(c, d + 2 + j) /\ reads = Keeps(c, d + 2 + j)
      <4> DEFINE g == d + 2 + j
      <4>1. g \in Nat /\ g > d + 2 /\ g <= d + 2 + Width /\ g - d - 2 = j
        BY <1>1
      <4> HIDE DEF g
      <4>2. DrBit(c, g) = s[g - d - 2]
        BY <2>6, <4>1
      <4>3. Keeps(c, g) = reads
        <5>1. Keeps(c, g) = (reads /\ g <= d + 2 + Width)
          BY <2>6, <4>1
        <5>2. QED BY <2>7, <4>1, <5>1
      <4>4. QED BY <4>1, <4>2, <4>3 DEF g
    <3>2. d + 2 \in Nat
      BY <1>1
    <3>3. QED BY <1>1, <2>3, <2>7, <3>1, <3>2, LowRuns DEF E, low
  <2>10. Runs(w, low, E + (d + 2 + Width), n - d)
    <3>1. ASSUME NEW j \in 1 .. n - d
          PROVE  t[j] = DrBit(c, d + 2 + Width + j) /\ FALSE = Keeps(c, d + 2 + Width + j)
      <4> DEFINE g == d + 2 + Width + j
      <4>1. g \in Nat /\ g > d + 2 /\ ~(g <= d + 2 + Width)
        BY <1>1
      <4> HIDE DEF g
      <4>2. DrBit(c, g) = z
        BY <2>6, <4>1
      <4>3. FALSE = Keeps(c, g)
        <5>1. Keeps(c, g) = (reads /\ g <= d + 2 + Width)
          BY <2>6, <4>1
        <5>2. QED BY <4>1, <5>1
      <4>4. QED BY <2>5, <4>2, <4>3 DEF g
    <3>2. d + 2 + Width \in Nat /\ n - d \in Nat
      BY <1>1
    <3>3. QED BY <2>5, <3>1, <3>2, LowRuns DEF E, low
  <2>11. Runs(v, low, E + (d + 2), Width)
    <3> HIDE DEF v
    <3>1. QED BY <2>7, <2>9
  <2> HIDE DEF v, w, x, o
  <2>12. Runs(v \o w, low, E + (d + 2), Width + (n - d))
    <3>1. E + (d + 2) \in Nat /\ n - d \in Nat /\ E + (d + 2 + Width) = E + (d + 2) + Width
      BY <1>1
    <3>2. QED BY <1>1, <2>10, <2>11, <3>1, RunsJoined
  <2>13. Runs(x, plan, E + (d + 2), Width + (n - d))
    <3>1. d + 2 \in Nat /\ Width + (n - d) \in Nat /\ Width + (n - d) >= 1
          /\ (d + 2) + (Width + (n - d)) = S
      BY <1>1, <2>1
    <3> DEFINE y == v \o w
    <3>2. Runs(y, Low(c), Entry(chain) + (d + 2), Width + (n - d))
      BY <2>12 DEF E, low
    <3> HIDE DEF y
    <3>3. Runs(Jtag!Leaving(y), Moves(chain, c), Entry(chain) + (d + 2), Width + (n - d))
      BY <3>1, <3>2, LowLeaves DEF S
    <3>4. QED BY <2>8, <3>3 DEF E, plan, y
  <2>14. Runs(x \o Jtag!Finish, plan, E + d + 2, Width + (n - d) + 2)
    <3>1. E + d + 2 \in Nat /\ Width + (n - d) \in Nat /\ 2 \in Nat /\ E + d + 2 = E + (d + 2)
          /\ E + S = E + d + 2 + (Width + (n - d))
      BY <1>1, <2>1
    <3>2. QED BY <1>4, <2>13, <3>1, RunsJoined
  <2>15. Runs((x \o Jtag!Finish) \o o, plan, E + d + 2, (E + S + 2 + c.idle) - (E + d + 2))
    <3>1. E + d + 2 \in Nat /\ Width + (n - d) + 2 \in Nat
          /\ E + S + 2 = E + d + 2 + (Width + (n - d) + 2)
          /\ (E + S + 2 + c.idle) - (E + d + 2) = (Width + (n - d) + 2) + c.idle
      BY <1>1, <1>2, <2>1
    <3>2. QED BY <1>2, <1>4, <2>14, <3>1, RunsJoined
  <2>16. QED BY <1>5, <2>15 DEF x, o, plan, E, d, S
<1>8. QED BY <1>6, <1>7

-----------------------------------------------------------------------------
(* Where an element of one of several sequences is in all of them joined.    *)

\* The beginnings of q joined together, one longer than the other.
Joins(g, q, n) == g = [i \in 1 .. n |-> IF i = 1 THEN q[i] ELSE g[i - 1] \o q[i]]

LEMMA JoinsAt ==
  ASSUME NEW q, NEW n \in Nat, NEW g, Joins(g, q, n), NEW i \in 1 .. n
  PROVE  g[i] = IF i = 1 THEN q[i] ELSE g[i - 1] \o q[i]
<1>1. PICK h : h = g
  OBVIOUS
<1>2. h = [j \in 1 .. n |-> IF j = 1 THEN q[j] ELSE g[j - 1] \o q[j]]
  BY <1>1, Zenon DEF Joins
<1>3. h[i] = IF i = 1 THEN q[i] ELSE g[i - 1] \o q[i]
  BY <1>2, Zenon
<1>4. QED BY <1>1, <1>3, Zenon

LEMMA JoinsExist == ASSUME NEW q, NEW n \in Nat PROVE \E g : Joins(g, q, n)
<1> DEFINE S == {m \in Nat : \E g : Joins(g, q, m)}
<1>1. 0 \in S
  <2>1. Joins([i \in {} |-> 0], q, 0)
    BY DEF Joins
  <2>2. QED BY <2>1
<1>2. ASSUME NEW m \in Nat, m \in S PROVE m + 1 \in S
  <2>1. PICK g : Joins(g, q, m)
    BY <1>2
  <2> DEFINE h == [i \in 1 .. m + 1 |-> IF i <= m THEN g[i]
                                        ELSE IF i = 1 THEN q[1] ELSE g[m] \o q[i]]
  <2>2. ASSUME NEW i \in 1 .. m + 1 PROVE h[i] = IF i = 1 THEN q[i] ELSE h[i - 1] \o q[i]
    <3>1. CASE i <= m
      <4>1. g[i] = IF i = 1 THEN q[i] ELSE g[i - 1] \o q[i]
        BY <2>1, <3>1, JoinsAt
      <4>2. h[i] = g[i] /\ (i # 1 => h[i - 1] = g[i - 1])
        BY <3>1
      <4>3. QED BY <4>1, <4>2
    <3>2. CASE i = m + 1
      <4>1. i # 1 => h[i - 1] = g[m]
        BY <3>2
      <4>2. QED BY <3>2, <4>1
    <3>3. QED BY <3>1, <3>2
  <2>3. Joins(h, q, m + 1)
    <3>1. h = [i \in 1 .. m + 1 |-> h[i]]
      OBVIOUS
    <3> HIDE DEF h
    <3>2. QED BY <2>2, <3>1 DEF Joins
  <2>4. QED BY <2>3
<1>3. Nat \subseteq S
  <2> HIDE DEF S
  <2>1. QED BY <1>1, <1>2, SetInduction
<1>4. QED BY <1>3

JoinStep(g, q, k) == g[k + 1] = g[k] \o q[k + 1]

LEMMA JoinsNext ==
  ASSUME NEW q, NEW n \in Nat, NEW g, Joins(g, q, n), NEW k, k + 1 \in 1 .. n, k \in Nat, k # 0
  PROVE  JoinStep(g, q, k)
<1>1. PICK h : h = g
  OBVIOUS
<1>2. h = [j \in 1 .. n |-> IF j = 1 THEN q[j] ELSE g[j - 1] \o q[j]]
  BY <1>1, Zenon DEF Joins
<1>3. h[k + 1] = IF k + 1 = 1 THEN q[k + 1] ELSE g[(k + 1) - 1] \o q[k + 1]
  BY <1>2, Zenon
<1>4. k + 1 # 1 /\ (k + 1) - 1 = k
  OBVIOUS
<1>5. QED BY <1>1, <1>3, <1>4 DEF JoinStep

LEMMA FlattenIsJoined ==
  ASSUME NEW q, Len(q) \in Nat \ {0}
  PROVE  \E g : Joins(g, q, Len(q)) /\ Jtag!FlattenSeq(q) = g[Len(q)]
<1> DEFINE g == CHOOSE g : g = [i \in 1 .. Len(q) |-> IF i = 1 THEN q[i] ELSE g[i - 1] \o q[i]]
<1>1. Jtag!FlattenSeq(q) = g[Len(q)]
  BY DEF Jtag!FlattenSeq
<1>2. Joins(g, q, Len(q))
  <2>1. \E f : f = [i \in 1 .. Len(q) |-> IF i = 1 THEN q[i] ELSE f[i - 1] \o q[i]]
    BY JoinsExist DEF Joins
  <2>2. QED BY <2>1 DEF Joins
<1>3. QED BY <1>1, <1>2

\* The first k sequences of q joined are f, where h has the sums of their lengths.
Placed(f, q, h, k, D) ==
  /\ f \in Seq(D) /\ Len(f) = h[k]
  /\ \A i \in 1 .. k : \A j \in 1 .. Len(q[i]) : f[h[i - 1] + j] = q[i][j]

LEMMA PlacedNext ==
  ASSUME NEW D, NEW q, NEW h, NEW n \in Nat, NEW k \in Nat, k + 1 <= n,
         Sums(h, [i \in 1 .. n |-> Len(q[i])], n), \A i \in 0 .. n : h[i] \in Nat,
         \A i \in 1 .. n : q[i] \in Seq(D), NEW f, Placed(f, q, h, k, D)
  PROVE  Placed(f \o q[k + 1], q, h, k + 1, D)
<1> DEFINE l == [i \in 1 .. n |-> Len(q[i])]
           t == q[k + 1]
           m == h[k]
<1>1. k + 1 \in 1 .. n /\ k \in 0 .. n /\ (k + 1) - 1 = k
  OBVIOUS
<1>2. t \in Seq(D) /\ f \in Seq(D) /\ Len(f) = m /\ m \in Nat
  BY <1>1 DEF Placed
<1>3. Sums(h, l, n)
  OBVIOUS
<1>4. h[k + 1] = m + Len(t)
  <2>1. l[k + 1] = Len(t)
    BY <1>1
  <2> HIDE DEF l, t
  <2>2. h[k + 1] = h[(k + 1) - 1] + l[k + 1]
    BY <1>1, <1>3 DEF Sums
  <2>3. QED BY <1>1, <2>1, <2>2
<1>5. \A i \in 1 .. k : \A j \in 1 .. Len(q[i]) : h[i - 1] + j \in 1 .. m
  <2> SUFFICES ASSUME NEW i \in 1 .. k, NEW j \in 1 .. Len(q[i]) PROVE h[i - 1] + j \in 1 .. m
    OBVIOUS
  <2>1. \A a \in Nat : i <= a /\ a <= n => h[i] <= h[a]
    <3> DEFINE S == {a \in Nat : i <= a /\ a <= n => h[i] <= h[a]}
    <3>1. 0 \in S
      OBVIOUS
    <3>2. ASSUME NEW a \in Nat, a \in S PROVE a + 1 \in S
      <4> SUFFICES ASSUME i <= a + 1, a + 1 <= n PROVE h[i] <= h[a + 1]
        OBVIOUS
      <4>1. i \in 0 .. n /\ a + 1 \in 1 .. n /\ a + 1 \in 0 .. n /\ a \in 0 .. n /\ (a + 1) - 1 = a
        OBVIOUS
      <4>2. h[i] \in Nat /\ h[a] \in Nat /\ h[a + 1] \in Nat
        BY <4>1
      <4>3. h[a + 1] = h[a] + l[a + 1] /\ l[a + 1] = Len(q[a + 1]) /\ q[a + 1] \in Seq(D)
        <5>1. l[a + 1] = Len(q[a + 1]) /\ q[a + 1] \in Seq(D)
          BY <4>1
        <5> HIDE DEF l
        <5>2. h[a + 1] = h[a] + l[a + 1]
          BY <1>3, <4>1 DEF Sums
        <5>3. QED BY <5>1, <5>2
      <4>4. Len(q[a + 1]) \in Nat
        BY <4>3, LenProperties
      <4>5. CASE i = a + 1
        BY <4>2, <4>5
      <4>6. CASE i # a + 1
        <5>1. h[i] <= h[a]
          BY <3>2, <4>6
        <5>2. QED BY <4>2, <4>3, <4>4, <5>1
      <4>7. QED BY <4>5, <4>6
    <3>3. Nat \subseteq S
      <4> HIDE DEF S
      <4>1. QED BY <3>1, <3>2, SetInduction
    <3>4. QED BY <3>3
  <2>2. i \in 1 .. n /\ i - 1 \in 0 .. n /\ i \in 0 .. n /\ i <= k /\ k <= n
    OBVIOUS
  <2>3. h[i] = h[i - 1] + Len(q[i])
    <3>1. l[i] = Len(q[i])
      BY <2>2
    <3> HIDE DEF l
    <3>2. h[i] = h[i - 1] + l[i]
      BY <1>3, <2>2 DEF Sums
    <3>3. QED BY <3>1, <3>2
  <2>4. q[i] \in Seq(D)
    BY <2>2
  <2>5. Len(q[i]) \in Nat
    BY <2>4, LenProperties
  <2>6. h[i] <= m /\ h[i - 1] \in Nat
    BY <2>1, <2>2
  <2> DEFINE a == h[i - 1]
             b == Len(q[i])
             e == h[i]
  <2>7. a \in Nat /\ b \in Nat /\ e = a + b /\ e <= m /\ j \in 1 .. b
    BY <2>3, <2>5, <2>6
  <2> HIDE DEF a, b, e, m
  <2>8. a + j \in 1 .. m
    BY <1>2, <2>7
  <2>9. QED BY <2>8 DEF a
<1> HIDE DEF t
<1>6. f \o t \in Seq(D) /\ Joint(f, t, m, Len(t))
  BY <1>2, Joining
<1>7. ASSUME NEW i \in 1 .. k + 1, NEW j \in 1 .. Len(q[i]) PROVE (f \o t)[h[i - 1] + j] = q[i][j]
  <2>1. CASE i \in 1 .. k
    <3>1. f[h[i - 1] + j] = q[i][j]
      BY <2>1 DEF Placed
    <3>2. h[i - 1] + j \in 1 .. m
      BY <1>5, <2>1
    <3> HIDE DEF m
    <3>3. (f \o t)[h[i - 1] + j] = f[h[i - 1] + j]
      BY <1>6, <3>2 DEF Joint
    <3>4. QED BY <3>1, <3>3
  <2>2. CASE i = k + 1
    <3>1. q[i] = t /\ h[i - 1] = m
      BY <1>1, <2>2 DEF t
    <3> HIDE DEF m
    <3>2. (f \o t)[m + j] = t[j]
      BY <1>6, <3>1 DEF Joint
    <3>3. QED BY <3>1, <3>2
  <2>3. i \in 1 .. k \/ i = k + 1
    OBVIOUS
  <2>4. QED BY <2>1, <2>2, <2>3
<1>8. Len(f \o t) = h[k + 1]
  BY <1>4, <1>6 DEF Joint
<1>9. QED BY <1>6, <1>7, <1>8 DEF Placed, t

LEMMA FlattenPlaced ==
  ASSUME NEW D, NEW q, NEW h, NEW n \in Nat \ {0}, Len(q) = n,
         Sums(h, [i \in 1 .. n |-> Len(q[i])], n), \A i \in 0 .. n : h[i] \in Nat,
         \A i \in 1 .. n : q[i] \in Seq(D)
  PROVE  Placed(Jtag!FlattenSeq(q), q, h, n, D)
<1>1. PICK g : Joins(g, q, n) /\ Jtag!FlattenSeq(q) = g[n]
  BY FlattenIsJoined
<1> DEFINE S == {k \in Nat : k + 1 <= n => Placed(g[k + 1], q, h, k + 1, D)}
<1>2. 0 \in S
  <2>1. 1 \in 1 .. n /\ 0 + 1 = 1 /\ 0 \in Nat /\ 0 + 1 <= n
    OBVIOUS
  <2>2. g[1] = q[1] /\ q[1] \in Seq(D)
    BY <1>1, <2>1, JoinsAt
  <2>3. Placed(<<>>, q, h, 0, D)
    <3>1. h[0] = 0
      BY DEF Sums
    <3>2. QED BY <3>1 DEF Placed
  <2>4. Placed(<<>> \o q[0 + 1], q, h, 0 + 1, D)
    BY <2>1, <2>3, PlacedNext
  <2>5. <<>> \o q[0 + 1] = g[0 + 1]
    <3>1. \A s \in Seq(D) : <<>> \o s = s
      OBVIOUS
    <3>2. QED BY <2>1, <2>2, <3>1
  <2>6. QED BY <2>4, <2>5
<1>3. ASSUME NEW k \in Nat, k \in S PROVE k + 1 \in S
  <2> SUFFICES ASSUME (k + 1) + 1 <= n PROVE Placed(g[(k + 1) + 1], q, h, (k + 1) + 1, D)
    OBVIOUS
  <2> DEFINE i == k + 1
  <2>1. i \in Nat /\ i + 1 \in 1 .. n /\ i + 1 # 1 /\ (i + 1) - 1 = i /\ i + 1 <= n /\ i <= n
        /\ n \in Nat
    OBVIOUS
  <2>2. Placed(g[i], q, h, i, D)
    BY <1>3, <2>1
  <2> HIDE DEF i
  <2>3. g[i + 1] = g[i] \o q[i + 1]
    <3>1. i # 0 /\ n \in Nat
      BY <2>1
    <3>2. JoinStep(g, q, i)
      BY <1>1, <2>1, <3>1, JoinsNext
    <3>3. QED BY <3>2 DEF JoinStep
  <2>4. Placed(g[i] \o q[i + 1], q, h, i + 1, D)
    BY <2>1, <2>2, PlacedNext
  <2>5. QED BY <2>3, <2>4 DEF i
<1>4. Nat \subseteq S
  <2> HIDE DEF S
  <2>1. QED BY <1>2, <1>3, SetInduction
<1>5. n - 1 \in Nat /\ (n - 1) + 1 = n /\ (n - 1) + 1 <= n
  OBVIOUS
<1>6. Placed(g[(n - 1) + 1], q, h, (n - 1) + 1, D)
  BY <1>4, <1>5
<1>7. QED BY <1>1, <1>5, <1>6

-----------------------------------------------------------------------------
(* One cycle of a scan.                                                      *)

LEMMA TapMoves ==
  ASSUME NEW c, Addressable(c), NEW p \in Nat
  PROVE  /\ Jtag!Tap[TapAt(chain, c, p)][Moves(chain, c)[p].tms + 1] = TapAt(chain, c, p + 1)
         /\ TapAt(chain, c, p) \in DOMAIN Jtag!Tap
<1> DEFINE T == IrBits(chain)
           E == Entry(chain)
           S == Shifts(chain, c)
           m == Moves(chain, c)[p].tms
           a == TapAt(chain, c, p)
           b == TapAt(chain, c, p + 1)
<1>1. T \in Nat /\ T >= 4 /\ E = T + 9 /\ S \in Nat /\ S >= 1
  BY Places, ShiftsAre
<1>2. \A q : TapAt(chain, c, q) =
        IF q < T + 6
        THEN (IF q = 0 THEN "idle" ELSE IF q = 1 THEN "selectDr" ELSE IF q = 2 THEN "selectIr"
              ELSE IF q = 3 THEN "captureIr" ELSE IF q < T + 4 THEN "shiftIr"
              ELSE IF q = T + 4 THEN "exit1Ir" ELSE "updateIr")
        ELSE IF q < E
        THEN (IF q = T + 6 THEN "idle" ELSE IF q = T + 7 THEN "selectDr" ELSE "captureDr")
        ELSE IF q < E + S THEN "shiftDr"
        ELSE IF q = E + S THEN "exit1Dr" ELSE IF q = E + S + 1 THEN "updateDr" ELSE "idle"
  BY DEF TapAt
<1>3. Moves(chain, c)[p] =
          IF p < 4 THEN Cycle(IF p < 2 THEN 1 ELSE 0, 1, FALSE)
          ELSE IF p < T + 4 THEN Cycle(IF p = T + 3 THEN 1 ELSE 0, IrBit(chain, c, p - 3), FALSE)
          ELSE IF p < E THEN Cycle(IF p \in {T + 4, T + 6} THEN 1 ELSE 0, 1, FALSE)
          ELSE IF p < E + S THEN Cycle(IF p = E + S - 1 THEN 1 ELSE 0, DrBit(c, p - E + 1), Keeps(c, p - E + 1))
          ELSE Cycle(IF p = E + S THEN 1 ELSE 0, 1, FALSE)
  BY DEF Moves
<1>5. m = IF p < 4 THEN (IF p < 2 THEN 1 ELSE 0)
          ELSE IF p < T + 4 THEN (IF p = T + 3 THEN 1 ELSE 0)
          ELSE IF p < E THEN (IF p \in {T + 4, T + 6} THEN 1 ELSE 0)
          ELSE IF p < E + S THEN (IF p = E + S - 1 THEN 1 ELSE 0)
          ELSE (IF p = E + S THEN 1 ELSE 0)
  <2> DEFINE y == Moves(chain, c)[p]
  <2> HIDE DEF T, E, S
  <2>1. ASSUME p < 4
        PROVE  y.tms = IF p < 2 THEN 1 ELSE 0
    <3>1. y = Cycle(IF p < 2 THEN 1 ELSE 0, 1, FALSE)
      BY <1>3, <2>1
    <3> HIDE DEF y
    <3>2. QED BY <3>1 DEF Cycle
  <2>2. ASSUME ~(p < 4), p < T + 4
        PROVE  y.tms = IF p = T + 3 THEN 1 ELSE 0
    <3>1. y = Cycle(IF p = T + 3 THEN 1 ELSE 0, IrBit(chain, c, p - 3), FALSE)
      BY <1>3, <2>2
    <3> HIDE DEF y
    <3>2. QED BY <3>1 DEF Cycle
  <2>3. ASSUME ~(p < 4), ~(p < T + 4), p < E
        PROVE  y.tms = IF p \in {T + 4, T + 6} THEN 1 ELSE 0
    <3>1. y = Cycle(IF p \in {T + 4, T + 6} THEN 1 ELSE 0, 1, FALSE)
      BY <1>3, <2>3
    <3> HIDE DEF y
    <3>2. QED BY <3>1 DEF Cycle
  <2>4. ASSUME ~(p < 4), ~(p < T + 4), ~(p < E), p < E + S
        PROVE  y.tms = IF p = E + S - 1 THEN 1 ELSE 0
    <3>1. y = Cycle(IF p = E + S - 1 THEN 1 ELSE 0, DrBit(c, p - E + 1), Keeps(c, p - E + 1))
      BY <1>3, <2>4
    <3> HIDE DEF y
    <3>2. QED BY <3>1 DEF Cycle
  <2>5. ASSUME ~(p < 4), ~(p < T + 4), ~(p < E), ~(p < E + S)
        PROVE  y.tms = IF p = E + S THEN 1 ELSE 0
    <3>1. y = Cycle(IF p = E + S THEN 1 ELSE 0, 1, FALSE)
      BY <1>3, <2>5
    <3> HIDE DEF y
    <3>2. QED BY <3>1 DEF Cycle
  <2> HIDE DEF y
  <2>6. m = y.tms
    BY DEF y
  <2> HIDE DEF m
  <2>7. QED BY <2>1, <2>2, <2>3, <2>4, <2>5, <2>6
<1>6. /\ Jtag!Tap["idle"] = <<"idle", "selectDr">>
      /\ Jtag!Tap["selectDr"] = <<"captureDr", "selectIr">>
      /\ Jtag!Tap["selectIr"] = <<"captureIr", "reset">>
      /\ Jtag!Tap["captureIr"] = <<"shiftIr", "exit1Ir">>
      /\ Jtag!Tap["shiftIr"] = <<"shiftIr", "exit1Ir">>
      /\ Jtag!Tap["exit1Ir"] = <<"pauseIr", "updateIr">>
      /\ Jtag!Tap["updateIr"] = <<"idle", "selectDr">>
      /\ Jtag!Tap["captureDr"] = <<"shiftDr", "exit1Dr">>
      /\ Jtag!Tap["shiftDr"] = <<"shiftDr", "exit1Dr">>
      /\ Jtag!Tap["exit1Dr"] = <<"pauseDr", "updateDr">>
      /\ Jtag!Tap["updateDr"] = <<"idle", "selectDr">>
  BY DEF Jtag!Tap
<1>7. a \in {"idle", "selectDr", "selectIr", "captureIr", "shiftIr", "exit1Ir", "updateIr",
             "captureDr", "shiftDr", "exit1Dr", "updateDr"}
  <2> HIDE DEF T, E, S
  <2>1. QED BY <1>2
<1>8. a \in DOMAIN Jtag!Tap
  BY <1>7 DEF Jtag!Tap
<1>9. a = IF p < T + 6
        THEN (IF p = 0 THEN "idle" ELSE IF p = 1 THEN "selectDr" ELSE IF p = 2 THEN "selectIr"
              ELSE IF p = 3 THEN "captureIr" ELSE IF p < T + 4 THEN "shiftIr"
              ELSE IF p = T + 4 THEN "exit1Ir" ELSE "updateIr")
        ELSE IF p < E
        THEN (IF p = T + 6 THEN "idle" ELSE IF p = T + 7 THEN "selectDr" ELSE "captureDr")
        ELSE IF p < E + S THEN "shiftDr"
        ELSE IF p = E + S THEN "exit1Dr" ELSE IF p = E + S + 1 THEN "updateDr" ELSE "idle"
  BY <1>2
<1>10. b = IF p + 1 < T + 6
        THEN (IF p + 1 = 0 THEN "idle" ELSE IF p + 1 = 1 THEN "selectDr" ELSE IF p + 1 = 2 THEN "selectIr"
              ELSE IF p + 1 = 3 THEN "captureIr" ELSE IF p + 1 < T + 4 THEN "shiftIr"
              ELSE IF p + 1 = T + 4 THEN "exit1Ir" ELSE "updateIr")
        ELSE IF p + 1 < E
        THEN (IF p + 1 = T + 6 THEN "idle" ELSE IF p + 1 = T + 7 THEN "selectDr" ELSE "captureDr")
        ELSE IF p + 1 < E + S THEN "shiftDr"
        ELSE IF p + 1 = E + S THEN "exit1Dr" ELSE IF p + 1 = E + S + 1 THEN "updateDr" ELSE "idle"
  BY <1>2
<1> HIDE DEF T, E, S, m, a, b
<1>11. Jtag!Tap[a][m + 1] = b
  <2>1. CASE p = 0
    <3>1. a = "idle" /\ m = 1 /\ b = "selectDr" BY <1>1, <1>5, <1>9, <1>10, <2>1
    <3>2. QED BY <1>6, <3>1
  <2>2. CASE p = 1
    <3>1. a = "selectDr" /\ m = 1 /\ b = "selectIr" BY <1>1, <1>5, <1>9, <1>10, <2>2
    <3>2. QED BY <1>6, <3>1
  <2>3. CASE p = 2
    <3>1. a = "selectIr" /\ m = 0 /\ b = "captureIr" BY <1>1, <1>5, <1>9, <1>10, <2>3
    <3>2. QED BY <1>6, <3>1
  <2>4. CASE p = 3
    <3>1. a = "captureIr" /\ m = 0 /\ b = "shiftIr" BY <1>1, <1>5, <1>9, <1>10, <2>4
    <3>2. QED BY <1>6, <3>1
  <2>5. CASE 4 <= p /\ p < T + 3
    <3>1. a = "shiftIr" /\ m = 0 /\ b = "shiftIr" BY <1>1, <1>5, <1>9, <1>10, <2>5
    <3>2. QED BY <1>6, <3>1
  <2>6. CASE p = T + 3
    <3>1. a = "shiftIr" /\ m = 1 /\ b = "exit1Ir" BY <1>1, <1>5, <1>9, <1>10, <2>6
    <3>2. QED BY <1>6, <3>1
  <2>7. CASE p = T + 4
    <3>1. a = "exit1Ir" /\ m = 1 /\ b = "updateIr" BY <1>1, <1>5, <1>9, <1>10, <2>7
    <3>2. QED BY <1>6, <3>1
  <2>8. CASE p = T + 5
    <3>1. a = "updateIr" /\ m = 0 /\ b = "idle" BY <1>1, <1>5, <1>9, <1>10, <2>8
    <3>2. QED BY <1>6, <3>1
  <2>9. CASE p = T + 6
    <3>1. a = "idle" /\ m = 1 /\ b = "selectDr" BY <1>1, <1>5, <1>9, <1>10, <2>9
    <3>2. QED BY <1>6, <3>1
  <2>10. CASE p = T + 7
    <3>1. a = "selectDr" /\ m = 0 /\ b = "captureDr" BY <1>1, <1>5, <1>9, <1>10, <2>10
    <3>2. QED BY <1>6, <3>1
  <2>11. CASE p = T + 8
    <3>1. a = "captureDr" /\ m = 0 /\ b = "shiftDr" BY <1>1, <1>5, <1>9, <1>10, <2>11
    <3>2. QED BY <1>6, <3>1
  <2>12. CASE E <= p /\ p < E + S - 1
    <3>1. a = "shiftDr" /\ m = 0 /\ b = "shiftDr" BY <1>1, <1>5, <1>9, <1>10, <2>12
    <3>2. QED BY <1>6, <3>1
  <2>13. CASE p = E + S - 1
    <3>1. a = "shiftDr" /\ m = 1 /\ b = "exit1Dr" BY <1>1, <1>5, <1>9, <1>10, <2>13
    <3>2. QED BY <1>6, <3>1
  <2>14. CASE p = E + S
    <3>1. a = "exit1Dr" /\ m = 1 /\ b = "updateDr" BY <1>1, <1>5, <1>9, <1>10, <2>14
    <3>2. QED BY <1>6, <3>1
  <2>15. CASE p = E + S + 1
    <3>1. a = "updateDr" /\ m = 0 /\ b = "idle" BY <1>1, <1>5, <1>9, <1>10, <2>15
    <3>2. QED BY <1>6, <3>1
  <2>16. CASE p >= E + S + 2
    <3>1. a = "idle" /\ m = 0 /\ b = "idle" BY <1>1, <1>5, <1>9, <1>10, <2>16
    <3>2. QED BY <1>6, <3>1
  <2>17. p = 0 \/ p = 1 \/ p = 2 \/ p = 3 \/ (4 <= p /\ p < T + 3) \/ p = T + 3 \/ p = T + 4
         \/ p = T + 5 \/ p = T + 6 \/ p = T + 7 \/ p = T + 8 \/ (E <= p /\ p < E + S - 1)
         \/ p = E + S - 1 \/ p = E + S \/ p = E + S + 1 \/ p >= E + S + 2
    BY <1>1
  <2>18. QED
    BY <2>1, <2>2, <2>3, <2>4, <2>5, <2>6, <2>7, <2>8, <2>9, <2>10, <2>11, <2>12, <2>13, <2>14,
       <2>15, <2>16, <2>17
<1>12. QED BY <1>8, <1>11 DEF m, a, b

LEMMA CycleMade ==
  ASSUME JtagTyped, NEW p, Scanned(p), Jtag!Clock
  PROVE  /\ Addressable(cmd) /\ p \in Nat /\ p + 1 \in Nat
         /\ p + 1 \in (IF result = 0 THEN 0 ELSE AckAt(chain, cmd)) .. Known(chain, cmd, result)
         /\ Head(scan) = Moves(chain, cmd)[p]
         /\ Head(scan) \in CycleSet
         /\ scan' \in Seq(CycleSet) /\ Len(scan') = Known(chain, cmd, result) - (p + 1)
         /\ \A i \in 1 .. Len(scan') : scan'[i] = Moves(chain, cmd)[(p + 1) + i - 1]
         /\ tap' = TapAt(chain, cmd, p + 1) /\ tap' \in DOMAIN Jtag!Tap
<1> DEFINE K == Known(chain, cmd, result)
           A == AckAt(chain, cmd)
           plan == Moves(chain, cmd)
<1>1. Addressable(cmd)
  BY DEF JtagTyped, Scanned, Asked, Addressable
<1>2. K \in Nat /\ A \in Nat
  <2>1. /\ Entry(chain) \in Nat /\ Shifts(chain, cmd) \in Nat /\ cmd.dev \in Nat
        /\ cmd.kind = "transfer" => cmd.idle \in Nat
    <3>1. cmd.kind = "transfer" => cmd.idle \in IdleCycles
      BY <1>1, CommandKinds DEF Addressable
    <3>2. IdleCycles \subseteq Nat
      BY ChainFacts
    <3>3. Entry(chain) \in Nat /\ Shifts(chain, cmd) \in Nat /\ cmd.dev \in Nat
      BY <1>1, Places, ShiftsAre
    <3>4. QED BY <3>1, <3>2, <3>3
  <2>2. QED BY <2>1 DEF Known, AckAt
<1>3. scan \in Seq(CycleSet) /\ scan # <<>> /\ scan' = Tail(scan) /\ Jtag!Edge(Head(scan).tms, Head(scan).tdi)
  BY DEF JtagTyped, CycleSet, Jtag!Clock
<1>4. /\ p \in (IF result = 0 THEN 0 ELSE A) .. K /\ Len(scan) = K - p
      /\ \A i \in 1 .. Len(scan) : scan[i] = plan[p + i - 1] /\ tap = TapAt(chain, cmd, p)
  BY DEF Scanned
<1> HIDE DEF K, A, plan
<1>5. Len(scan) \in Nat /\ Len(scan) >= 1 /\ Head(scan) = scan[1] /\ Head(scan) \in CycleSet
  <2>1. Len(scan) \in Nat /\ Len(scan) # 0
    BY <1>3, EmptySeq
  <2>2. QED BY <1>3, <2>1
<1>6. /\ Tail(scan) \in Seq(CycleSet) /\ Len(Tail(scan)) = Len(scan) - 1
      /\ \A i \in 1 .. Len(scan) - 1 : Tail(scan)[i] = scan[i + 1]
  BY <1>3, HeadTailProperties
<1>7. p \in Nat /\ p + 1 <= K
  BY <1>2, <1>4, <1>5
<1>8. Head(scan) = plan[p]
  <2>1. 1 \in 1 .. Len(scan) /\ p + 1 - 1 = p
    BY <1>5, <1>7
  <2>2. QED BY <1>4, <1>5, <2>1
<1>9. Len(scan') = K - (p + 1)
  BY <1>2, <1>3, <1>4, <1>5, <1>6, <1>7
<1>10. ASSUME NEW i \in 1 .. Len(scan') PROVE scan'[i] = plan[(p + 1) + i - 1]
  <2>1. i \in 1 .. Len(scan) - 1 /\ i + 1 \in 1 .. Len(scan) /\ p + (i + 1) - 1 = (p + 1) + i - 1
    BY <1>3, <1>5, <1>6, <1>7
  <2>2. QED BY <1>3, <1>4, <1>6, <2>1
<1>11. tap' = Jtag!Tap[TapAt(chain, cmd, p)][plan[p].tms + 1]
  <2>1. tap' = Jtag!Tap[tap][Head(scan).tms + 1]
    BY <1>3 DEF Jtag!Edge
  <2>2. tap = TapAt(chain, cmd, p)
    BY DEF Scanned
  <2>3. QED BY <1>8, <2>1, <2>2
<1>12. tap' = TapAt(chain, cmd, p + 1)
  BY <1>1, <1>7, <1>11, TapMoves DEF plan
<1>13. p + 1 \in Nat /\ p + 1 \in (IF result = 0 THEN 0 ELSE A) .. K
  BY <1>2, <1>4, <1>7
<1>14. tap' \in DOMAIN Jtag!Tap
  BY <1>1, <1>12, <1>13, TapMoves
<1>15. QED BY <1>1, <1>3, <1>5, <1>6, <1>7, <1>8, <1>9, <1>10, <1>12, <1>13, <1>14 DEF K, A, plan

LEMMA TapKinds ==
  ASSUME NEW c, Addressable(c), NEW p \in Nat
  PROVE  /\ TapAt(chain, c, p) = "captureIr" <=> p = 3
         /\ TapAt(chain, c, p) = "shiftIr" <=> p \in 4 .. IrBits(chain) + 3
         /\ TapAt(chain, c, p) = "updateIr" <=> p = IrBits(chain) + 5
         /\ TapAt(chain, c, p) = "captureDr" <=> p = Entry(chain) - 1
         /\ TapAt(chain, c, p) = "shiftDr" <=> p \in Entry(chain) .. Entry(chain) + Shifts(chain, c) - 1
         /\ TapAt(chain, c, p) = "updateDr" <=> p = Entry(chain) + Shifts(chain, c) + 1
         /\ TapAt(chain, c, p) # "reset"
<1> DEFINE T == IrBits(chain)
           E == Entry(chain)
           S == Shifts(chain, c)
           a == TapAt(chain, c, p)
<1>1. T \in Nat /\ T >= 4 /\ E = T + 9 /\ S \in Nat /\ S >= 1
  BY Places, ShiftsAre
<1>2. a = IF p < T + 6
        THEN (IF p = 0 THEN "idle" ELSE IF p = 1 THEN "selectDr" ELSE IF p = 2 THEN "selectIr"
              ELSE IF p = 3 THEN "captureIr" ELSE IF p < T + 4 THEN "shiftIr"
              ELSE IF p = T + 4 THEN "exit1Ir" ELSE "updateIr")
        ELSE IF p < E
        THEN (IF p = T + 6 THEN "idle" ELSE IF p = T + 7 THEN "selectDr" ELSE "captureDr")
        ELSE IF p < E + S THEN "shiftDr"
        ELSE IF p = E + S THEN "exit1Dr" ELSE IF p = E + S + 1 THEN "updateDr" ELSE "idle"
  BY DEF TapAt
<1> HIDE DEF T, E, S, a
<1>3. a = "captureIr" <=> p = 3
  BY <1>1, <1>2
<1>4. a = "shiftIr" <=> p \in 4 .. T + 3
  BY <1>1, <1>2
<1>5. a = "updateIr" <=> p = T + 5
  BY <1>1, <1>2
<1>6. a = "captureDr" <=> p = E - 1
  BY <1>1, <1>2
<1>7. a = "shiftDr" <=> p \in E .. E + S - 1
  BY <1>1, <1>2
<1>8. a = "updateDr" <=> p = E + S + 1
  BY <1>1, <1>2
<1>9. a # "reset"
  BY <1>1, <1>2
<1>10. QED BY <1>3, <1>4, <1>5, <1>6, <1>7, <1>8, <1>9 DEF T, E, S, a

\* What an edge does in the states a scan comes through.
LEMMA EdgeIs ==
  ASSUME Jtag!Clock, tap # "reset"
  PROVE  /\ tap = "captureIr" =>
              shift' = Jtag!FlattenSeq([d \in DOMAIN chain |-> <<1>> \o Jtag!Same(0, chain[d] - 1)])
         /\ tap = "captureDr" => shift' = Jtag!FlattenSeq([d \in DOMAIN chain |-> Jtag!Captured(d)])
         /\ tap \in {"shiftIr", "shiftDr"} => shift' = Append(Tail(shift), Head(scan).tdi)
         /\ tap \notin {"captureIr", "captureDr", "shiftIr", "shiftDr"} => shift' = shift
         /\ tap = "updateIr" => instr' = [d \in DOMAIN chain |->
                                           SubSeq(shift, UpTo(chain, d - 1) + 1, UpTo(chain, d))]
         /\ tap # "updateIr" => instr' = instr
         /\ done' = IF tap = "updateDr" THEN done \cup UNION {Jtag!Updated(d) : d \in DOMAIN chain}
                    ELSE done
         /\ got' = IF Head(scan).in THEN Append(got, Head(shift)) ELSE got
         /\ UNCHANGED <<chain, reg, cmd, result, commands>>
<1>1. Jtag!Edge(Head(scan).tms, Head(scan).tdi)
  BY DEF Jtag!Clock
<1>2. /\ tap = "captureIr" =>
           shift' = Jtag!FlattenSeq([d \in DOMAIN chain |-> <<1>> \o Jtag!Same(0, chain[d] - 1)])
      /\ tap = "captureDr" => shift' = Jtag!FlattenSeq([d \in DOMAIN chain |-> Jtag!Captured(d)])
      /\ tap \in {"shiftIr", "shiftDr"} => shift' = Append(Tail(shift), Head(scan).tdi)
      /\ tap \notin {"captureIr", "captureDr", "shiftIr", "shiftDr"} => shift' = shift
  BY <1>1 DEF Jtag!Edge
<1>3. /\ tap = "updateIr" => instr' = [d \in DOMAIN chain |->
                                           SubSeq(shift, UpTo(chain, d - 1) + 1, UpTo(chain, d))]
      /\ tap # "updateIr" => instr' = instr
  BY <1>1 DEF Jtag!Edge, UpTo
<1>4. done' = IF tap = "updateDr" THEN done \cup UNION {Jtag!Updated(d) : d \in DOMAIN chain} ELSE done
  BY <1>1 DEF Jtag!Edge
<1>5. /\ got' = IF Head(scan).in THEN Append(got, Head(shift)) ELSE got
      /\ UNCHANGED <<chain, reg, cmd, result, commands>>
  BY DEF Jtag!Clock
<1>6. QED BY <1>2, <1>3, <1>4, <1>5

LEMMA IrCaptured ==
  ASSUME chain \in Chains
  PROVE  LET s == Jtag!FlattenSeq([d \in DOMAIN chain |-> <<1>> \o Jtag!Same(0, chain[d] - 1)])
         IN  s \in Seq({0, 1}) /\ Len(s) = IrBits(chain)
<1> DEFINE n == Len(chain)
           q == [d \in DOMAIN chain |-> <<1>> \o Jtag!Same(0, chain[d] - 1)]
           h == [d \in 0 .. n |-> UpTo(chain, d)]
           l == [d \in 1 .. n |-> Len(q[d])]
<1>1. Lengths(n)
  BY LengthsAre
<1>2. DOMAIN chain = 1 .. n /\ n \in Nat \ {0} /\ \A d \in 1 .. n : chain[d] \in Nat \ {0, 1}
  BY <1>1 DEF Lengths
<1>3. ASSUME NEW d \in 1 .. n PROVE q[d] \in Seq({0, 1}) /\ Len(q[d]) = chain[d]
  <2> DEFINE m == chain[d] - 1
             z == Jtag!Same(0, m)
  <2>1. m \in Nat /\ chain[d] = 1 + m
    BY <1>2
  <2> HIDE DEF m
  <2>2. z \in Seq({0, 1}) /\ Len(z) = m
    BY <2>1, SameIs
  <2>3. <<1>> \in Seq({0, 1}) /\ Len(<<1>>) = 1
    BY FewBits
  <2> HIDE DEF z
  <2>4. <<1>> \o z \in Seq({0, 1}) /\ Joint(<<1>>, z, 1, m)
    BY <2>2, <2>3, Joining
  <2>5. q[d] = <<1>> \o z
    BY <1>2 DEF z, m
  <2>6. QED BY <2>1, <2>4, <2>5 DEF Joint
<1>4. q \in [1 .. n -> Seq({0, 1})] /\ DOMAIN q = 1 .. n
  <2>1. q = [d \in 1 .. n |-> q[d]]
    BY <1>2
  <2> HIDE DEF q
  <2>2. QED BY <1>3, <2>1
<1> HIDE DEF q
<1>5. Len(q) = n
  BY <1>2, <1>4, FunctionIsSeq
<1>6. Sums(h, l, n)
  <2>1. h[0] = 0 /\ h[n] = IrBits(chain)
    BY <1>1, <1>2 DEF Lengths
  <2>2. \A d \in 0 .. n : h[d] = UpTo(chain, d) /\ h[d] \in Nat
    BY <1>1 DEF Lengths
  <2>3. ASSUME NEW d \in 1 .. n PROVE h[d] = h[d - 1] + l[d]
    <3>1. d \in 0 .. n /\ d - 1 \in 0 .. n
      BY <1>2
    <3>2. UpTo(chain, d) = UpTo(chain, d - 1) + chain[d]
      BY <1>1 DEF Lengths
    <3>3. l[d] = chain[d]
      BY <1>3
    <3>4. h[d] = UpTo(chain, d) /\ h[d - 1] = UpTo(chain, d - 1)
      BY <3>1, <2>2
    <3>5. QED BY <3>2, <3>3, <3>4
  <2> HIDE DEF h, l
  <2>4. QED BY <2>1, <2>2, <2>3 DEF Sums
<1>7. \A d \in 0 .. n : h[d] \in Nat
  BY <1>1 DEF Lengths
<1>8. h[n] = IrBits(chain)
  BY <1>1, <1>2 DEF Lengths
<1> HIDE DEF h
<1>9. Placed(Jtag!FlattenSeq(q), q, h, n, {0, 1})
  <2>1. \A d \in 1 .. n : q[d] \in Seq({0, 1})
    BY <1>3
  <2>2. Sums(h, [d \in 1 .. n |-> Len(q[d])], n)
    BY <1>6
  <2> HIDE DEF n
  <2>3. QED BY <1>2, <1>5, <1>7, <2>1, <2>2, FlattenPlaced
<1>10. QED BY <1>8, <1>9 DEF Placed, q

\* A register of L bits of which k have been replaced by those of f; the others
\* are the later ones of g.
Rolled(s, L, k, f, g) ==
  /\ Len(s) = L
  /\ \A j \in 1 .. L - k : s[j] = g[k + j]
  /\ \A j \in 1 .. k : s[L - k + j] = f[j]

LEMMA Rolls ==
  ASSUME NEW L \in Nat, NEW k \in Nat, k < L, NEW s \in Seq({0, 1}), NEW b \in {0, 1},
         NEW f, NEW g, b = f[k + 1], Rolled(s, L, k, f, g)
  PROVE  /\ Append(Tail(s), b) \in Seq({0, 1}) /\ Rolled(Append(Tail(s), b), L, k + 1, f, g)
         /\ Head(s) = g[k + 1] /\ Head(s) \in {0, 1}
<1> DEFINE t == Tail(s)
           a == Append(t, b)
<1>1. Len(s) = L /\ L >= 1 /\ s # <<>> /\ 1 \in 1 .. L
  BY DEF Rolled
<1>2. t \in Seq({0, 1}) /\ Len(t) = L - 1 /\ \A i \in 1 .. L - 1 : t[i] = s[i + 1]
  BY <1>1, HeadTailProperties
<1>3. Head(s) = s[1] /\ s[1] \in {0, 1}
  BY <1>1
<1>4. s[1] = g[k + 1]
  BY <1>1 DEF Rolled
<1> HIDE DEF t
<1>5. /\ a \in Seq({0, 1}) /\ Len(a) = (L - 1) + 1
      /\ \A i \in 1 .. L - 1 : a[i] = t[i]
      /\ a[(L - 1) + 1] = b
  BY <1>2, AppendProperties
<1> HIDE DEF a
<1>6. Len(a) = L /\ a[L] = b
  BY <1>5
<1>7. ASSUME NEW j \in 1 .. L - (k + 1) PROVE a[j] = g[(k + 1) + j]
  <2>1. j \in 1 .. L - 1 /\ j + 1 \in 1 .. L - k /\ k + (j + 1) = (k + 1) + j
    OBVIOUS
  <2>2. s[j + 1] = g[k + (j + 1)]
    BY <2>1 DEF Rolled
  <2>3. QED BY <1>2, <1>5, <2>1, <2>2
<1>8. ASSUME NEW j \in 1 .. k + 1 PROVE a[L - (k + 1) + j] = f[j]
  <2>1. CASE j = k + 1
    <3>1. L - (k + 1) + j = L
      BY <2>1
    <3>2. QED BY <1>6, <2>1, <3>1
  <2>2. CASE j # k + 1
    <3> DEFINE i == L - (k + 1) + j
    <3>1. j \in 1 .. k /\ i \in 1 .. L - 1 /\ i + 1 = L - k + j
      BY <2>2
    <3> HIDE DEF i
    <3>2. s[L - k + j] = f[j]
      BY <3>1 DEF Rolled
    <3>3. a[i] = f[j]
      BY <1>2, <1>5, <3>1, <3>2
    <3>4. QED BY <3>3 DEF i
  <2>3. QED BY <2>1, <2>2
<1>9. Rolled(a, L, k + 1, f, g)
  BY <1>6, <1>7, <1>8 DEF Rolled
<1>10. QED BY <1>3, <1>4, <1>5, <1>9 DEF a, t

\* What the cycle is that has p before it, as far as it matters for what is shifted.
LEMMA CycleBits ==
  ASSUME NEW c, Addressable(c), NEW p \in Nat, p < Entry(chain) + Shifts(chain, c)
  PROVE  /\ p \in 4 .. IrBits(chain) + 3 => Moves(chain, c)[p].tdi = IrBit(chain, c, p - 3)
         /\ p >= Entry(chain) => /\ Moves(chain, c)[p].tdi = DrBit(c, p - Entry(chain) + 1)
                                 /\ Moves(chain, c)[p].in = Keeps(c, p - Entry(chain) + 1)
         /\ p < Entry(chain) => Moves(chain, c)[p].in = FALSE
<1> DEFINE T == IrBits(chain)
           E == Entry(chain)
           S == Shifts(chain, c)
           y == Moves(chain, c)[p]
<1>1. T \in Nat /\ E = T + 9 /\ S \in Nat
  BY Places, ShiftsAre
<1>2. /\ \A q \in 0 .. 3 : Moves(chain, c)[q] = Cycle(IF q < 2 THEN 1 ELSE 0, 1, FALSE)
      /\ \A j \in 1 .. T : Moves(chain, c)[3 + j] = Cycle(IF j = T THEN 1 ELSE 0, IrBit(chain, c, j), FALSE)
      /\ \A j \in 1 .. 5 : Moves(chain, c)[T + 3 + j] = Cycle(IF j \in {1, 3} THEN 1 ELSE 0, 1, FALSE)
      /\ \A j \in 1 .. S :
           Moves(chain, c)[E + j - 1] = Cycle(IF j = S THEN 1 ELSE 0, DrBit(c, j), Keeps(c, j))
  BY MovesAre
<1>3. p < E + S
  OBVIOUS
<1> HIDE DEF T, E, S
<1>4. ASSUME p < 4 PROVE y.in = FALSE
  <2>1. p \in 0 .. 3
    BY <1>4
  <2>2. y = Cycle(IF p < 2 THEN 1 ELSE 0, 1, FALSE)
    BY <1>2, <2>1
  <2> HIDE DEF y
  <2>3. QED BY <2>2 DEF Cycle
<1>5. ASSUME p \in 4 .. T + 3 PROVE y.in = FALSE /\ y.tdi = IrBit(chain, c, p - 3)
  <2> DEFINE j == p - 3
  <2>1. j \in 1 .. T /\ p = 3 + j
    BY <1>1, <1>5
  <2> HIDE DEF j
  <2>2. y = Cycle(IF j = T THEN 1 ELSE 0, IrBit(chain, c, j), FALSE)
    BY <1>2, <2>1
  <2> HIDE DEF y
  <2>3. y.in = FALSE /\ y.tdi = IrBit(chain, c, j)
    BY <2>2 DEF Cycle
  <2>4. QED BY <2>3 DEF j
<1>6. ASSUME p \in T + 4 .. E - 1 PROVE y.in = FALSE
  <2> DEFINE j == p - T - 3
  <2>1. j \in 1 .. 5 /\ p = T + 3 + j
    BY <1>1, <1>6
  <2> HIDE DEF j
  <2>2. y = Cycle(IF j \in {1, 3} THEN 1 ELSE 0, 1, FALSE)
    BY <1>2, <2>1
  <2> HIDE DEF y
  <2>3. QED BY <2>2 DEF Cycle
<1>7. ASSUME p >= E PROVE y.tdi = DrBit(c, p - E + 1) /\ y.in = Keeps(c, p - E + 1)
  <2> DEFINE j == p - E + 1
  <2>1. j \in 1 .. S /\ p = E + j - 1
    BY <1>1, <1>3, <1>7
  <2> HIDE DEF j
  <2>2. y = Cycle(IF j = S THEN 1 ELSE 0, DrBit(c, j), Keeps(c, j))
    BY <1>2, <2>1
  <2> HIDE DEF y
  <2>3. y.tdi = DrBit(c, j) /\ y.in = Keeps(c, j)
    BY <2>2 DEF Cycle
  <2>4. QED BY <2>3 DEF j
<1>8. p < E => p < 4 \/ p \in 4 .. T + 3 \/ p \in T + 4 .. E - 1
  BY <1>1
<1> HIDE DEF y
<1>9. p < E => y.in = FALSE
  BY <1>4, <1>5, <1>6, <1>8
<1>10. p \in 4 .. T + 3 => y.tdi = IrBit(chain, c, p - 3)
  BY <1>5
<1>11. p >= E => y.tdi = DrBit(c, p - E + 1) /\ y.in = Keeps(c, p - E + 1)
  BY <1>7
<1>12. QED BY <1>9, <1>10, <1>11 DEF T, E, S, y

LEMMA IrShifts ==
  ASSUME JtagTyped, NEW p, Scanned(p), Jtag!Clock, p \in 4 .. IrBits(chain) + 3
  PROVE  shift' \in Seq({0, 1}) /\ IrShifted((p + 1) - 4)'
<1> DEFINE T == IrBits(chain)
           k == p - 4
           f == [j \in Nat |-> IrBit(chain, cmd, j)]
           g == [j \in Nat |-> shift[j - k]]
           b == Head(scan).tdi
<1>1. /\ Addressable(cmd) /\ p \in Nat /\ Head(scan) = Moves(chain, cmd)[p] /\ Head(scan) \in CycleSet
  BY CycleMade
<1>2. T \in Nat /\ Entry(chain) = T + 9 /\ Shifts(chain, cmd) \in Nat
  BY <1>1, Places, ShiftsAre
<1>3. k \in Nat /\ k < T /\ k + 1 = p - 3 /\ (p + 1) - 4 = k + 1
  BY <1>1, <1>2
<1>4. tap = "shiftIr"
  BY <1>1, TapKinds DEF Scanned
<1>5. shift' = Append(Tail(shift), b) /\ UNCHANGED <<chain, cmd>>
  <2>1. tap # "reset"
    BY <1>4
  <2>2. QED BY <1>4, <2>1, EdgeIs
<1>6. b \in {0, 1} /\ b = f[k + 1]
  <2>1. b \in {0, 1}
    BY <1>1 DEF CycleSet
  <2>2. Moves(chain, cmd)[p].tdi = IrBit(chain, cmd, p - 3)
    <3>1. p < Entry(chain) + Shifts(chain, cmd)
      BY <1>1, <1>2
    <3>2. QED BY <1>1, <3>1, CycleBits
  <2>3. f[k + 1] = IrBit(chain, cmd, k + 1)
    BY <1>3
  <2>4. QED BY <1>1, <1>3, <2>1, <2>2, <2>3
<1>7. shift \in Seq({0, 1})
  BY DEF JtagTyped
<1>8. Rolled(shift, T, k, f, g)
  <2>1. IrShifted(k)
    <3>1. p \in 4 .. T + 4
      BY <1>2
    <3>2. QED BY <3>1 DEF Scanned, InIr
  <2>2. ASSUME NEW j \in 1 .. T - k PROVE shift[j] = g[k + j]
    <3>1. k + j \in Nat /\ (k + j) - k = j
      BY <1>2, <1>3
    <3> HIDE DEF k
    <3>2. QED BY <3>1
  <2>3. ASSUME NEW j \in 1 .. k PROVE shift[T - k + j] = f[j]
    <3>1. j \in Nat
      BY <1>3
    <3>2. f[j] = IrBit(chain, cmd, j)
      BY <3>1
    <3>3. QED BY <2>1, <3>2 DEF IrShifted
  <2>4. Len(shift) = T
    BY <2>1 DEF IrShifted
  <2> HIDE DEF T, k, f, g
  <2>5. QED BY <2>2, <2>3, <2>4 DEF Rolled
<1>9. shift' \in Seq({0, 1}) /\ Rolled(shift', T, k + 1, f, g)
  <2> HIDE DEF T, k, f, g, b
  <2>1. QED BY <1>2, <1>3, <1>5, <1>6, <1>7, <1>8, Rolls
<1>10. /\ Len(shift') = T
       /\ \A j \in 1 .. k + 1 : shift'[T - (k + 1) + j] = IrBit(chain, cmd, j)
  <2>1. \A j \in 1 .. k + 1 : f[j] = IrBit(chain, cmd, j)
    <3>1. \A j \in 1 .. k + 1 : j \in Nat
      BY <1>3
    <3>2. QED BY <3>1
  <2> HIDE DEF T, k, f, g
  <2>2. QED BY <1>9, <2>1 DEF Rolled
<1>11. IrShifted(k + 1)'
  BY <1>5, <1>10 DEF IrShifted
<1>12. QED
  <2>1. IrShifted((p + 1) - 4)'
    BY <1>3, <1>11
  <2>2. QED BY <1>9, <2>1

LEMMA SeqIsFunction ==
  ASSUME NEW S, NEW n \in Nat, NEW s \in Seq(S), Len(s) = n PROVE s \in [1 .. n -> S]
OBVIOUS

LEMMA IrUpdates ==
  ASSUME JtagTyped, NEW p, Scanned(p), Jtag!Clock, p = IrBits(chain) + 5
  PROVE  /\ instr' \in [1 .. Len(chain) -> Seq({0, 1})]
         /\ \A d \in 1 .. Len(chain) : Len(instr'[d]) = chain[d]
         /\ Addressed'
<1> DEFINE n == Len(chain)
           T == IrBits(chain)
           dev == cmd.dev
           name == Name(cmd)
           U(d) == UpTo(chain, d)
<1>1. Addressable(cmd) /\ p \in Nat
  BY CycleMade
<1>2. tap = "updateIr"
  BY <1>1, TapKinds DEF Scanned
<1>3. instr' = [d \in DOMAIN chain |-> SubSeq(shift, U(d - 1) + 1, U(d))]
      /\ chain' = chain /\ cmd' = cmd
  <2>1. tap # "reset"
    BY <1>2
  <2>2. QED BY <1>2, <2>1, EdgeIs
<1>4. Lengths(n)
  BY LengthsAre DEF JtagTyped
<1>5. /\ DOMAIN chain = 1 .. n /\ n \in Nat \ {0} /\ T = U(n)
      /\ \A d \in 0 .. n : U(d) \in Nat
      /\ \A d \in 1 .. n : U(d) = U(d - 1) + chain[d] /\ chain[d] \in Nat
  BY <1>4 DEF Lengths
<1>6. shift \in Seq({0, 1}) /\ Len(shift) = T /\ \A j \in 1 .. T : shift[j] = IrBit(chain, cmd, j)
  <2>1. T \in Nat
    BY <1>5
  <2>2. IrShifted(T)
    BY DEF Scanned, InIr
  <2>3. ASSUME NEW j \in 1 .. T PROVE shift[j] = IrBit(chain, cmd, j)
    <3>1. T - T + j = j
      BY <2>1
    <3>2. QED BY <2>2, <3>1 DEF IrShifted
  <2>4. QED BY <2>2, <2>3 DEF JtagTyped, IrShifted
<1>7. dev \in 1 .. n /\ chain[dev] = 4
  <2>1. chain \in Chains /\ cmd \in Jtag!Commands /\ cmd.dev <= n
    BY <1>1 DEF Addressable
  <2>2. cmd.dev \in 1 .. n
    BY <1>1, Places
  <2>3. QED BY <2>1, <2>2, CommandKinds
<1>8. \A j : IrBit(chain, cmd, j) = IF j \in U(dev - 1) + 1 .. U(dev - 1) + 4
                                    THEN Jtag!Instruction[name][j - U(dev - 1)] ELSE 1
  BY DEF IrBit
<1>9. \A d, e \in 0 .. n : d <= e => U(d) <= U(e)
  BY <1>4, UpToGrows
<1>10. ASSUME NEW d \in 1 .. n
       PROVE  /\ d - 1 \in 0 .. n /\ d \in 0 .. n /\ U(d - 1) \in Nat /\ U(d) \in Nat
              /\ U(d) = U(d - 1) + chain[d] /\ chain[d] \in Nat /\ U(d) <= T
              /\ PartIs(shift, U(d - 1) + 1, U(d), chain[d], {0, 1})
  <2>1. d - 1 \in 0 .. n /\ d \in 0 .. n /\ n \in 0 .. n /\ d <= n
    BY <1>5
  <2>2. U(d - 1) \in Nat /\ U(d) \in Nat /\ U(d) = U(d - 1) + chain[d] /\ chain[d] \in Nat
    BY <1>5, <2>1
  <2>3. U(d) <= T
    BY <1>5, <1>9, <2>1
  <2> DEFINE a == U(d - 1) + 1
             b == U(d)
             m == chain[d]
  <2>4. a \in Nat /\ b \in Nat /\ a >= 1 /\ b <= Len(shift) /\ m = b - a + 1
    BY <1>6, <2>2, <2>3
  <2> HIDE DEF a, b, m
  <2>5. PartIs(shift, a, b, m, {0, 1})
    BY <1>6, <2>4, PartOfSeq
  <2>6. QED BY <2>1, <2>2, <2>3, <2>5 DEF a, b, m
<1> HIDE DEF n, T, dev, name, U
<1>11. ASSUME NEW d \in 1 .. n
       PROVE  /\ instr'[d] \in [1 .. chain[d] -> {0, 1}] /\ instr'[d] \in Seq({0, 1})
              /\ Len(instr'[d]) = chain[d]
              /\ \A i \in 1 .. chain[d] : instr'[d][i] = IrBit(chain, cmd, U(d - 1) + i)
  <2> DEFINE a == U(d - 1) + 1
             b == U(d)
             m == chain[d]
             s == SubSeq(shift, a, b)
  <2>1. U(d - 1) \in Nat /\ b = U(d - 1) + m /\ m \in Nat /\ b <= T
        /\ PartIs(shift, a, b, m, {0, 1})
    BY <1>10
  <2>2. instr'[d] = s
    BY <1>3, <1>5
  <2> HIDE DEF m, b
  <2>3. s \in [1 .. m -> {0, 1}] /\ \A i \in 1 .. m : s[i] = shift[a + i - 1]
    BY <2>1 DEF PartIs
  <2> HIDE DEF s
  <2>4. s \in Seq({0, 1}) /\ Len(s) = m
    BY <2>1, <2>3, FunctionIsSeq
  <2>5. ASSUME NEW i \in 1 .. m PROVE s[i] = IrBit(chain, cmd, U(d - 1) + i)
    <3>1. a + i - 1 = U(d - 1) + i /\ U(d - 1) + i \in 1 .. T
      <4>1. T \in Nat
        BY <1>5
      <4> DEFINE u == U(d - 1)
      <4>2. u \in Nat /\ b = u + m /\ m \in Nat /\ b <= T /\ a = u + 1
        BY <2>1
      <4> HIDE DEF u, a
      <4>3. a + i - 1 = u + i /\ u + i \in 1 .. T
        BY <4>1, <4>2
      <4>4. QED BY <4>3 DEF u
    <3>2. QED BY <1>6, <2>3, <3>1
  <2>6. QED BY <2>2, <2>3, <2>4, <2>5 DEF m
<1>12. instr' \in [1 .. n -> Seq({0, 1})]
  <2>1. instr' = [d \in 1 .. n |-> instr'[d]]
    <3>1. instr' = [d \in 1 .. n |-> SubSeq(shift, U(d - 1) + 1, U(d))]
      BY <1>3, <1>5
    <3>2. QED BY <3>1
  <2>2. QED BY <1>11, <2>1
<1>13. instr'[dev] = Jtag!Instruction[name]
  <2> DEFINE y == Jtag!Instruction[name]
             s == instr'[dev]
  <2>1. y \in Seq({0, 1}) /\ Len(y) = 4
    BY <1>1, InstructionIs DEF name
  <2> HIDE DEF y
  <2>2. y \in [1 .. 4 -> {0, 1}]
    <3>1. 4 \in Nat
      OBVIOUS
    <3>2. QED BY <2>1, <3>1, SeqIsFunction
  <2>3. s \in [1 .. 4 -> {0, 1}] /\ \A i \in 1 .. 4 : s[i] = IrBit(chain, cmd, U(dev - 1) + i)
    BY <1>7, <1>11
  <2>4. U(dev - 1) \in Nat
    BY <1>7, <1>10
  <2>5. ASSUME NEW i \in 1 .. 4 PROVE s[i] = y[i]
    <3> DEFINE u == U(dev - 1)
               j == u + i
    <3>1. u \in Nat
      BY <2>4
    <3>2. s[i] = IrBit(chain, cmd, j)
      BY <2>3
    <3>3. IrBit(chain, cmd, j) = IF j \in u + 1 .. u + 4 THEN y[j - u] ELSE 1
      BY <1>8 DEF y
    <3> HIDE DEF u
    <3>4. j \in u + 1 .. u + 4 /\ j - u = i
      BY <3>1
    <3>5. QED BY <3>2, <3>3, <3>4
  <2> HIDE DEF s
  <2>6. s = y
    BY <2>2, <2>3, <2>5
  <2>7. QED BY <2>6 DEF s, y
<1>14. ASSUME NEW d \in 1 .. n, d # dev PROVE instr'[d] = Jtag!Same(1, chain[d])
  <2> DEFINE m == chain[d]
             s == instr'[d]
             u == U(dev - 1)
             v == U(d - 1)
  <2>1. /\ s \in [1 .. m -> {0, 1}] /\ \A i \in 1 .. m : s[i] = IrBit(chain, cmd, v + i)
    BY <1>11
  <2>2. u \in Nat /\ U(dev) = u + 4 /\ v \in Nat /\ U(d) = v + m /\ m \in Nat
        /\ dev \in 0 .. n /\ dev - 1 \in 0 .. n /\ d \in 0 .. n /\ d - 1 \in 0 .. n /\ U(dev) \in Nat
    BY <1>7, <1>10
  <2>3. U(d) <= u \/ u + 4 <= v
    <3>1. d <= dev - 1 \/ dev <= d - 1
      BY <1>14, <1>5, <1>7
    <3>2. U(d) <= U(dev - 1) \/ U(dev) <= U(d - 1)
      BY <1>9, <2>2, <3>1
    <3>3. QED BY <2>2, <3>2
  <2>4. \A j : IrBit(chain, cmd, j) = IF j \in u + 1 .. u + 4 THEN Jtag!Instruction[name][j - u] ELSE 1
    BY <1>8
  <2> DEFINE w == U(d)
  <2>5. w = v + m /\ (w <= u \/ u + 4 <= v) /\ v \in Nat /\ u \in Nat /\ m \in Nat
    BY <2>2, <2>3
  <2> HIDE DEF m, s, u, v, w
  <2>6. ASSUME NEW i \in 1 .. m PROVE s[i] = 1
    <3>1. v + i \notin u + 1 .. u + 4
      BY <2>5
    <3>2. IrBit(chain, cmd, v + i) = 1
      BY <2>4, <3>1
    <3>3. QED BY <2>1, <3>2
  <2>7. s = [i \in 1 .. m |-> 1]
    BY <2>1, <2>6
  <2>8. QED BY <2>7 DEF Jtag!Same, s, m
<1>15. Addressed'
  <2>1. ASSUME NEW d \in 1 .. n
        PROVE  IF d = dev THEN Jtag!Has(d, name)' ELSE Jtag!Bypassed(d)'
    <3>1. CASE d = dev
      <4>1. name' = name
        BY <1>3 DEF name
      <4>2. instr'[d] = Jtag!Instruction[name] /\ chain'[d] = 4
        BY <1>3, <1>7, <1>13, <3>1
      <4>3. Jtag!Has(d, name)'
        BY <4>1, <4>2 DEF Jtag!Has, Jtag!IsDap
      <4>4. QED BY <3>1, <4>3
    <3>2. CASE d # dev
      BY <1>3, <1>14, <3>2 DEF Jtag!Bypassed
    <3>3. QED BY <3>1, <3>2
  <2>2. n' = n /\ dev' = dev /\ name' = name
    BY <1>3 DEF n, dev, name
  <2>3. QED BY <1>3, <2>1, <2>2 DEF Addressed, n, dev, name
<1>16. QED BY <1>11, <1>12, <1>15 DEF n

Names == {"idcode", "abort", "dpacc", "apacc"}

\* A device in bypass has none of the instructions, and one that has one has no other.
LEMMA HasNone ==
  ASSUME NEW d, Jtag!Bypassed(d), NEW m \in Names PROVE ~Jtag!Has(d, m)
<1> SUFFICES ASSUME Jtag!Has(d, m) PROVE FALSE
  OBVIOUS
<1>1. chain[d] = 4 /\ instr[d] = Jtag!Instruction[m] /\ instr[d] = Jtag!Same(1, chain[d])
  BY DEF Jtag!Has, Jtag!IsDap, Jtag!Bypassed
<1>2. Jtag!Instruction[m] = Jtag!Same(1, 4)
  BY <1>1
<1>3. Jtag!Same(1, 4)[1] = 1 /\ Jtag!Same(1, 4)[3] = 1
  <2>1. 1 \in 1 .. 4 /\ 3 \in 1 .. 4
    OBVIOUS
  <2>2. QED BY <2>1 DEF Jtag!Same
<1>4. Jtag!Instruction[m][1] = 0 \/ Jtag!Instruction[m][3] = 0
  <2>1. /\ Jtag!Instruction["abort"] = <<0, 0, 0, 1>> /\ Jtag!Instruction["dpacc"] = <<0, 1, 0, 1>>
        /\ Jtag!Instruction["apacc"] = <<1, 1, 0, 1>> /\ Jtag!Instruction["idcode"] = <<0, 1, 1, 1>>
    BY DEF Jtag!Instruction
  <2>2. CASE m = "apacc"
    BY <2>1, <2>2
  <2>3. CASE m = "dpacc"
    BY <2>1, <2>3
  <2>4. CASE m = "abort"
    BY <2>1, <2>4
  <2>5. CASE m = "idcode"
    BY <2>1, <2>5
  <2>6. QED BY <2>2, <2>3, <2>4, <2>5 DEF Names
<1>5. QED BY <1>2, <1>3, <1>4

LEMMA HasOne ==
  ASSUME NEW d, NEW m \in Names, NEW o \in Names, Jtag!Has(d, m), Jtag!Has(d, o) PROVE m = o
<1>1. Jtag!Instruction[m] = Jtag!Instruction[o]
  BY DEF Jtag!Has
<1>2. /\ Jtag!Instruction["abort"] = <<0, 0, 0, 1>> /\ Jtag!Instruction["dpacc"] = <<0, 1, 0, 1>>
      /\ Jtag!Instruction["apacc"] = <<1, 1, 0, 1>> /\ Jtag!Instruction["idcode"] = <<0, 1, 1, 1>>
  BY DEF Jtag!Instruction
<1>3. /\ Jtag!Instruction["abort"][1] = 0 /\ Jtag!Instruction["abort"][2] = 0
      /\ Jtag!Instruction["dpacc"][1] = 0 /\ Jtag!Instruction["dpacc"][2] = 1
      /\ Jtag!Instruction["dpacc"][3] = 0
      /\ Jtag!Instruction["apacc"][1] = 1
      /\ Jtag!Instruction["idcode"][1] = 0 /\ Jtag!Instruction["idcode"][2] = 1
      /\ Jtag!Instruction["idcode"][3] = 1
  BY <1>2
<1>4. QED BY <1>1, <1>3 DEF Names

\* What the devices load when one has the instruction of the command.
LEMMA OwnIs ==
  ASSUME NEW c, Addressable(c), NEW w \in JtagWords
  PROVE  Own(c, w) \in Seq({0, 1}) /\ Len(Own(c, w)) = OwnBits(c)
<1>1. Width \in Nat /\ w \in [1 .. Width -> {0, 1}]
  BY ChainFacts
<1>2. w \in Seq({0, 1}) /\ Len(w) = Width
  BY <1>1, FunctionIsSeq
<1>3. c.kind \in {"idcode", "abort", "transfer"}
  BY CommandKinds DEF Addressable
<1>4. CASE c.kind = "idcode"
  BY <1>2, <1>4 DEF Own, OwnBits
<1>5. CASE c.kind = "abort"
  <2>1. Own(c, w) = Jtag!Same(0, 3 + Width) /\ OwnBits(c) = Width + 3
    BY <1>5 DEF Own, OwnBits
  <2>2. 3 + Width \in Nat /\ 3 + Width = Width + 3 /\ 0 \in {0, 1}
    BY <1>1
  <2>3. Jtag!Same(0, 3 + Width) \in Seq({0, 1}) /\ Len(Jtag!Same(0, 3 + Width)) = 3 + Width
    BY <2>2, SameIs
  <2>4. QED BY <2>1, <2>2, <2>3
<1>6. CASE c.kind = "transfer"
  <2> DEFINE a == IF c.wait THEN <<1, 0, 0>> ELSE <<0, 1, 0>>
  <2>1. a \in Seq({0, 1}) /\ Len(a) = 3
    <3>1. <<1, 0, 0>> \in Seq({0, 1}) /\ Len(<<1, 0, 0>>) = 3
          /\ <<0, 1, 0>> \in Seq({0, 1}) /\ Len(<<0, 1, 0>>) = 3
      OBVIOUS
    <3>2. QED BY <3>1
  <2>2. Own(c, w) = a \o w /\ OwnBits(c) = Width + 3
    BY <1>6 DEF Own, OwnBits
  <2> HIDE DEF a
  <2>3. a \o w \in Seq({0, 1}) /\ Joint(a, w, 3, Width)
    BY <1>2, <2>1, Joining
  <2>4. Len(a \o w) = 3 + Width
    BY <2>3 DEF Joint
  <2>5. QED BY <1>1, <2>2, <2>3, <2>4
<1>7. QED BY <1>3, <1>4, <1>5, <1>6

LEMMA CapturedAre ==
  ASSUME Addressable(cmd), Addressed, NEW d \in 1 .. Len(chain)
  PROVE  /\ Jtag!Captured(d) = IF d = cmd.dev THEN Own(cmd, reg[d]) ELSE <<0>>
         /\ d # cmd.dev => ~Jtag!Accesses(d) /\ ~Jtag!Has(d, "abort")
         /\ d = cmd.dev => /\ Jtag!Accesses(d) <=> cmd.kind = "transfer"
                           /\ Jtag!Has(d, "apacc") <=> cmd.kind = "transfer" /\ cmd.port = "apacc"
                           /\ Jtag!Has(d, "abort") <=> cmd.kind = "abort"
<1>1. Name(cmd) \in Names
  BY InstructionIs DEF Names
<1>2. "idcode" \in Names /\ "abort" \in Names /\ "dpacc" \in Names /\ "apacc" \in Names
  BY DEF Names
<1>3. /\ cmd.kind \in {"idcode", "abort", "transfer"}
      /\ cmd.kind = "transfer" => cmd.port \in {"dpacc", "apacc"}
  BY CommandKinds DEF Addressable
<1>4. CASE d # cmd.dev
  <2>1. Jtag!Bypassed(d)
    BY <1>4 DEF Addressed
  <2>2. ~Jtag!Has(d, "idcode") /\ ~Jtag!Has(d, "abort") /\ ~Jtag!Has(d, "dpacc") /\ ~Jtag!Has(d, "apacc")
    BY <1>2, <2>1, HasNone
  <2>3. ~Jtag!Accesses(d)
    BY <2>2 DEF Jtag!Accesses
  <2>4. Jtag!Captured(d) = <<0>>
    BY <2>2, <2>3 DEF Jtag!Captured
  <2>5. QED BY <1>4, <2>2, <2>3, <2>4
<1>5. CASE d = cmd.dev
  <2>1. Jtag!Has(d, Name(cmd))
    BY <1>5 DEF Addressed
  <2>2. /\ Jtag!Has(d, "idcode") <=> Name(cmd) = "idcode"
        /\ Jtag!Has(d, "abort") <=> Name(cmd) = "abort"
        /\ Jtag!Has(d, "dpacc") <=> Name(cmd) = "dpacc"
        /\ Jtag!Has(d, "apacc") <=> Name(cmd) = "apacc"
    BY <1>1, <1>2, <2>1, HasOne
  <2>3. Name(cmd) = IF cmd.kind = "transfer" THEN cmd.port ELSE cmd.kind
    BY DEF Name
  <2>4. /\ Jtag!Accesses(d) <=> cmd.kind = "transfer"
        /\ Jtag!Has(d, "apacc") <=> cmd.kind = "transfer" /\ cmd.port = "apacc"
        /\ Jtag!Has(d, "abort") <=> cmd.kind = "abort"
        /\ Jtag!Has(d, "idcode") <=> cmd.kind = "idcode"
    <3>1. Jtag!Accesses(d) <=> Jtag!Has(d, "dpacc") \/ Jtag!Has(d, "apacc")
      BY DEF Jtag!Accesses
    <3>2. QED BY <1>3, <2>2, <2>3, <3>1
  <2>5. Jtag!Captured(d) = Own(cmd, reg[d])
    <3>1. CASE cmd.kind = "transfer"
      BY <2>4, <3>1 DEF Jtag!Captured, Own
    <3>2. CASE cmd.kind = "idcode"
      BY <2>4, <3>2 DEF Jtag!Captured, Own
    <3>3. CASE cmd.kind = "abort"
      BY <2>4, <3>3 DEF Jtag!Captured, Own, Width
    <3>4. QED BY <1>3, <3>1, <3>2, <3>3
  <2>6. QED BY <1>5, <2>4, <2>5
<1>6. QED BY <1>4, <1>5

LEMMA DrCaptured ==
  ASSUME Addressable(cmd), Addressed, reg[cmd.dev] \in JtagWords
  PROVE  LET s == Jtag!FlattenSeq([d \in DOMAIN chain |-> Jtag!Captured(d)])
         IN  /\ s \in Seq({0, 1}) /\ Len(s) = Length(chain, cmd)
             /\ \A j \in 1 .. Length(chain, cmd) : s[j] = Loaded(cmd, reg[cmd.dev], j)
<1> DEFINE n == Len(chain)
           dev == cmd.dev
           w == reg[dev]
           o == OwnBits(cmd)
           own == Own(cmd, w)
           q == [d \in DOMAIN chain |-> Jtag!Captured(d)]
           h == [i \in 0 .. n |-> IF i < dev THEN i ELSE i - 1 + o]
           l == [i \in 1 .. n |-> Len(q[i])]
           s == Jtag!FlattenSeq(q)
<1>1. /\ dev \in 1 .. n /\ n \in Nat /\ DOMAIN chain = 1 .. n /\ n # 0
      /\ o \in Nat /\ own \in Seq({0, 1}) /\ Len(own) = o
      /\ Length(chain, cmd) = n - 1 + o
  <2>1. dev \in 1 .. n /\ n \in Nat /\ Width \in Nat
    BY Places
  <2>2. own \in Seq({0, 1}) /\ Len(own) = o
    BY OwnIs
  <2>3. o \in Nat
    BY <2>1 DEF OwnBits
  <2>4. Lengths(n)
    BY LengthsAre DEF Addressable
  <2>5. DOMAIN chain = 1 .. n /\ n # 0
    BY <2>4 DEF Lengths
  <2>6. Length(chain, cmd) = n - 1 + o
    BY DEF Length
  <2>7. QED BY <2>1, <2>2, <2>3, <2>5, <2>6
<1>2. \A d \in 1 .. n : q[d] = IF d = dev THEN own ELSE <<0>>
  BY <1>1, CapturedAre
<1>3. DOMAIN q = 1 .. n /\ q = [d \in 1 .. n |-> q[d]]
  BY <1>1
<1>4. \A j : Loaded(cmd, w, j) = IF j \in dev .. dev + o - 1 THEN own[j - dev + 1] ELSE 0
  BY DEF Loaded
<1> HIDE DEF q, own, o, dev, n, w
<1>5. ASSUME NEW d \in 1 .. n
      PROVE  q[d] \in Seq({0, 1}) /\ Len(q[d]) = IF d = dev THEN o ELSE 1
  <2>1. <<0>> \in Seq({0, 1}) /\ Len(<<0>>) = 1
    BY FewBits
  <2>2. QED BY <1>1, <1>2, <2>1
<1>6. q \in [1 .. n -> Seq({0, 1})]
  BY <1>3, <1>5
<1>7. Len(q) = n
  BY <1>1, <1>6, FunctionIsSeq
<1>8. \A i \in 0 .. n : h[i] = (IF i < dev THEN i ELSE i - 1 + o) /\ h[i] \in Nat
  BY <1>1
<1>9. Sums(h, l, n)
  <2>1. \A i \in 1 .. n : l[i] = IF i = dev THEN o ELSE 1
    BY <1>5
  <2> HIDE DEF h, l
  <2>2. h[0] = 0
    BY <1>1, <1>8
  <2>3. ASSUME NEW i \in 1 .. n PROVE h[i] = h[i - 1] + l[i]
    <3>1. i - 1 \in 0 .. n /\ i \in 0 .. n
      BY <1>1
    <3>2. h[i] = (IF i < dev THEN i ELSE i - 1 + o)
          /\ h[i - 1] = IF i - 1 < dev THEN i - 1 ELSE (i - 1) - 1 + o
      BY <1>8, <3>1
    <3>3. QED BY <1>1, <2>1, <3>2
  <2>4. \A i \in 0 .. n : h[i] \in Int
    BY <1>8
  <2>5. QED BY <2>2, <2>3, <2>4 DEF Sums
<1>10. Placed(s, q, h, n, {0, 1})
  <2>1. \A i \in 1 .. n : q[i] \in Seq({0, 1})
    BY <1>5
  <2>2. Sums(h, [i \in 1 .. n |-> Len(q[i])], n)
    BY <1>9
  <2>3. \A i \in 0 .. n : h[i] \in Nat
    BY <1>8
  <2> HIDE DEF h
  <2>4. QED BY <1>1, <1>7, <2>1, <2>2, <2>3, FlattenPlaced
<1> HIDE DEF h, l, s
<1>11. /\ s \in Seq({0, 1}) /\ Len(s) = h[n]
       /\ \A i \in 1 .. n : \A j \in 1 .. Len(q[i]) : s[h[i - 1] + j] = q[i][j]
  BY <1>10 DEF Placed
<1>12. Len(s) = n - 1 + o
  BY <1>1, <1>8, <1>11
<1>13. ASSUME NEW i \in 1 .. n, i # dev PROVE s[h[i - 1] + 1] = 0
  <2>1. q[i] = <<0>> /\ Len(q[i]) = 1 /\ 1 \in 1 .. 1
    BY <1>2, <1>5, <1>13
  <2>2. s[h[i - 1] + 1] = q[i][1]
    BY <1>11, <2>1
  <2>3. QED BY <2>1, <2>2
<1>14. ASSUME NEW j \in 1 .. n - 1 + o PROVE s[j] = Loaded(cmd, w, j)
  <2>1. ASSUME j < dev PROVE s[j] = 0 /\ j \notin dev .. dev + o - 1
    <3>1. j \in 1 .. n /\ j # dev /\ j - 1 \in 0 .. n /\ j - 1 < dev /\ (j - 1) + 1 = j
      BY <1>1, <2>1
    <3>2. h[j - 1] = j - 1
      BY <1>8, <3>1
    <3>3. s[h[j - 1] + 1] = 0
      BY <1>13, <3>1
    <3>4. QED BY <1>1, <2>1, <3>1, <3>2, <3>3
  <2>2. ASSUME j \in dev .. dev + o - 1 PROVE s[j] = own[j - dev + 1]
    <3> DEFINE i == j - dev + 1
    <3>1. i \in 1 .. o /\ dev - 1 \in 0 .. n /\ dev - 1 < dev /\ (dev - 1) + i = j
      BY <1>1, <2>2
    <3> HIDE DEF i
    <3>2. h[dev - 1] = dev - 1 /\ q[dev] = own /\ Len(q[dev]) = o
      BY <1>1, <1>2, <1>5, <1>8, <3>1
    <3>3. s[h[dev - 1] + i] = q[dev][i]
      BY <1>1, <1>11, <3>1, <3>2
    <3>4. s[j] = own[i]
      BY <3>1, <3>2, <3>3
    <3>5. QED BY <3>4 DEF i
  <2>3. ASSUME j >= dev + o PROVE s[j] = 0 /\ j \notin dev .. dev + o - 1
    <3> DEFINE i == j - o + 1
    <3>1. i \in 1 .. n /\ i # dev /\ i - 1 \in 0 .. n /\ ~(i - 1 < dev) /\ (i - 1) - 1 + o + 1 = j
      BY <1>1, <2>3
    <3> HIDE DEF i
    <3>2. h[i - 1] = (i - 1) - 1 + o
      BY <1>8, <3>1
    <3>3. s[h[i - 1] + 1] = 0
      BY <1>13, <3>1
    <3>4. QED BY <1>1, <2>3, <3>1, <3>2, <3>3
  <2>4. j < dev \/ j \in dev .. dev + o - 1 \/ j >= dev + o
    BY <1>1
  <2>5. QED BY <1>4, <2>1, <2>2, <2>3, <2>4
<1>15. QED BY <1>1, <1>11, <1>12, <1>14 DEF s, q, w, dev

\* One more data bit, or another cycle: how many of the bits are kept then.
LEMMA KeptNext ==
  ASSUME NEW c, Addressable(c), NEW r, r = 0 \/ c.kind = "transfer", NEW k \in Int,
         c.kind = "transfer" => IF r = 0 THEN k < c.dev + 2 ELSE k >= c.dev + 2
  PROVE  /\ KeptOf(c, r, k) \in Nat /\ FirstKept(c, r) \in Nat
         /\ k \in 0 .. Shifts(chain, c) - 1 /\ Keeps(c, k + 1)
              => /\ KeptOf(c, r, k + 1) = KeptOf(c, r, k) + 1
                 /\ FirstKept(c, r) + KeptOf(c, r, k) = k + 1
         /\ ~(k \in 0 .. Shifts(chain, c) - 1 /\ Keeps(c, k + 1))
              => KeptOf(c, r, k + 1) = KeptOf(c, r, k)
         /\ Keeps(c, k + 1) \in BOOLEAN
<1> DEFINE n == Len(chain)
           d == c.dev
           S == Shifts(chain, c)
           a == FirstKept(c, r)
           b == LastKept(c, r)
           K == Keeps(c, k + 1)
           x == KeptOf(c, r, k)
           y == KeptOf(c, r, k + 1)
           W == Width
           reads == ReadsWord(c)
           wait == c.wait
           R == /\ x \in Nat /\ a \in Nat /\ K \in BOOLEAN
                /\ k \in 0 .. S - 1 /\ K => y = x + 1 /\ a + x = k + 1
                /\ ~(k \in 0 .. S - 1 /\ K) => y = x
<1>1. d \in 1 .. n /\ n \in Nat /\ W \in Nat /\ W >= 2
  BY Places
<1>2. /\ c.kind \in {"idcode", "abort", "transfer"} /\ (c.kind = "transfer" => wait \in BOOLEAN)
      /\ reads \in BOOLEAN
  BY CommandKinds DEF Addressable, ReadsWord
<1>3. /\ x = IF k < a THEN 0 ELSE (IF k < b THEN k ELSE b) - a + 1
      /\ y = IF k + 1 < a THEN 0 ELSE (IF k + 1 < b THEN k + 1 ELSE b) - a + 1
  BY DEF KeptOf
<1>4. ASSUME c.kind = "idcode" PROVE R
  <2>1. a = d /\ b = d - 1 + W /\ S = d - 1 + W /\ (K <=> k + 1 >= d) /\ K \in BOOLEAN
    BY <1>4 DEF FirstKept, LastKept, Shifts, Keeps
  <2> HIDE DEF d, n, S, a, b, K, x, y, W
  <2>2. QED BY <1>1, <1>3, <2>1
<1>5. ASSUME c.kind = "abort" PROVE R
  <2>1. a = d /\ b = d - 1 /\ S = n + 2 + W /\ K = FALSE
    BY <1>5 DEF FirstKept, LastKept, Shifts, Keeps, Waits
  <2> HIDE DEF d, n, S, a, b, K, x, y, W
  <2>2. ~K /\ K \in BOOLEAN
    BY <2>1
  <2>3. a = d /\ b = d - 1
    BY <2>1
  <2>4. x = 0 /\ y = 0
    BY <1>1, <1>3, <2>3
  <2>5. QED BY <1>1, <2>2, <2>3, <2>4
<1>6. ASSUME c.kind = "transfer" /\ r = 0 PROVE R
  <2>1. a = d /\ b = d + 2 /\ S = (IF wait THEN d + 3 ELSE n + 2 + W) /\ k < d + 2
    BY <1>6 DEF FirstKept, LastKept, Shifts, Waits
  <2>2. K <=> k + 1 \in d .. d + 2 \/ (~wait /\ reads /\ k + 1 \in d + 3 .. d + 2 + W)
    BY <1>6 DEF Keeps
  <2>3. K \in BOOLEAN
    BY <1>6 DEF Keeps
  <2> HIDE DEF d, n, S, a, b, K, x, y, W, reads, wait
  <2>4. k + 1 \notin d + 3 .. d + 2 + W
    BY <1>1, <2>1
  <2>5. K <=> k + 1 \in d .. d + 2
    BY <2>2, <2>4
  <2>6. S >= d + 3
    BY <1>1, <2>1
  <2>7. QED BY <1>1, <1>3, <2>1, <2>3, <2>5, <2>6
<1>7. ASSUME c.kind = "transfer" /\ r # 0 /\ ~wait /\ reads PROVE R
  <2>1. a = d + 3 /\ b = d + 2 + W /\ S = n + 2 + W /\ k >= d + 2
    BY <1>7 DEF FirstKept, LastKept, Shifts, Waits
  <2>2. (K <=> k + 1 \in d .. d + 2 \/ k + 1 \in d + 3 .. d + 2 + W) /\ K \in BOOLEAN
    BY <1>7 DEF Keeps
  <2> HIDE DEF d, n, S, a, b, K, x, y, W, reads, wait
  <2>3. K <=> k + 1 \in d + 3 .. d + 2 + W
    BY <1>1, <2>1, <2>2
  <2>4. QED BY <1>1, <1>3, <2>1, <2>2, <2>3
<1>8. ASSUME c.kind = "transfer" /\ r # 0 /\ ~(~wait /\ reads) PROVE R
  <2>1. a = d + 3 /\ b = d + 2 /\ k >= d + 2
    BY <1>8 DEF FirstKept, LastKept
  <2>2. (K <=> k + 1 \in d .. d + 2) /\ K \in BOOLEAN
    BY <1>8 DEF Keeps
  <2> HIDE DEF d, n, S, a, b, K, x, y, W, reads, wait
  <2>3. ~K /\ K \in BOOLEAN
    BY <1>1, <2>1, <2>2
  <2>4. x = 0 /\ y = 0
    BY <1>1, <1>3, <2>1
  <2>5. QED BY <1>1, <2>1, <2>3, <2>4
<1>9. R
  <2> HIDE DEF R
  <2>1. QED BY <1>2, <1>4, <1>5, <1>6, <1>7, <1>8
<1>10. QED BY <1>9

\* The number of data bits that p cycles have shifted, and what Scanned says of it.
LEMMA DataBits ==
  ASSUME JtagTyped, NEW p, Scanned(p), Jtag!Clock, NEW k, k = p - Entry(chain)
  PROVE  /\ k \in Int /\ k + 1 = (p + 1) - Entry(chain) /\ p = Entry(chain) + k
         /\ result = 0 \/ cmd.kind = "transfer"
         /\ cmd.kind = "transfer" => IF result = 0 THEN k < cmd.dev + 2 ELSE k >= cmd.dev + 2
         /\ Kept(k)
         /\ k \in 0 .. Shifts(chain, cmd) => DrShifted(k)
         /\ k \in 0 .. Shifts(chain, cmd) - 1 <=> tap = "shiftDr"
         /\ k \in 0 .. Shifts(chain, cmd) - 1 =>
              /\ Head(scan).tdi = DrBit(cmd, k + 1) /\ Head(scan).in = Keeps(cmd, k + 1)
         /\ k \notin 0 .. Shifts(chain, cmd) - 1 => Head(scan).in = FALSE
<1> DEFINE E == Entry(chain)
           S == Shifts(chain, cmd)
           d == cmd.dev
           y == Head(scan)
<1>1. /\ Addressable(cmd) /\ p \in Nat /\ y = Moves(chain, cmd)[p] /\ p + 1 \in Nat
      /\ p + 1 \in (IF result = 0 THEN 0 ELSE AckAt(chain, cmd)) .. Known(chain, cmd, result)
  BY CycleMade
<1>2. E \in Nat /\ S \in Nat /\ d \in Nat /\ p \in (IF result = 0 THEN 0 ELSE AckAt(chain, cmd)) .. Known(chain, cmd, result)
  BY <1>1, Places, ShiftsAre DEF Scanned
<1>3. result = 0 \/ cmd.kind = "transfer"
  BY DEF Scanned, Asked
<1>4. AckAt(chain, cmd) = E + d + 2 /\ (cmd.kind = "transfer" /\ result = 0 => Known(chain, cmd, result) = E + d + 2)
  BY DEF AckAt, Known
<1>5. Kept(k) /\ (p \in E .. E + S => DrShifted(k)) /\ tap = TapAt(chain, cmd, p)
  BY DEF Scanned, InDr
<1>6. tap = "shiftDr" <=> p \in E .. E + S - 1
  BY <1>1, <1>5, TapKinds
<1>7. p < E + S =>
        /\ p >= E => y.tdi = DrBit(cmd, p - E + 1) /\ y.in = Keeps(cmd, p - E + 1)
        /\ p < E => y.in = FALSE
  BY <1>1, CycleBits
<1>8. p >= E + S => y.in = FALSE
  <2> SUFFICES ASSUME p >= E + S PROVE y.in = FALSE
    OBVIOUS
  <2> DEFINE j == p - (E + S)
  <2>1. j \in Nat /\ p = E + S + j
    BY <1>1, <1>2
  <2>2. \A i \in Nat : Moves(chain, cmd)[E + S + i] = Cycle(IF i = 0 THEN 1 ELSE 0, 1, FALSE)
    BY <1>1, MovesAre
  <2> HIDE DEF E, S, j
  <2>3. y = Cycle(IF j = 0 THEN 1 ELSE 0, 1, FALSE)
    BY <1>1, <2>1, <2>2
  <2> HIDE DEF y
  <2>4. QED BY <2>3 DEF Cycle
<1>9. k = p - E
  OBVIOUS
<1> HIDE DEF E, S, d, y
<1>10. /\ k \in Int /\ k + 1 = (p + 1) - E /\ p = E + k /\ p - E + 1 = k + 1
       /\ (k \in 0 .. S <=> p \in E .. E + S) /\ (k \in 0 .. S - 1 <=> p \in E .. E + S - 1)
       /\ (k \in 0 .. S - 1 <=> p < E + S /\ p >= E) /\ (k \notin 0 .. S - 1 <=> p < E \/ p >= E + S)
  BY <1>1, <1>2, <1>9
<1>11. cmd.kind = "transfer" => IF result = 0 THEN k < d + 2 ELSE k >= d + 2
  <2>1. cmd.kind = "transfer" /\ result = 0 => p + 1 <= E + d + 2
    BY <1>1, <1>2, <1>4
  <2>2. result # 0 => p >= E + d + 2
    BY <1>1, <1>2, <1>4
  <2>3. cmd.kind = "transfer" /\ result = 0 => k < d + 2
    BY <1>1, <1>2, <1>9, <2>1
  <2>4. result # 0 => k >= d + 2
    BY <1>1, <1>2, <1>9, <2>2
  <2>5. QED BY <2>3, <2>4
<1>12. k \in 0 .. S - 1 => y.tdi = DrBit(cmd, k + 1) /\ y.in = Keeps(cmd, k + 1)
  BY <1>7, <1>10
<1>13. k \notin 0 .. S - 1 => y.in = FALSE
  <2>1. p < E => p < E + S
    BY <1>1, <1>2
  <2>2. QED BY <1>7, <1>8, <1>10, <2>1
<1>14. QED BY <1>3, <1>5, <1>6, <1>10, <1>11, <1>12, <1>13 DEF E, S, d, y

LEMMA DataShifts ==
  ASSUME JtagTyped, NEW p, Scanned(p), Jtag!Clock, NEW k, k = p - Entry(chain),
         k \in 0 .. Shifts(chain, cmd) - 1
  PROVE  /\ shift' \in Seq({0, 1}) /\ DrShifted(k + 1)'
         /\ Head(shift) = Loaded(cmd, reg[cmd.dev], k + 1) /\ Head(shift) \in {0, 1}
<1> DEFINE S == Shifts(chain, cmd)
           L == Length(chain, cmd)
           f == [j \in Nat |-> DrBit(cmd, j)]
           g == [j \in Nat |-> Loaded(cmd, reg[cmd.dev], j)]
           b == Head(scan).tdi
<1>1. Addressable(cmd) /\ Head(scan) \in CycleSet
  BY CycleMade
<1>2. S \in Nat /\ L \in Nat /\ S <= L
  BY <1>1, ShiftsAre
<1>3. k \in Nat /\ k < L /\ k + 1 \in Nat /\ k \in 0 .. S
  BY <1>2
<1>4. tap = "shiftDr" /\ b = DrBit(cmd, k + 1) /\ DrShifted(k)
  BY <1>3, DataBits
<1>5. shift' = Append(Tail(shift), b) /\ UNCHANGED <<chain, cmd, reg>>
  <2>1. tap # "reset"
    BY <1>4
  <2>2. QED BY <1>4, <2>1, EdgeIs
<1>6. b \in {0, 1} /\ b = f[k + 1]
  <2>1. b \in {0, 1}
    BY <1>1 DEF CycleSet
  <2>2. f[k + 1] = DrBit(cmd, k + 1)
    BY <1>3
  <2>3. QED BY <1>4, <2>1, <2>2
<1>7. shift \in Seq({0, 1})
  BY DEF JtagTyped
<1>8. Rolled(shift, L, k, f, g)
  <2>1. ASSUME NEW j \in 1 .. L - k PROVE shift[j] = g[k + j]
    <3>1. k + j \in Nat
      BY <1>2, <1>3
    <3>2. g[k + j] = Loaded(cmd, reg[cmd.dev], k + j)
      BY <3>1
    <3>3. QED BY <1>4, <3>2 DEF DrShifted
  <2>2. ASSUME NEW j \in 1 .. k PROVE shift[L - k + j] = f[j]
    <3>1. j \in Nat
      BY <1>3
    <3>2. f[j] = DrBit(cmd, j)
      BY <3>1
    <3>3. QED BY <1>4, <3>2 DEF DrShifted
  <2>3. Len(shift) = L
    BY <1>4 DEF DrShifted
  <2> HIDE DEF L, f, g
  <2>4. QED BY <2>1, <2>2, <2>3 DEF Rolled
<1>9. /\ shift' \in Seq({0, 1}) /\ Rolled(shift', L, k + 1, f, g)
      /\ Head(shift) = g[k + 1] /\ Head(shift) \in {0, 1}
  <2> HIDE DEF L, f, g, b
  <2>1. QED BY <1>2, <1>3, <1>5, <1>6, <1>7, <1>8, Rolls
<1>10. g[k + 1] = Loaded(cmd, reg[cmd.dev], k + 1)
  BY <1>3
<1>11. /\ Len(shift') = L
       /\ \A j \in 1 .. L - (k + 1) : shift'[j] = Loaded(cmd, reg[cmd.dev], (k + 1) + j)
       /\ \A j \in 1 .. k + 1 : shift'[L - (k + 1) + j] = DrBit(cmd, j)
  <2>1. \A j \in Nat : f[j] = DrBit(cmd, j) /\ g[j] = Loaded(cmd, reg[cmd.dev], j)
    OBVIOUS
  <2>2. \A j \in 1 .. L - (k + 1) : (k + 1) + j \in Nat
    BY <1>2, <1>3
  <2>3. \A j \in 1 .. k + 1 : j \in Nat
    BY <1>3
  <2> HIDE DEF L, f, g
  <2>4. \A j \in 1 .. L - (k + 1) : shift'[j] = Loaded(cmd, reg[cmd.dev], (k + 1) + j)
    BY <1>9, <2>1, <2>2 DEF Rolled
  <2>5. \A j \in 1 .. k + 1 : shift'[L - (k + 1) + j] = DrBit(cmd, j)
    BY <1>9, <2>1, <2>3 DEF Rolled
  <2>6. QED BY <1>9, <2>4, <2>5 DEF Rolled
<1>12. DrShifted(k + 1)'
  BY <1>5, <1>11 DEF DrShifted
<1>13. QED BY <1>9, <1>10, <1>12

LEMMA KeptStep ==
  ASSUME JtagTyped, NEW p, Scanned(p), Jtag!Clock, NEW k, k = p - Entry(chain)
  PROVE  Kept(k + 1)' /\ got' \in Seq({0, 1})
<1> DEFINE S == Shifts(chain, cmd)
           x == KeptOf(cmd, result, k)
           y == KeptOf(cmd, result, k + 1)
           a == FirstKept(cmd, result)
           K == Keeps(cmd, k + 1)
           B(j) == Loaded(cmd, reg[cmd.dev], j)
           b == Head(shift)
<1>1. Addressable(cmd)
  BY CycleMade
<1>2. /\ k \in Int /\ Kept(k)
      /\ k \in 0 .. S - 1 => Head(scan).in = K
      /\ k \notin 0 .. S - 1 => Head(scan).in = FALSE
  BY DataBits
<1>3. /\ x \in Nat /\ a \in Nat /\ K \in BOOLEAN
      /\ k \in 0 .. S - 1 /\ K => y = x + 1 /\ a + x = k + 1
      /\ ~(k \in 0 .. S - 1 /\ K) => y = x
  <2>1. /\ result = 0 \/ cmd.kind = "transfer"
        /\ cmd.kind = "transfer" => IF result = 0 THEN k < cmd.dev + 2 ELSE k >= cmd.dev + 2
    BY DataBits
  <2>2. QED BY <1>1, <1>2, <2>1, KeptNext
<1>4. /\ got' = IF Head(scan).in THEN Append(got, b) ELSE got
      /\ UNCHANGED <<chain, reg, cmd, result>>
  <2>1. tap # "reset"
    <3>1. tap = TapAt(chain, cmd, p) /\ p \in Nat
      BY CycleMade DEF Scanned
    <3>2. QED BY <1>1, <3>1, TapKinds
  <2>2. QED BY <2>1, EdgeIs
<1>5. k \in 0 .. S - 1 => b = B(k + 1) /\ b \in {0, 1}
  BY DataShifts
<1>6. got \in Seq({0, 1}) /\ Len(got) = x /\ \A i \in 1 .. x : got[i] = B(a + i - 1)
  BY <1>2 DEF JtagTyped, Kept
<1> HIDE DEF S, x, y, a, K, B, b
<1>7. got' \in Seq({0, 1}) /\ Len(got') = y /\ \A i \in 1 .. y : got'[i] = B(a + i - 1)
  <2>1. CASE k \in 0 .. S - 1 /\ K
    <3>1. got' = Append(got, b)
      BY <1>2, <1>4, <2>1
    <3>2. /\ Append(got, b) \in Seq({0, 1}) /\ Len(Append(got, b)) = x + 1
          /\ \A i \in 1 .. x : Append(got, b)[i] = got[i]
          /\ Append(got, b)[x + 1] = b
      BY <1>5, <1>6, <2>1, AppendProperties
    <3>3. ASSUME NEW i \in 1 .. x + 1 PROVE Append(got, b)[i] = B(a + i - 1)
      <4>1. CASE i \in 1 .. x
        BY <1>6, <3>2, <4>1
      <4>2. CASE i = x + 1
        <5>1. a + i - 1 = k + 1
          BY <1>3, <2>1, <4>2
        <5>2. QED BY <1>5, <2>1, <3>2, <4>2, <5>1
      <4>3. i \in 1 .. x \/ i = x + 1
        BY <1>3
      <4>4. QED BY <4>1, <4>2, <4>3
    <3>4. y = x + 1
      BY <1>3, <2>1
    <3>5. QED BY <3>1, <3>2, <3>3, <3>4
  <2>2. CASE ~(k \in 0 .. S - 1 /\ K)
    <3>1. ~Head(scan).in
      BY <1>2, <2>2
    <3>2. got' = got /\ y = x
      BY <1>3, <1>4, <2>2, <3>1
    <3>3. QED BY <1>6, <3>2
  <2>3. QED BY <2>1, <2>2
<1>8. Kept(k + 1)'
  BY <1>4, <1>7 DEF Kept, y, a, B
<1>9. QED BY <1>7, <1>8

\* Where the bits of the device addressed are when the shift registers are full.
LEMMA OwnShifted ==
  ASSUME JtagTyped, Addressable(cmd), Addressed
  PROVE  Jtag!Shifted(cmd.dev) = SubSeq(shift, cmd.dev, cmd.dev - 1 + OwnBits(cmd))
<1> DEFINE d == cmd.dev
           n == Len(chain)
           l == [e \in 1 .. d - 1 |-> Len(Jtag!Captured(e))]
           o == OwnBits(cmd)
<1>1. d \in 1 .. n /\ n \in Nat /\ reg[d] \in JtagWords /\ Width \in Nat
  BY Places DEF JtagTyped
<1>2. Len(Jtag!Captured(d)) = o
  <2>1. Jtag!Captured(d) = Own(cmd, reg[d])
    BY <1>1, CapturedAre
  <2>2. QED BY <1>1, <2>1, OwnIs
<1>3. ASSUME NEW e \in 1 .. d - 1 PROVE l[e] = 1
  <2>1. e \in 1 .. n /\ e # d
    BY <1>1
  <2>2. Jtag!Captured(e) = <<0>>
    BY <2>1, CapturedAre
  <2>3. Len(<<0>>) = 1
    OBVIOUS
  <2>4. QED BY <2>2, <2>3
<1>4. Jtag!Start(d) = d - 1
  <2>1. l \in [1 .. d - 1 -> Int]
    <3>1. l = [e \in 1 .. d - 1 |-> l[e]]
      OBVIOUS
    <3> HIDE DEF l
    <3>2. QED BY <1>3, <3>1
  <2>2. Jtag!Start(d) = Jtag!SumOf(l)
    BY DEF Jtag!Start
  <2>3. Jtag!SumOf(l) = Total(l)
    BY SumIs
  <2>4. d - 1 \in Nat
    BY <1>1
  <2> HIDE DEF l
  <2>5. Total(l) = d - 1
    BY <1>3, <2>1, <2>4, TotalOfOnes
  <2>6. QED BY <2>2, <2>3, <2>5
<1>5. Jtag!Shifted(d) = SubSeq(shift, Jtag!Start(d) + 1, Jtag!Start(d) + Len(Jtag!Captured(d)))
  BY DEF Jtag!Shifted
<1>6. (d - 1) + 1 = d
  BY <1>1
<1>7. Jtag!Shifted(d) = SubSeq(shift, (d - 1) + 1, (d - 1) + o)
  BY <1>2, <1>4, <1>5
<1>8. QED BY <1>6, <1>7 DEF o

\* The parts of what has been shifted into the device.
LEMMA OwnParts ==
  ASSUME JtagTyped, Addressable(cmd), Addressed, DrShifted(Shifts(chain, cmd)),
         cmd.kind # "idcode", ~Waits(cmd)
  PROVE  LET s == Jtag!Shifted(cmd.dev)
         IN  /\ s[1] = (IF cmd.kind = "abort" THEN 0 ELSE cmd.request[1])
             /\ SubSeq(s, 1, 3) = IF cmd.kind = "abort" THEN <<0, 0, 0>> ELSE cmd.request
             /\ ~ReadsWord(cmd) => SubSeq(s, 4, 3 + Width) = cmd.data
<1> DEFINE d == cmd.dev
           n == Len(chain)
           W == Width
           L == Length(chain, cmd)
           s == Jtag!Shifted(d)
           abort == cmd.kind = "abort"
           r == cmd.request
<1>1. d \in 1 .. n /\ n \in Nat /\ W \in Nat /\ W >= 2
  BY Places
<1>2. /\ cmd.kind \in {"abort", "transfer"} /\ cmd.data \in [1 .. W -> {0, 1}]
      /\ ~abort => r \in {<<1, 0, 1>>, <<0, 1, 0>>}
  BY CommandKinds DEF Addressable
<1>3. OwnBits(cmd) = W + 3 /\ L = n - 1 + (W + 3) /\ Shifts(chain, cmd) = n + 2 + W
  BY DEF OwnBits, Length, Shifts
<1>4. s = SubSeq(shift, d, d - 1 + (W + 3))
  BY <1>3, OwnShifted
<1>5. shift \in Seq({0, 1}) /\ Len(shift) = L
  BY DEF JtagTyped, DrShifted
<1>6. \A j \in 1 .. L : shift[j] = DrBit(cmd, j)
  <2>1. Shifts(chain, cmd) = L /\ L \in Nat
    BY <1>1, <1>3
  <2>2. \A j \in 1 .. L : shift[L - L + j] = DrBit(cmd, j)
    BY <2>1 DEF DrShifted
  <2>3. \A j \in 1 .. L : L - L + j = j
    BY <2>1
  <2>4. QED BY <2>2, <2>3
<1>7. \A j : DrBit(cmd, j) =
        IF j < d THEN 1
        ELSE IF j <= d + 2 THEN (IF abort THEN 0 ELSE r[j - d + 1])
        ELSE IF ReadsWord(cmd) THEN r[3] ELSE cmd.data[IF j <= d + 2 + W THEN j - d - 2 ELSE W]
  BY DEF DrBit
<1>8. PartIs(shift, d, d - 1 + (W + 3), W + 3, {0, 1})
  <2> DEFINE e == d - 1 + (W + 3)
             m == W + 3
  <2>1. d \in Nat /\ e \in Nat /\ d >= 1 /\ e <= Len(shift) /\ m = e - d + 1
    BY <1>1, <1>3, <1>5
  <2> HIDE DEF d, e, m
  <2>2. PartIs(shift, d, e, m, {0, 1})
    BY <1>5, <2>1, PartOfSeq
  <2>3. QED BY <2>2 DEF e, m
<1>9. s \in [1 .. W + 3 -> {0, 1}] /\ \A i \in 1 .. W + 3 : s[i] = shift[d + i - 1]
  BY <1>4, <1>8 DEF PartIs
<1> HIDE DEF d, n, W, L, s, abort
<1>10. s \in Seq({0, 1}) /\ Len(s) = W + 3
  <2>1. W + 3 \in Nat
    BY <1>1
  <2>2. QED BY <1>9, <2>1, FunctionIsSeq
<1>11. ASSUME NEW i \in 1 .. W + 3 PROVE s[i] = DrBit(cmd, d + i - 1)
  <2>1. d + i - 1 \in 1 .. L
    BY <1>1, <1>3
  <2>2. QED BY <1>6, <1>9, <2>1
<1>12. ASSUME NEW i \in 1 .. 3 PROVE s[i] = IF abort THEN 0 ELSE r[i]
  <2>1. i \in 1 .. W + 3 /\ ~(d + i - 1 < d) /\ d + i - 1 <= d + 2 /\ (d + i - 1) - d + 1 = i
    BY <1>1
  <2>2. QED BY <1>7, <1>11, <2>1
<1>13. s[1] = IF abort THEN 0 ELSE r[1]
  BY <1>12
<1>14. SubSeq(s, 1, 3) = IF abort THEN <<0, 0, 0>> ELSE r
  <2>1. PartIs(s, 1, 3, 3, {0, 1})
    <3>1. 1 \in Nat /\ 3 \in Nat /\ 3 <= Len(s) /\ 3 = 3 - 1 + 1
      BY <1>1, <1>10
    <3>2. QED BY <1>10, <3>1, PartOfSeq
  <2> DEFINE t == SubSeq(s, 1, 3)
             y == IF abort THEN <<0, 0, 0>> ELSE r
  <2>2. t \in [1 .. 3 -> {0, 1}] /\ \A i \in 1 .. 3 : t[i] = s[1 + i - 1]
    BY <2>1 DEF PartIs
  <2> HIDE DEF t
  <2>3. y \in [1 .. 3 -> {0, 1}] /\ \A i \in 1 .. 3 : y[i] = IF abort THEN 0 ELSE r[i]
    <3>1. CASE abort
      <4>1. \A i \in 1 .. 3 : <<0, 0, 0>>[i] = 0
        OBVIOUS
      <4>2. <<0, 0, 0>> \in [1 .. 3 -> {0, 1}]
        OBVIOUS
      <4>3. QED BY <3>1, <4>1, <4>2
    <3>2. CASE ~abort
      <4>1. <<1, 0, 1>> \in [1 .. 3 -> {0, 1}] /\ <<0, 1, 0>> \in [1 .. 3 -> {0, 1}]
        OBVIOUS
      <4>2. QED BY <1>2, <3>2, <4>1
    <3>3. QED BY <3>1, <3>2
  <2> HIDE DEF y
  <2>4. \A i \in 1 .. 3 : t[i] = y[i]
    <3>1. \A i \in 1 .. 3 : 1 + i - 1 = i
      OBVIOUS
    <3>2. QED BY <1>12, <2>2, <2>3, <3>1
  <2>5. t = y
    BY <2>2, <2>3, <2>4
  <2>6. QED BY <2>5 DEF t, y
<1>15. ASSUME ~ReadsWord(cmd) PROVE SubSeq(s, 4, 3 + W) = cmd.data
  <2>1. PartIs(s, 4, 3 + W, W, {0, 1})
    <3> DEFINE e == 3 + W
    <3>1. 4 \in Nat /\ e \in Nat /\ 4 >= 1 /\ e <= Len(s) /\ W = e - 4 + 1
      BY <1>1, <1>10
    <3> HIDE DEF e
    <3>2. PartIs(s, 4, e, W, {0, 1})
      BY <1>10, <3>1, PartOfSeq
    <3>3. QED BY <3>2 DEF e
  <2>2. PICK t : t = SubSeq(s, 4, 3 + W)
    OBVIOUS
  <2>3. PICK y : y = cmd.data
    OBVIOUS
  <2>4. t \in [1 .. W -> {0, 1}] /\ \A i \in 1 .. W : t[i] = s[4 + i - 1]
    BY <2>1, <2>2 DEF PartIs
  <2>5. y \in [1 .. W -> {0, 1}]
    BY <1>2, <2>3
  <2>6. ASSUME NEW i \in 1 .. W PROVE t[i] = y[i]
    <3> DEFINE a == 4 + i - 1
               j == d + a - 1
    <3>1. /\ a \in 1 .. W + 3 /\ ~(j < d) /\ ~(j <= d + 2) /\ j <= d + 2 + W /\ j - d - 2 = i
      BY <1>1
    <3>2. s[a] = DrBit(cmd, j)
      BY <1>11, <3>1
    <3>3. t[i] = s[a]
      BY <2>4
    <3> HIDE DEF a, j
    <3>4. DrBit(cmd, j) = cmd.data[i]
      BY <1>7, <1>15, <3>1
    <3>5. QED BY <2>3, <3>2, <3>3, <3>4
  <2>7. t \in [1 .. W -> {0, 1}] /\ W \in Nat
    BY <1>1, <2>4
  <2>8. t = y
    BY <2>5, <2>6, <2>7
  <2>9. QED BY <2>2, <2>3, <2>8
<1>16. QED BY <1>13, <1>14, <1>15 DEF s, d, abort, W

LEMMA DrUpdates ==
  ASSUME JtagTyped, NEW p, Scanned(p), Jtag!Clock, p = Entry(chain) + Shifts(chain, cmd) + 1
  PROVE  done' = IF cmd.kind = "idcode" \/ Waits(cmd) THEN {} ELSE Jtag!Effect(cmd)
<1> DEFINE d == cmd.dev
           n == Len(chain)
           s == Jtag!Shifted(d)
           U(e) == Jtag!Updated(e)
           idle == cmd.kind = "idcode" \/ Waits(cmd)
<1>1. Addressable(cmd) /\ p \in Nat /\ tap = TapAt(chain, cmd, p)
  BY CycleMade DEF Scanned
<1>2. tap = "updateDr"
  BY <1>1, TapKinds
<1>3. Entry(chain) = IrBits(chain) + 9 /\ IrBits(chain) \in Nat /\ Shifts(chain, cmd) \in Nat
      /\ d \in 1 .. n
  BY <1>1, Places, ShiftsAre
<1>4. Addressed /\ DrShifted(Shifts(chain, cmd)) /\ done = {}
  <2>1. p >= IrBits(chain) + 6 /\ p < Entry(chain) + Shifts(chain, cmd) + 2
    BY <1>3
  <2>2. QED BY <2>1 DEF Scanned, InIr, InDr, Effected
<1>5. done' = UNION {U(e) : e \in 1 .. n}
  <2>1. tap # "reset"
    BY <1>2
  <2>2. done' = done \cup UNION {U(e) : e \in DOMAIN chain}
    BY <1>2, <2>1, EdgeIs
  <2>3. DOMAIN chain = 1 .. n
    <3>1. Lengths(n)
      BY <1>1, LengthsAre DEF Addressable
    <3>2. QED BY <3>1 DEF Lengths
  <2>4. QED BY <1>4, <2>2, <2>3
<1>6. ASSUME NEW e \in 1 .. n, e # d PROVE U(e) = {}
  <2>1. ~Jtag!Accesses(e) /\ ~Jtag!Has(e, "abort")
    BY <1>1, <1>4, <1>6, CapturedAre
  <2>2. QED BY <2>1 DEF Jtag!Updated
<1>7. /\ Jtag!Accesses(d) <=> cmd.kind = "transfer"
      /\ Jtag!Has(d, "apacc") <=> cmd.kind = "transfer" /\ cmd.port = "apacc"
      /\ Jtag!Has(d, "abort") <=> cmd.kind = "abort"
  BY <1>1, <1>3, <1>4, CapturedAre
<1>8. /\ cmd.kind \in {"idcode", "abort", "transfer"}
      /\ cmd.kind = "transfer" => cmd.port \in {"dpacc", "apacc"} /\ cmd.wait \in BOOLEAN
  BY <1>1, CommandKinds DEF Addressable
<1>9. U(d) = IF idle THEN {} ELSE Jtag!Effect(cmd)
  <2>1. CASE idle
    <3>1. CASE cmd.kind = "idcode"
      <4>1. ~Jtag!Accesses(d) /\ ~Jtag!Has(d, "abort")
        BY <1>7, <3>1
      <4>2. QED BY <2>1, <4>1 DEF Jtag!Updated
    <3>2. CASE Waits(cmd)
      <4>1. cmd.kind = "transfer" /\ cmd.wait /\ ~Jtag!Has(d, "abort")
        BY <1>7, <3>2 DEF Waits
      <4>2. QED BY <2>1, <4>1 DEF Jtag!Updated
    <3>3. QED BY <2>1, <3>1, <3>2
  <2>2. CASE ~idle
    <3>1. /\ s[1] = (IF cmd.kind = "abort" THEN 0 ELSE cmd.request[1])
          /\ SubSeq(s, 1, 3) = (IF cmd.kind = "abort" THEN <<0, 0, 0>> ELSE cmd.request)
          /\ ~ReadsWord(cmd) => SubSeq(s, 4, 3 + Width) = cmd.data
      BY <1>1, <1>4, <2>2, OwnParts
    <3>2. CASE cmd.kind = "abort"
      <4>1. ~Jtag!Accesses(d) /\ Jtag!Has(d, "abort") /\ ~ReadsWord(cmd)
        BY <1>7, <3>2 DEF ReadsWord
      <4>2. SubSeq(s, 1, 3) = <<0, 0, 0>> /\ SubSeq(s, 4, 3 + Width) = cmd.data
        BY <3>1, <3>2, <4>1
      <4>3. U(d) = {[dev |-> d, kind |-> "abort", request |-> SubSeq(s, 1, 3),
                     data |-> SubSeq(s, 4, 3 + Width)]}
        BY <4>1, Zenon DEF Jtag!Updated, Width
      <4>4. Jtag!Effect(cmd) = {[dev |-> d, kind |-> "abort", request |-> <<0, 0, 0>>, data |-> cmd.data]}
        BY <3>2 DEF Jtag!Effect
      <4>5. QED BY <2>2, <4>2, <4>3, <4>4
    <3>3. CASE cmd.kind = "transfer"
      <4> DEFINE data == IF cmd.request[1] = 1 THEN <<>> ELSE cmd.data
      <4>1. Jtag!Accesses(d) /\ ~cmd.wait /\ (ReadsWord(cmd) <=> cmd.request[1] = 1)
        BY <1>7, <2>2, <3>3 DEF ReadsWord, Waits
      <4>2. SubSeq(s, 1, 3) = cmd.request /\ s[1] = cmd.request[1]
        BY <3>1, <3>3
      <4>3. (IF s[1] = 1 THEN <<>> ELSE SubSeq(s, 4, 3 + Width)) = data
        BY <3>1, <4>1, <4>2
      <4>4. (IF Jtag!Has(d, "apacc") THEN "apacc" ELSE "dpacc") = cmd.port
        BY <1>7, <1>8, <3>3
      <4>5. U(d) = {[dev |-> d, kind |-> IF Jtag!Has(d, "apacc") THEN "apacc" ELSE "dpacc",
                     request |-> SubSeq(s, 1, 3),
                     data |-> IF s[1] = 1 THEN <<>> ELSE SubSeq(s, 4, 3 + Width)]}
        BY <4>1 DEF Jtag!Updated, Width
      <4>6. Jtag!Effect(cmd) = {[dev |-> d, kind |-> cmd.port, request |-> cmd.request, data |-> data]}
        BY <3>3 DEF Jtag!Effect
      <4> HIDE DEF U, s, data
      <4>7. QED BY <2>2, <4>2, <4>3, <4>4, <4>5, <4>6
    <3>4. QED BY <1>8, <2>2, <3>2, <3>3
  <2>3. QED BY <2>1, <2>2
<1>10. done' = U(d)
  <2> HIDE DEF U, d, n
  <2>1. QED BY <1>3, <1>5, <1>6
<1>11. QED BY <1>9, <1>10

LEMMA ClockKeeps ==
  ASSUME JtagTyped, NEW p, Scanned(p), Jtag!Clock
  PROVE  JtagTyped' /\ Scanned(p + 1)'
<1> DEFINE T == IrBits(chain)
           E == Entry(chain)
           S == Shifts(chain, cmd)
<1>0. PICK k : k = p - Entry(chain)
  OBVIOUS
<1>1. /\ Addressable(cmd) /\ p \in Nat /\ p + 1 \in Nat
      /\ p + 1 \in (IF result = 0 THEN 0 ELSE AckAt(chain, cmd)) .. Known(chain, cmd, result)
      /\ scan' \in Seq(CycleSet) /\ Len(scan') = Known(chain, cmd, result) - (p + 1)
      /\ \A i \in 1 .. Len(scan') : scan'[i] = Moves(chain, cmd)[(p + 1) + i - 1]
      /\ tap' = TapAt(chain, cmd, p + 1) /\ tap' \in DOMAIN Jtag!Tap
      /\ Head(scan) \in CycleSet
  BY CycleMade
<1>2. T \in Nat /\ T >= 4 /\ E = T + 9 /\ S \in Nat /\ S >= 1 /\ E \in Nat
  BY <1>1, Places, ShiftsAre
<1>3. /\ tap = "captureIr" <=> p = 3
      /\ tap = "shiftIr" <=> p \in 4 .. T + 3
      /\ tap = "updateIr" <=> p = T + 5
      /\ tap = "captureDr" <=> p = E - 1
      /\ tap = "shiftDr" <=> p \in E .. E + S - 1
      /\ tap = "updateDr" <=> p = E + S + 1
      /\ tap # "reset"
  <2>1. tap = TapAt(chain, cmd, p)
    BY DEF Scanned
  <2>2. QED BY <1>1, <2>1, TapKinds
<1>4. /\ tap = "captureIr" =>
           shift' = Jtag!FlattenSeq([d \in DOMAIN chain |-> <<1>> \o Jtag!Same(0, chain[d] - 1)])
      /\ tap = "captureDr" => shift' = Jtag!FlattenSeq([d \in DOMAIN chain |-> Jtag!Captured(d)])
      /\ tap \notin {"captureIr", "captureDr", "shiftIr", "shiftDr"} => shift' = shift
      /\ tap # "updateIr" => instr' = instr
      /\ tap # "updateDr" => done' = done
      /\ UNCHANGED <<chain, reg, cmd, result, commands>>
  <2>1. tap # "reset"
    BY <1>3
  <2>2. QED BY <2>1, EdgeIs
<1>5. chain' = chain /\ reg' = reg /\ cmd' = cmd /\ result' = result /\ commands' = commands
      /\ T' = T /\ E' = E /\ S' = S
  BY <1>4
<1>6. /\ instr \in [1 .. Len(chain) -> Seq({0, 1})] /\ chain \in Chains
      /\ \A d \in 1 .. Len(chain) : Len(instr[d]) = chain[d]
      /\ reg \in [1 .. Len(chain) -> JtagWords] /\ shift \in Seq({0, 1})
      /\ commands \in 0 .. MaxCommands
  BY DEF JtagTyped
<1>7. InIr(p) /\ InDr(p) /\ Effected(p)
  BY DEF Scanned
<1>8. k \in Int /\ k + 1 = (p + 1) - E
      /\ (k \in 0 .. S => DrShifted(k)) /\ (k \in 0 .. S - 1 => DrShifted(k + 1)' /\ shift' \in Seq({0, 1}))
  <2>1. k \in Int /\ k + 1 = (p + 1) - E /\ (k \in 0 .. S => DrShifted(k))
    BY <1>0, DataBits
  <2>2. k \in 0 .. S - 1 => DrShifted(k + 1)' /\ shift' \in Seq({0, 1})
    BY <1>0, DataShifts
  <2>3. QED BY <2>1, <2>2
<1>9. p >= T + 6 => Addressed
  BY <1>7 DEF InIr
<1>10. shift' \in Seq({0, 1})
  <2>1. CASE tap = "captureIr"
    BY <1>4, <1>6, <2>1, IrCaptured
  <2>2. CASE tap = "captureDr"
    <3>1. Addressed
      BY <1>2, <1>3, <1>9, <2>2
    <3>2. reg[cmd.dev] \in JtagWords
      BY <1>1, <1>6, Places
    <3>3. QED BY <1>1, <1>4, <2>2, <3>1, <3>2, DrCaptured
  <2>3. CASE tap = "shiftIr"
    BY <1>3, <2>3, IrShifts
  <2>4. CASE tap = "shiftDr"
    <3>1. k \in 0 .. S - 1
      BY <1>0, <2>4, DataBits
    <3>2. QED BY <1>8, <3>1
  <2>5. CASE tap \notin {"captureIr", "captureDr", "shiftIr", "shiftDr"}
    BY <1>4, <1>6, <2>5
  <2>6. QED BY <2>1, <2>2, <2>3, <2>4, <2>5
<1>11. instr' \in [1 .. Len(chain) -> Seq({0, 1})] /\ \A d \in 1 .. Len(chain) : Len(instr'[d]) = chain[d]
  <2>1. CASE tap = "updateIr"
    BY <1>3, <2>1, IrUpdates
  <2>2. CASE tap # "updateIr"
    BY <1>4, <1>6, <2>2
  <2>3. QED BY <2>1, <2>2
<1>12. Kept((p + 1) - E)' /\ got' \in Seq({0, 1})
  <2>1. Kept(k + 1)' /\ got' \in Seq({0, 1})
    BY <1>0, KeptStep
  <2>2. k + 1 = (p + 1) - E
    BY <1>8
  <2>3. Kept((p + 1) - E)'
    <3>1. ((p + 1) - E)' = k + 1
      BY <1>5, <2>2
    <3>2. QED BY <2>1, <3>1
  <2>4. QED BY <2>1, <2>3
<1>13. JtagTyped'
  BY <1>1, <1>5, <1>6, <1>10, <1>11, <1>12 DEF JtagTyped, CycleSet
<1>14. InIr(p + 1)'
  <2>1. p + 1 \in 4 .. T + 4 => IrShifted((p + 1) - 4)'
    <3>1. CASE p = 3
      <4>1. shift' = Jtag!FlattenSeq([d \in DOMAIN chain |-> <<1>> \o Jtag!Same(0, chain[d] - 1)])
        BY <1>3, <1>4, <3>1
      <4>2. Len(shift') = T
        BY <1>6, <4>1, IrCaptured
      <4>3. (p + 1) - 4 = 0
        BY <3>1
      <4>4. IrShifted(0)'
        <5>1. \A j \in 1 .. 0 : FALSE
          OBVIOUS
        <5>2. QED BY <1>5, <4>2, <5>1 DEF IrShifted
      <4>5. QED BY <4>3, <4>4
    <3>2. CASE p \in 4 .. T + 3
      BY <3>2, IrShifts
    <3>3. p + 1 \in 4 .. T + 4 => p = 3 \/ p \in 4 .. T + 3
      BY <1>1, <1>2
    <3>4. QED BY <3>1, <3>2, <3>3
  <2>2. p + 1 = T + 5 => IrShifted(T)'
    <3> SUFFICES ASSUME p + 1 = T + 5 PROVE IrShifted(T)'
      OBVIOUS
    <3>1. p = T + 4 /\ p \in 4 .. T + 4 /\ p - 4 = T
      BY <1>1, <1>2
    <3>2. IrShifted(T)
      BY <1>7, <3>1 DEF InIr
    <3>3. tap \notin {"captureIr", "captureDr", "shiftIr", "shiftDr"}
      <4>1. p # 3 /\ p \notin 4 .. T + 3 /\ p # E - 1 /\ p \notin E .. E + S - 1
        BY <1>2, <3>1
      <4>2. QED BY <1>3, <4>1
    <3>4. shift' = shift
      BY <1>4, <3>3
    <3>5. QED BY <1>5, <3>2, <3>4 DEF IrShifted
  <2>3. p + 1 >= T + 6 => Addressed'
    <3>1. CASE p = T + 5
      BY <3>1, IrUpdates
    <3>2. CASE p >= T + 6
      <4>1. Addressed /\ instr' = instr
        <5>1. p # T + 5
          BY <1>1, <1>2, <3>2
        <5>2. QED BY <1>3, <1>4, <1>9, <3>2, <5>1
      <4>2. QED BY <1>5, <4>1 DEF Addressed, Jtag!Has, Jtag!Bypassed, Jtag!IsDap
    <3>3. p + 1 >= T + 6 => p = T + 5 \/ p >= T + 6
      BY <1>1, <1>2
    <3>4. QED BY <3>1, <3>2, <3>3
  <2> HIDE DEF T
  <2>4. QED BY <1>5, <2>1, <2>2, <2>3 DEF InIr, T
<1>15. InDr(p + 1)'
  <2>1. p + 1 \in E .. E + S => DrShifted((p + 1) - E)'
    <3>1. CASE p = E - 1
      <4>1. Addressed
        BY <1>2, <1>9, <3>1
      <4>2. reg[cmd.dev] \in JtagWords
        BY <1>1, <1>6, Places
      <4>3. shift' = Jtag!FlattenSeq([d \in DOMAIN chain |-> Jtag!Captured(d)])
        BY <1>3, <1>4, <3>1
      <4>4. /\ Len(shift') = Length(chain, cmd)
            /\ \A j \in 1 .. Length(chain, cmd) : shift'[j] = Loaded(cmd, reg[cmd.dev], j)
        BY <1>1, <4>1, <4>2, <4>3, DrCaptured
      <4>5. DrShifted(0)'
        <5>1. \A j \in 1 .. 0 : FALSE
          OBVIOUS
        <5>2. Length(chain, cmd) \in Nat
          BY <1>1, ShiftsAre
        <5>3. Length(chain, cmd) - 0 = Length(chain, cmd)
          BY <5>2
        <5>4. \A j \in 1 .. Length(chain, cmd) - 0 : shift'[j] = Loaded(cmd, reg[cmd.dev], 0 + j)
          <6>1. \A j \in 1 .. Length(chain, cmd) : 0 + j = j
            OBVIOUS
          <6>2. QED BY <4>4, <5>3, <6>1
        <5>5. QED BY <1>5, <4>4, <5>1, <5>4 DEF DrShifted
      <4>6. (p + 1) - E = 0 /\ E' = E
        BY <1>2, <1>5, <3>1
      <4>7. ((p + 1) - E)' = 0
        BY <4>6
      <4>8. QED BY <4>5, <4>7
    <3>2. CASE p \in E .. E + S - 1
      <4>1. k \in 0 .. S - 1
        BY <1>0, <1>1, <1>2, <3>2
      <4>2. DrShifted(k + 1)' /\ ((p + 1) - E)' = k + 1
        BY <1>5, <1>8, <4>1
      <4>3. QED BY <4>2
    <3>3. p + 1 \in E .. E + S => p = E - 1 \/ p \in E .. E + S - 1
      BY <1>1, <1>2
    <3>4. QED BY <3>1, <3>2, <3>3
  <2>2. p + 1 = E + S + 1 => DrShifted(S)'
    <3> SUFFICES ASSUME p + 1 = E + S + 1 PROVE DrShifted(S)'
      OBVIOUS
    <3>1. p = E + S /\ k = S
      BY <1>0, <1>1, <1>2
    <3>2. DrShifted(S)
      BY <1>2, <1>8, <3>1
    <3>3. tap \notin {"captureIr", "captureDr", "shiftIr", "shiftDr"}
      <4>1. p # 3 /\ p \notin 4 .. T + 3 /\ p # E - 1 /\ p \notin E .. E + S - 1
        BY <1>2, <3>1
      <4>2. QED BY <1>3, <4>1
    <3>4. shift' = shift
      BY <1>4, <3>3
    <3>5. QED BY <1>5, <3>2, <3>4 DEF DrShifted
  <2>3. Kept((p + 1) - E)'
    BY <1>12
  <2> HIDE DEF E, S
  <2>4. QED BY <1>5, <2>1, <2>2, <2>3 DEF InDr, E, S
<1>16. Effected(p + 1)'
  <2> DEFINE idle == cmd.kind = "idcode" \/ Waits(cmd)
             eff == Jtag!Effect(cmd)
  <2>1. done = IF p < E + S + 2 \/ idle THEN {} ELSE eff
    BY <1>7 DEF Effected
  <2>2. p = E + S + 1 => done' = IF idle THEN {} ELSE eff
    BY DrUpdates
  <2>3. p # E + S + 1 => done' = done
    BY <1>3, <1>4
  <2> HIDE DEF E, S, idle, eff
  <2>4. done' = IF p + 1 < E + S + 2 \/ idle THEN {} ELSE eff
    BY <1>1, <1>2, <2>1, <2>2, <2>3
  <2>5. QED BY <1>5, <2>4 DEF Effected, E, S, idle, eff
<1>17. Asked'
  <2>1. Asked
    BY DEF Scanned
  <2>2. Jtag!Commands' = Jtag!Commands
    BY <1>5 DEF Jtag!Commands, Jtag!IsDap
  <2>3. QED BY <1>5, <2>1, <2>2 DEF Asked
<1>18. QED BY <1>1, <1>5, <1>13, <1>14, <1>15, <1>16, <1>17 DEF Scanned

\* A command is taken up: what is to be clocked then, if it is known at once.
LEMMA BeginScans ==
  ASSUME JtagTyped, Unused, NEW c \in Jtag!Commands, Jtag!Begin(c)
  PROVE  JtagTyped' /\ (Refused' \/ Scanned(0)')
<1>1. /\ chain \in Chains /\ tap = "idle" /\ commands \in 0 .. MaxCommands /\ commands < MaxCommands
      /\ commands' = commands + 1 /\ cmd' = c /\ got' = <<>> /\ done' = {}
      /\ UNCHANGED <<chain, tap, instr, shift>>
  BY DEF JtagTyped, Unused, Jtag!Begin
<1>2. commands' \in 0 .. MaxCommands
  BY <1>1, ChainFacts
<1>3. reg' \in [1 .. Len(chain) -> JtagWords]
  <2>1. PICK w \in JtagWords : reg' = [d \in DOMAIN chain |->
                                  IF d = c.dev THEN w ELSE CHOOSE v \in JtagWords : v # w]
    BY DEF Jtag!Begin
  <2>2. DOMAIN chain = 1 .. Len(chain)
    <3>1. Lengths(Len(chain))
      BY <1>1, LengthsAre
    <3>2. QED BY <3>1 DEF Lengths
  <2>3. (CHOOSE v \in JtagWords : v # w) \in JtagWords
    <3>1. \E v \in JtagWords : v # w
      BY ChainFacts
    <3>2. QED BY <3>1
  <2>4. QED BY <2>1, <2>2, <2>3
<1>4. Jtag!Commands' = Jtag!Commands
  BY <1>1 DEF Jtag!Commands, Jtag!IsDap
<1>5. JtagTyped' <=> scan' \in Seq(CycleSet)
  BY <1>1, <1>2, <1>3 DEF JtagTyped, CycleSet
<1>6. c.dev \in 1 .. Len(chain) + 1 /\ Len(chain) \in Nat
  <2>1. Lengths(Len(chain))
    BY <1>1, LengthsAre
  <2>2. QED BY <1>1, <2>1, CommandKinds DEF Lengths
<1>7. CASE c.dev > Len(chain)
  <2>1. scan' = <<>> /\ result' = Jtag!Error
    BY <1>7 DEF Jtag!Begin
  <2>2. c.dev = Len(chain) + 1
    BY <1>6, <1>7
  <2>3. Refused'
    BY <1>1, <1>4, <2>1, <2>2 DEF Refused
  <2>4. QED BY <1>5, <2>1, <2>3
<1>8. CASE ~(c.dev > Len(chain))
  <2> DEFINE K == Known(chain, c, 0)
             plan == Moves(chain, c)
  <2>1. Addressable(c)
    BY <1>1, <1>6, <1>8 DEF Addressable
  <2>2. /\ result' = 0
        /\ scan' = CASE c.kind = "idcode" -> Jtag!JtagIr("idcode", c.dev) \o Jtag!ReadIDCode(c.dev)
                     [] c.kind = "abort" -> Jtag!JtagIr("abort", c.dev) \o Jtag!WriteAbort(c.dev, c.data)
                     [] c.kind = "transfer" ->
                          Jtag!JtagIr(c.port, c.dev) \o Jtag!Before(c.dev) \o Jtag!Acknowledged(c.request)
    BY <1>8 DEF Jtag!Begin
  <2>3. c.kind \in {"idcode", "abort", "transfer"}
    BY <1>1, CommandKinds
  <2>4. Runs(scan', plan, 0, K)
    <3>1. CASE c.kind = "idcode"
      <4>1. scan' = Jtag!JtagIr("idcode", c.dev) \o Jtag!ReadIDCode(c.dev)
        BY <2>2, <3>1
      <4>2. QED BY <2>1, <3>1, <4>1, IdcodeRuns
    <3>2. CASE c.kind = "abort"
      <4>1. scan' = Jtag!JtagIr("abort", c.dev) \o Jtag!WriteAbort(c.dev, c.data)
        BY <2>2, <3>2
      <4>2. QED BY <2>1, <3>2, <4>1, AbortRuns
    <3>3. CASE c.kind = "transfer"
      <4>1. scan' = Jtag!JtagIr(c.port, c.dev) \o Jtag!Before(c.dev) \o Jtag!Acknowledged(c.request)
        BY <2>2, <3>3
      <4>2. QED BY <2>1, <3>3, <4>1, TransferRuns
    <3>4. QED BY <2>3, <3>1, <3>2, <3>3
  <2>5. /\ scan' \in Seq(CycleSet) /\ Len(scan') = K
        /\ \A i \in 1 .. Len(scan') : scan'[i] = plan[0 + i - 1]
    BY <2>4 DEF Runs
  <2>6. IrBits(chain) \in Nat /\ IrBits(chain) >= 4 /\ Entry(chain) = IrBits(chain) + 9
        /\ Shifts(chain, c) \in Nat /\ c.dev \in Nat /\ c.dev >= 1 /\ K \in Nat
    <3>1. /\ IrBits(chain) \in Nat /\ IrBits(chain) >= 4 /\ Entry(chain) = IrBits(chain) + 9
          /\ Shifts(chain, c) \in Nat /\ c.dev \in Nat /\ c.dev >= 1
      BY <2>1, Places, ShiftsAre
    <3>2. QED BY <3>1 DEF Known, AckAt
  <2>7. Asked'
    BY <1>1, <1>4, <1>6, <1>8, <2>2 DEF Asked
  <2>8. tap' = TapAt(chain, c, 0)
    BY <1>1, <2>6 DEF TapAt
  <2>9. InIr(0)'
    <3>1. 0 \notin 4 .. IrBits(chain) + 4 /\ 0 # IrBits(chain) + 5 /\ ~(0 >= IrBits(chain) + 6)
      BY <2>6
    <3>2. IrBits(chain') = IrBits(chain)
      BY <1>1
    <3>3. QED BY <3>1, <3>2 DEF InIr
  <2>10. InDr(0)'
    <3> DEFINE E == Entry(chain)
               S == Shifts(chain, c)
    <3>1. 0 \notin E .. E + S /\ 0 # E + S + 1 /\ 0 - E < 1 /\ 0 - E \in Int
      BY <2>6
    <3>2. KeptOf(c, 0, 0 - E) = 0
      <4>1. FirstKept(c, 0) = c.dev
        BY DEF FirstKept
      <4> HIDE DEF E
      <4>2. 0 - E < c.dev
        BY <2>6, <3>1
      <4>3. QED BY <4>1, <4>2 DEF KeptOf
    <3>3. Kept(0 - E)'
      <4>1. Len(<<>>) = 0 /\ \A i \in 1 .. 0 : FALSE
        OBVIOUS
      <4>2. got' = <<>> /\ KeptOf(cmd', result', 0 - Entry(chain')) = 0
        BY <1>1, <2>2, <3>2
      <4>3. QED BY <4>1, <4>2 DEF Kept
    <3>4. Entry(chain') = E /\ Shifts(chain', cmd') = S
      BY <1>1
    <3>5. Kept(0 - Entry(chain))'
      BY <3>3
    <3> HIDE DEF E, S
    <3>6. QED BY <3>1, <3>4, <3>5 DEF InDr
  <2>11. Effected(0)'
    <3>1. 0 < Entry(chain) + Shifts(chain, c) + 2
      BY <2>6
    <3>2. QED BY <1>1, <3>1 DEF Effected
  <2>12. /\ 0 \in (IF result' = 0 THEN 0 ELSE AckAt(chain', cmd')) .. Known(chain', cmd', result')
         /\ Known(chain', cmd', result') = K /\ K - 0 = K /\ Moves(chain', cmd') = plan
         /\ tap' = TapAt(chain', cmd', 0)
    BY <1>1, <2>2, <2>6, <2>8
  <2> HIDE DEF K, plan
  <2>13. Scanned(0)'
    BY <2>5, <2>7, <2>9, <2>10, <2>11, <2>12 DEF Scanned
  <2>14. QED BY <1>5, <2>5, <2>13
<1>9. QED BY <1>7, <1>8

\* What has been read once all the bits that are kept have been.
LEMMA KeptAll ==
  ASSUME JtagTyped, Addressable(cmd), NEW r, r = result, r = 0 \/ cmd.kind = "transfer",
         NEW k \in Int, k >= FirstKept(cmd, r), k >= LastKept(cmd, r), Kept(k)
  PROVE  /\ Len(got) = LastKept(cmd, r) - FirstKept(cmd, r) + 1
         /\ \A i \in 1 .. Len(got) : FirstKept(cmd, r) + i <= cmd.dev + OwnBits(cmd) =>
              got[i] = Own(cmd, reg[cmd.dev])[FirstKept(cmd, r) - cmd.dev + i]
<1> DEFINE a == FirstKept(cmd, r)
           b == LastKept(cmd, r)
           d == cmd.dev
           o == OwnBits(cmd)
           w == reg[d]
<1>1. d \in Nat /\ Width \in Nat
  BY Places
<1>2. a \in {d, d + 3}
  BY DEF FirstKept
<1>3. o \in Nat /\ b \in Int
  BY <1>1 DEF OwnBits, LastKept
<1>4. Len(got) = KeptOf(cmd, r, k) /\ \A i \in 1 .. Len(got) : got[i] = Loaded(cmd, w, a + i - 1)
  BY DEF Kept
<1>5. \A j : Loaded(cmd, w, j) = IF j \in d .. d + o - 1 THEN Own(cmd, w)[j - d + 1] ELSE 0
  BY DEF Loaded
<1>6. KeptOf(cmd, r, k) = IF k < a THEN 0 ELSE (IF k < b THEN k ELSE b) - a + 1
  BY DEF KeptOf
<1>7. k >= a /\ k >= b /\ Len(got) \in Nat
  BY LenProperties DEF JtagTyped
<1> HIDE DEF a, b, d, o, w
<1>8. Len(got) = b - a + 1
  BY <1>1, <1>2, <1>3, <1>4, <1>6, <1>7
<1>9. ASSUME NEW i \in 1 .. Len(got), a + i <= d + o PROVE got[i] = Own(cmd, w)[a - d + i]
  <2>1. a + i - 1 \in d .. d + o - 1 /\ (a + i - 1) - d + 1 = a - d + i
    BY <1>1, <1>2, <1>3, <1>7, <1>9
  <2>2. QED BY <1>4, <1>5, <2>1
<1>10. QED BY <1>8, <1>9 DEF a, b, d, o, w

\* What a device answers and then shifts out.
LEMMA OwnOfTransfer ==
  ASSUME NEW c, Addressable(c), c.kind = "transfer", NEW w \in JtagWords
  PROVE  /\ c.wait => Own(c, w)[1] = 1 /\ Own(c, w)[2] = 0 /\ Own(c, w)[3] = 0
         /\ ~c.wait => Own(c, w)[1] = 0 /\ Own(c, w)[2] = 1 /\ Own(c, w)[3] = 0
         /\ \A i \in 1 .. Width : Own(c, w)[3 + i] = w[i]
<1> DEFINE a == IF c.wait THEN <<1, 0, 0>> ELSE <<0, 1, 0>>
<1>1. Width \in Nat /\ w \in [1 .. Width -> {0, 1}]
  BY ChainFacts
<1>2. w \in Seq({0, 1}) /\ Len(w) = Width
  BY <1>1, FunctionIsSeq
<1>3. a \in Seq({0, 1}) /\ Len(a) = 3
  <2>1. <<1, 0, 0>> \in Seq({0, 1}) /\ Len(<<1, 0, 0>>) = 3
        /\ <<0, 1, 0>> \in Seq({0, 1}) /\ Len(<<0, 1, 0>>) = 3
    OBVIOUS
  <2>2. QED BY <2>1
<1>4. Own(c, w) = a \o w
  BY DEF Own
<1>5. /\ c.wait => a[1] = 1 /\ a[2] = 0 /\ a[3] = 0
      /\ ~c.wait => a[1] = 0 /\ a[2] = 1 /\ a[3] = 0
  OBVIOUS
<1> HIDE DEF a
<1>6. Joint(a, w, 3, Width)
  BY <1>2, <1>3, Joining
<1>7. /\ (a \o w)[1] = a[1] /\ (a \o w)[2] = a[2] /\ (a \o w)[3] = a[3]
      /\ \A i \in 1 .. Width : (a \o w)[3 + i] = w[i]
  <2>1. 1 \in 1 .. 3 /\ 2 \in 1 .. 3 /\ 3 \in 1 .. 3
    OBVIOUS
  <2>2. QED BY <1>6, <2>1 DEF Joint
<1>8. QED BY <1>4, <1>5, <1>7

\* The acknowledge has been read, and is what the device gave.
LEMMA AckIs ==
  ASSUME JtagTyped, NEW p \in Nat, Scanned(p), Jtag!AckRead
  PROVE  /\ Addressable(cmd) /\ p = AckAt(chain, cmd) /\ p \in Nat
         /\ result' = IF cmd.wait THEN 2 ELSE 1
<1> DEFINE d == cmd.dev
           E == Entry(chain)
<1>1. cmd.kind = "transfer" /\ scan = <<>> /\ result = 0 /\ result' = Jtag!Ack(got)
  BY DEF Jtag!AckRead
<1>2. Addressable(cmd)
  BY DEF JtagTyped, Scanned, Asked, Addressable
<1>3. E \in Nat /\ d \in Nat /\ d >= 1 /\ reg[d] \in JtagWords /\ Width \in Nat
  <2>1. d \in 1 .. Len(chain)
    BY <1>2, Places
  <2>2. QED BY <1>2, <2>1, Places DEF JtagTyped
<1>4. p = E + d + 2 /\ AckAt(chain, cmd) = E + d + 2
  <2>1. Len(scan) = Known(chain, cmd, result) - p
    BY DEF Scanned
  <2>2. Len(scan) = 0
    BY <1>1
  <2>3. Known(chain, cmd, result) = E + d + 2
    BY <1>1 DEF Known, AckAt
  <2> HIDE DEF E, d
  <2>4. QED BY <1>3, <2>1, <2>2, <2>3 DEF AckAt, E, d
<1>5. PICK k : k = d + 2
  OBVIOUS
<1>6. Kept(k)
  <2>1. p - E = k
    BY <1>3, <1>4, <1>5
  <2>2. Kept(p - E)
    BY DEF Scanned, InDr
  <2>3. QED BY <2>1, <2>2
<1>7. FirstKept(cmd, 0) = d /\ LastKept(cmd, 0) = d + 2 /\ OwnBits(cmd) = Width + 3
  BY <1>1 DEF FirstKept, LastKept, OwnBits
<1>8. /\ Len(got) = LastKept(cmd, 0) - FirstKept(cmd, 0) + 1
      /\ \A i \in 1 .. Len(got) : FirstKept(cmd, 0) + i <= cmd.dev + OwnBits(cmd) =>
           got[i] = Own(cmd, reg[cmd.dev])[FirstKept(cmd, 0) - cmd.dev + i]
  <2>1. k \in Int /\ k >= FirstKept(cmd, 0) /\ k >= LastKept(cmd, 0)
    BY <1>3, <1>5, <1>7
  <2>2. QED BY <1>1, <1>2, <1>6, <2>1, KeptAll
<1>9. \A i \in 1 .. 3 : got[i] = Own(cmd, reg[d])[i]
  <2>1. Len(got) = 3
    BY <1>3, <1>7, <1>8
  <2>2. \A i \in 1 .. 3 : d + i <= d + (Width + 3) /\ d - d + i = i
    BY <1>3
  <2>3. QED BY <1>7, <1>8, <2>1, <2>2
<1>10. /\ cmd.wait => got[1] = 1 /\ got[2] = 0 /\ got[3] = 0
       /\ ~cmd.wait => got[1] = 0 /\ got[2] = 1 /\ got[3] = 0
  BY <1>1, <1>2, <1>3, <1>9, OwnOfTransfer
<1>11. Jtag!Ack(got) = got[1] * 2 + got[2] + got[3] * 4
  BY DEF Jtag!Ack
<1>12. Jtag!Ack(got) = IF cmd.wait THEN 2 ELSE 1
  BY <1>10, <1>11
<1>13. QED BY <1>1, <1>2, <1>4, <1>12

LEMMA AckKeeps ==
  ASSUME JtagTyped, NEW p \in Nat, Scanned(p), Jtag!AckRead
  PROVE  JtagTyped' /\ Scanned(p)'
<1> DEFINE d == cmd.dev
           E == Entry(chain)
           S == Shifts(chain, cmd)
<1>1. Addressable(cmd) /\ p = AckAt(chain, cmd) /\ result' = IF cmd.wait THEN 2 ELSE 1
  BY AckIs
<1>2. /\ cmd.kind = "transfer" /\ scan = <<>> /\ result = 0 /\ result' = Jtag!Ack(got) /\ got' = <<>>
      /\ UNCHANGED <<chain, tap, instr, shift, reg, done, cmd, commands>>
      /\ scan' = (IF Jtag!Ack(got) = Jtag!Ok THEN Jtag!Data(cmd) ELSE Jtag!Tms(<<1>>))
                   \o Jtag!Finish \o Jtag!Idle(cmd.idle)
  BY DEF Jtag!AckRead
<1>3. PICK r : r = result'
  OBVIOUS
<1>4. r \in {1, 2} /\ (r = 1 <=> ~cmd.wait)
  BY <1>1, <1>3
<1>5. scan' = (IF r = 1 THEN Jtag!Data(cmd) ELSE Jtag!Tms(<<1>>)) \o Jtag!Finish \o Jtag!Idle(cmd.idle)
  BY <1>2, <1>3 DEF Jtag!Ok
<1>6. Runs(scan', Moves(chain, cmd), p, Known(chain, cmd, r) - p)
  BY <1>1, <1>2, <1>4, <1>5, RestRuns
<1>7. /\ scan' \in Seq(CycleSet) /\ Len(scan') = Known(chain, cmd, r) - p
      /\ \A i \in 1 .. Len(scan') : scan'[i] = Moves(chain, cmd)[p + i - 1]
  BY <1>6 DEF Runs
<1>8. /\ E \in Nat /\ S \in Nat /\ d \in Nat /\ S >= d + 3 /\ p = E + d + 2
      /\ cmd.idle \in Nat /\ Known(chain, cmd, r) = E + S + 2 + cmd.idle
  <2>1. E \in Nat /\ S \in Nat /\ d \in Nat /\ S >= d + 3
    BY <1>1, <1>2, Places, ShiftsAre
  <2>2. cmd.idle \in IdleCycles
    BY <1>1, <1>2, CommandKinds DEF Addressable
  <2>3. IdleCycles \subseteq Nat
    BY ChainFacts
  <2>4. p = E + d + 2 /\ Known(chain, cmd, r) = E + S + 2 + cmd.idle
    BY <1>1, <1>2, <1>4 DEF AckAt, Known
  <2>5. QED BY <2>1, <2>2, <2>3, <2>4
<1>9. JtagTyped'
  <2>1. got' \in Seq({0, 1})
    BY <1>2
  <2>2. QED BY <1>2, <1>7, <2>1 DEF JtagTyped, CycleSet
<1>10. Asked'
  <2>1. Asked
    BY DEF Scanned
  <2>2. Jtag!Commands' = Jtag!Commands
    BY <1>2 DEF Jtag!Commands, Jtag!IsDap
  <2>3. QED BY <1>1, <1>2, <2>1, <2>2 DEF Asked, Jtag!Ok
<1>11. InIr(p)'
  <2>1. InIr(p)
    BY DEF Scanned
  <2>2. QED BY <1>2, <2>1 DEF InIr, IrShifted, Addressed, Jtag!Has, Jtag!Bypassed, Jtag!IsDap
<1>12. InDr(p)'
  <2>1. InDr(p)
    BY DEF Scanned
  <2>2. /\ p \in E .. E + S => DrShifted(p - E)'
        /\ p = E + S + 1 => DrShifted(S)'
    <3>1. DrShifted(p - E) => DrShifted(p - E)'
      BY <1>2 DEF DrShifted
    <3>2. DrShifted(S) => DrShifted(S)'
      BY <1>2 DEF DrShifted
    <3>3. QED BY <2>1, <3>1, <3>2 DEF InDr
  <2>3. Kept(p - E)'
    <3>1. KeptOf(cmd, r, p - E) = 0
      <4>1. FirstKept(cmd, r) = d + 3
        BY <1>2, <1>4 DEF FirstKept
      <4> HIDE DEF E, d
      <4>2. p - E < d + 3
        BY <1>8
      <4>3. QED BY <4>1, <4>2 DEF KeptOf
    <3>2. Len(<<>>) = 0 /\ \A i \in 1 .. 0 : FALSE
      OBVIOUS
    <3>3. got' = <<>> /\ KeptOf(cmd', result', p - Entry(chain')) = 0
      BY <1>2, <1>3, <3>1
    <3>4. QED BY <3>2, <3>3 DEF Kept
  <2>4. E' = E /\ S' = S
    BY <1>2
  <2> HIDE DEF E, S
  <2>5. QED BY <2>2, <2>3, <2>4 DEF InDr, E, S
<1>13. Effected(p)'
  <2>1. Effected(p)
    BY DEF Scanned
  <2>2. QED BY <1>2, <2>1 DEF Effected
<1>14. p \in (IF r = 0 THEN 0 ELSE AckAt(chain, cmd)) .. Known(chain, cmd, r)
  <2>1. AckAt(chain, cmd) = p
    BY <1>1
  <2>2. QED BY <1>4, <1>8, <2>1
<1>15. /\ p \in (IF result' = 0 THEN 0 ELSE AckAt(chain', cmd')) .. Known(chain', cmd', result')
       /\ Len(scan') = Known(chain', cmd', result') - p
       /\ \A i \in 1 .. Len(scan') : scan'[i] = Moves(chain', cmd')[p + i - 1]
       /\ tap' = TapAt(chain', cmd', p)
  <2>1. tap = TapAt(chain, cmd, p)
    BY DEF Scanned
  <2>2. chain' = chain /\ cmd' = cmd /\ tap' = tap /\ result' = r
    BY <1>2, <1>3
  <2>3. QED BY <1>7, <1>14, <2>1, <2>2
<1>16. QED BY <1>9, <1>10, <1>11, <1>12, <1>13, <1>15 DEF Scanned

\* A scan that has ended has come to Run-Test/Idle with all that was planned.
LEMMA EndedIs ==
  ASSUME JtagTyped, NEW p \in Nat, Scanned(p), Jtag!Ended
  PROVE  /\ Addressable(cmd) /\ scan = <<>> /\ tap = "idle" /\ Addressed
         /\ p >= Entry(chain) + Shifts(chain, cmd) + 2
         /\ result = 0 \/ cmd.kind = "transfer"
         /\ cmd.kind = "transfer" => result = IF cmd.wait THEN 2 ELSE 1
         /\ done = IF cmd.kind = "idcode" \/ Waits(cmd) THEN {} ELSE Jtag!Effect(cmd)
<1> DEFINE T == IrBits(chain)
           E == Entry(chain)
           S == Shifts(chain, cmd)
<1>1. scan = <<>> /\ (cmd.kind = "transfer" => result # 0)
  BY DEF Jtag!Ended
<1>2. Addressable(cmd)
  BY DEF JtagTyped, Scanned, Asked, Addressable
<1>3. T \in Nat /\ E = T + 9 /\ S \in Nat /\ S >= 1 /\ (cmd.kind = "transfer" => cmd.idle \in Nat)
  <2>1. T \in Nat /\ E = T + 9 /\ S \in Nat /\ S >= 1
    BY <1>2, Places, ShiftsAre
  <2>2. cmd.kind = "transfer" => cmd.idle \in IdleCycles
    BY <1>2, CommandKinds DEF Addressable
  <2>3. IdleCycles \subseteq Nat
    BY ChainFacts
  <2>4. QED BY <2>1, <2>2, <2>3
<1>4. /\ result = 0 \/ cmd.kind = "transfer"
      /\ cmd.kind = "transfer" => result = IF cmd.wait THEN 2 ELSE 1
  BY <1>1 DEF Scanned, Asked, Jtag!Ok
<1>5. Known(chain, cmd, result) = E + S + 2 + IF cmd.kind = "transfer" THEN cmd.idle ELSE 0
  <2>1. E + S + 2 + 0 = E + S + 2
    BY <1>3
  <2>2. QED BY <1>1, <2>1 DEF Known
<1>6. p >= E + S + 2
  <2>1. Len(scan) = Known(chain, cmd, result) - p /\ Len(scan) = 0
    BY <1>1 DEF Scanned
  <2> DEFINE i == IF cmd.kind = "transfer" THEN cmd.idle ELSE 0
             e == E + S + 2
             l == Known(chain, cmd, result)
  <2>2. e \in Nat /\ i \in Nat /\ l = e + i /\ 0 = l - p
    <3>1. i \in Nat
      BY <1>3
    <3>2. e \in Nat
      <4> HIDE DEF E, S, T
      <4>1. QED BY <1>3
    <3>3. l = e + i
      BY <1>5
    <3> HIDE DEF e, i, l
    <3>4. 0 = l - p
      BY <2>1 DEF l
    <3>5. QED BY <3>1, <3>2, <3>3, <3>4
  <2> HIDE DEF e, i, l
  <2>3. p >= e
    BY <2>2
  <2>4. QED BY <2>3 DEF e
<1>7. tap = "idle"
  <2>1. tap = TapAt(chain, cmd, p)
    BY DEF Scanned
  <2>2. ~(p < T + 6) /\ ~(p < E) /\ ~(p < E + S) /\ p # E + S /\ p # E + S + 1
    BY <1>3, <1>6
  <2>3. QED BY <2>1, <2>2 DEF TapAt
<1>8. Addressed
  <2>1. p >= T + 6
    BY <1>3, <1>6
  <2>2. QED BY <2>1 DEF Scanned, InIr
<1>9. done = IF cmd.kind = "idcode" \/ Waits(cmd) THEN {} ELSE Jtag!Effect(cmd)
  <2>1. ~(p < E + S + 2)
    BY <1>3, <1>6
  <2>2. QED BY <2>1 DEF Scanned, Effected
<1>10. QED BY <1>1, <1>2, <1>4, <1>6, <1>7, <1>8, <1>9

\* What a command that reads has read is the word of the device addressed.
LEMMA ChainWordRead ==
  ASSUME JtagTyped, NEW p \in Nat, Scanned(p), Jtag!Ended,
         cmd.kind = "idcode" \/ (cmd.kind = "transfer" /\ result = Jtag!Ok /\ cmd.request[1] = 1)
  PROVE  got = reg[cmd.dev]
<1> DEFINE d == cmd.dev
           S == Shifts(chain, cmd)
           E == Entry(chain)
           w == reg[d]
           W == Width
<1>1. /\ Addressable(cmd) /\ p >= E + S + 2 /\ (result = 0 \/ cmd.kind = "transfer")
      /\ cmd.kind = "transfer" => result = IF cmd.wait THEN 2 ELSE 1
  BY EndedIs
<1>2. /\ d \in 1 .. Len(chain) /\ Len(chain) \in Nat /\ W \in Nat /\ W >= 2 /\ E \in Nat /\ S \in Nat
  BY <1>1, Places, ShiftsAre
<1>3. w \in JtagWords /\ w \in [1 .. W -> {0, 1}]
  BY <1>2, ChainFacts DEF JtagTyped
<1>4. got \in Seq({0, 1})
  BY DEF JtagTyped
<1>5. PICK k : k = p - E
  OBVIOUS
<1>6. Kept(k)
  BY <1>5 DEF Scanned, InDr
<1>7. PICK r : r = result
  OBVIOUS
<1>8. k \in Int /\ k >= S + 2
  BY <1>1, <1>2, <1>5
<1>9. Len(got) = W /\ \A i \in 1 .. W : got[i] = w[i]
  <2>1. CASE cmd.kind = "idcode"
    <3>1. /\ FirstKept(cmd, r) = d /\ LastKept(cmd, r) = d - 1 + W /\ OwnBits(cmd) = W /\ S = d - 1 + W
          /\ Own(cmd, w) = w
      BY <2>1 DEF FirstKept, LastKept, OwnBits, Shifts, Own
    <3>2. k >= FirstKept(cmd, r) /\ k >= LastKept(cmd, r)
      BY <1>2, <1>8, <3>1
    <3>3. /\ Len(got) = LastKept(cmd, r) - FirstKept(cmd, r) + 1
          /\ \A i \in 1 .. Len(got) : FirstKept(cmd, r) + i <= d + OwnBits(cmd) =>
               got[i] = Own(cmd, w)[FirstKept(cmd, r) - d + i]
      BY <1>1, <1>6, <1>7, <1>8, <3>2, KeptAll
    <3>4. Len(got) = W
      BY <1>2, <3>1, <3>3
    <3>5. \A i \in 1 .. W : d + i <= d + W /\ d - d + i = i
      BY <1>2
    <3>6. QED BY <3>1, <3>3, <3>4, <3>5
  <2>2. CASE cmd.kind # "idcode"
    <3>1. cmd.kind = "transfer" /\ r = 1 /\ ~cmd.wait /\ ReadsWord(cmd)
      <4>1. cmd.kind = "transfer" /\ result = 1 /\ cmd.request[1] = 1
        BY <2>2 DEF Jtag!Ok
      <4>2. QED BY <1>1, <1>7, <4>1 DEF ReadsWord
    <3>2. /\ FirstKept(cmd, r) = d + 3 /\ LastKept(cmd, r) = d + 2 + W /\ OwnBits(cmd) = W + 3
          /\ S = Len(chain) + 2 + W
      BY <3>1 DEF FirstKept, LastKept, OwnBits, Shifts, Waits
    <3>3. k >= FirstKept(cmd, r) /\ k >= LastKept(cmd, r)
      BY <1>2, <1>8, <3>2
    <3>4. /\ Len(got) = LastKept(cmd, r) - FirstKept(cmd, r) + 1
          /\ \A i \in 1 .. Len(got) : FirstKept(cmd, r) + i <= d + OwnBits(cmd) =>
               got[i] = Own(cmd, w)[FirstKept(cmd, r) - d + i]
      BY <1>1, <1>6, <1>7, <1>8, <3>3, KeptAll
    <3>5. Len(got) = W
      BY <1>2, <3>2, <3>4
    <3>6. \A i \in 1 .. W : (d + 3) + i <= d + (W + 3) /\ (d + 3) - d + i = 3 + i
      BY <1>2
    <3>7. \A i \in 1 .. W : Own(cmd, w)[3 + i] = w[i]
      BY <1>1, <1>3, <3>1, OwnOfTransfer
    <3>8. QED BY <3>2, <3>4, <3>5, <3>6, <3>7
  <2>3. QED BY <2>1, <2>2
<1>10. got \in [1 .. W -> {0, 1}]
  BY <1>4, <1>9
<1> HIDE DEF W, w
<1>11. got = w
  BY <1>2, <1>3, <1>9, <1>10
<1>12. QED BY <1>11 DEF w

\* No more bits are kept than an acknowledge and a word have.
LEMMA KeptFew ==
  ASSUME JtagTyped, NEW p \in Nat, Scanned(p) PROVE Len(got) <= Width + 3
<1>1. Addressable(cmd)
  BY DEF JtagTyped, Scanned, Asked, Addressable
<1>2. PICK r : r = result
  OBVIOUS
<1>3. PICK k : k = p - Entry(chain)
  OBVIOUS
<1> DEFINE a == FirstKept(cmd, r)
           b == LastKept(cmd, r)
           d == cmd.dev
<1>4. Len(got) = KeptOf(cmd, r, k)
  BY <1>2, <1>3 DEF Scanned, InDr, Kept
<1>5. k \in Int /\ d \in Nat /\ Width \in Nat
  BY <1>1, <1>3, Places
<1>6. KeptOf(cmd, r, k) = IF k < a THEN 0 ELSE (IF k < b THEN k ELSE b) - a + 1
  BY DEF KeptOf
<1>7. a \in {d, d + 3} /\ b \in {d - 1 + Width, d - 1, d + 2 + Width, d + 2}
  BY DEF FirstKept, LastKept
<1> HIDE DEF a, b, d
<1>8. a \in Int /\ b \in Int /\ b - a + 1 <= Width + 3
  BY <1>5, <1>7
<1>9. QED BY <1>4, <1>5, <1>6, <1>8

LEMMA JtagHolds ==
  ASSUME JtagTyped, JtagStages PROVE Jtag!TypeOK /\ Jtag!ChainExact
<1>1. Lengths(Len(chain)) /\ DOMAIN chain = 1 .. Len(chain)
  <2>1. Lengths(Len(chain))
    BY LengthsAre DEF JtagTyped
  <2>2. QED BY <2>1 DEF Lengths
<1>2. Jtag!TypeOK
  <2>1. Len(got) <= Width + 3
    <3>1. CASE got = <<>>
      BY <3>1, ChainFacts
    <3>2. ASSUME NEW p \in Nat, Scanned(p) PROVE Len(got) <= Width + 3
      BY <3>2, KeptFew
    <3>3. QED BY <3>1, <3>2 DEF JtagStages, Unused, Refused
  <2>2. ASSUME NEW d \in 1 .. Len(chain) PROVE instr[d] \in [1 .. chain[d] -> {0, 1}] /\ reg[d] \in JtagWords
    <3>1. instr[d] \in Seq({0, 1}) /\ Len(instr[d]) = chain[d] /\ reg[d] \in JtagWords
      BY DEF JtagTyped
    <3>2. QED BY <3>1
  <2>3. \A i \in DOMAIN shift : shift[i] \in {0, 1}
    <3>1. shift \in Seq({0, 1})
      BY DEF JtagTyped
    <3>2. QED BY <3>1
  <2>4. chain \in Chains /\ tap \in DOMAIN Jtag!Tap /\ commands \in 0 .. MaxCommands
    BY DEF JtagTyped
  <2>5. QED BY <1>1, <2>1, <2>2, <2>3, <2>4 DEF Jtag!TypeOK, Jtag!Bit, Width
<1>3. Jtag!ChainExact
  <2> SUFFICES ASSUME Jtag!Ended
               PROVE  /\ tap = "idle"
                      /\ IF cmd.dev > Len(chain) THEN result = Jtag!Error /\ done = {}
                         ELSE /\ \A d \in DOMAIN chain : d # cmd.dev => Jtag!Bypassed(d)
                              /\ done = IF cmd.kind = "idcode" \/ (cmd.kind = "transfer" /\ cmd.wait)
                                        THEN {} ELSE Jtag!Effect(cmd)
                              /\ cmd.kind = "transfer" => (result = Jtag!Ok <=> ~cmd.wait)
                              /\ cmd.kind = "idcode"
                                   \/ (cmd.kind = "transfer" /\ result = Jtag!Ok /\ cmd.request[1] = 1)
                                   => got = reg[cmd.dev]
    BY DEF Jtag!ChainExact
  <2>1. ~Unused
    BY DEF Unused, Jtag!Ended
  <2>2. CASE Refused
    <3>1. cmd.dev > Len(chain)
      BY <1>1, <2>2 DEF Refused, Lengths
    <3>2. QED BY <2>2, <3>1 DEF Refused
  <2>3. ASSUME NEW p \in Nat, Scanned(p)
        PROVE  /\ tap = "idle" /\ ~(cmd.dev > Len(chain))
               /\ \A d \in DOMAIN chain : d # cmd.dev => Jtag!Bypassed(d)
               /\ done = IF cmd.kind = "idcode" \/ (cmd.kind = "transfer" /\ cmd.wait)
                         THEN {} ELSE Jtag!Effect(cmd)
               /\ cmd.kind = "transfer" => (result = Jtag!Ok <=> ~cmd.wait)
               /\ cmd.kind = "idcode" \/ (cmd.kind = "transfer" /\ result = Jtag!Ok /\ cmd.request[1] = 1)
                    => got = reg[cmd.dev]
    <3>1. /\ Addressable(cmd) /\ tap = "idle" /\ Addressed
          /\ cmd.kind = "transfer" => result = IF cmd.wait THEN 2 ELSE 1
          /\ done = IF cmd.kind = "idcode" \/ Waits(cmd) THEN {} ELSE Jtag!Effect(cmd)
      BY <2>3, EndedIs
    <3>2. ~(cmd.dev > Len(chain))
      BY <3>1, Places
    <3>3. \A d \in DOMAIN chain : d # cmd.dev => Jtag!Bypassed(d)
      BY <1>1, <3>1 DEF Addressed
    <3>4. done = IF cmd.kind = "idcode" \/ (cmd.kind = "transfer" /\ cmd.wait) THEN {} ELSE Jtag!Effect(cmd)
      BY <3>1 DEF Waits
    <3>5. cmd.kind = "transfer" => (result = Jtag!Ok <=> ~cmd.wait)
      BY <3>1 DEF Jtag!Ok
    <3>6. cmd.kind = "idcode" \/ (cmd.kind = "transfer" /\ result = Jtag!Ok /\ cmd.request[1] = 1)
            => got = reg[cmd.dev]
      BY <2>3, ChainWordRead
    <3>7. QED BY <3>1, <3>2, <3>3, <3>4, <3>5, <3>6
  <2>4. CASE \E p \in Nat : Scanned(p)
    <3>1. PICK p \in Nat : Scanned(p)
      BY <2>4
    <3>2. /\ tap = "idle" /\ ~(cmd.dev > Len(chain))
          /\ \A d \in DOMAIN chain : d # cmd.dev => Jtag!Bypassed(d)
          /\ done = IF cmd.kind = "idcode" \/ (cmd.kind = "transfer" /\ cmd.wait)
                    THEN {} ELSE Jtag!Effect(cmd)
          /\ cmd.kind = "transfer" => (result = Jtag!Ok <=> ~cmd.wait)
          /\ cmd.kind = "idcode" \/ (cmd.kind = "transfer" /\ result = Jtag!Ok /\ cmd.request[1] = 1)
               => got = reg[cmd.dev]
      BY <2>3, <3>1
    <3>3. QED BY <3>2
  <2>5. QED BY <2>1, <2>2, <2>4 DEF JtagStages
<1>4. QED BY <1>2, <1>3

LEMMA JtagInit == ASSUME Jtag!Init PROVE JtagTyped /\ JtagStages
<1>1. /\ chain \in Chains /\ tap = "idle" /\ shift = <<>> /\ cmd = Jtag!None /\ scan = <<>> /\ got = <<>>
      /\ instr = [d \in DOMAIN chain |-> IF Jtag!IsDap(chain, d) THEN Jtag!Instruction["idcode"]
                                         ELSE Jtag!Same(1, chain[d])]
      /\ reg = [d \in DOMAIN chain |-> CHOOSE w \in JtagWords : TRUE] /\ commands = 0
  BY DEF Jtag!Init
<1>2. DOMAIN chain = 1 .. Len(chain) /\ \A d \in 1 .. Len(chain) : chain[d] \in Nat
  <2>1. Lengths(Len(chain))
    BY <1>1, LengthsAre
  <2>2. QED BY <2>1 DEF Lengths
<1>3. ASSUME NEW d \in 1 .. Len(chain) PROVE instr[d] \in Seq({0, 1}) /\ Len(instr[d]) = chain[d]
  <2>1. instr[d] = IF Jtag!IsDap(chain, d) THEN Jtag!Instruction["idcode"] ELSE Jtag!Same(1, chain[d])
    BY <1>1, <1>2
  <2>2. CASE Jtag!IsDap(chain, d)
    <3>1. Jtag!Instruction["idcode"] = <<0, 1, 1, 1>>
      BY DEF Jtag!Instruction
    <3>2. <<0, 1, 1, 1>> \in Seq({0, 1}) /\ Len(<<0, 1, 1, 1>>) = 4
      BY FewBits
    <3>3. QED BY <2>1, <2>2, <3>1, <3>2 DEF Jtag!IsDap
  <2>3. CASE ~Jtag!IsDap(chain, d)
    <3>1. Jtag!Same(1, chain[d]) \in Seq({0, 1}) /\ Len(Jtag!Same(1, chain[d])) = chain[d]
      BY <1>2, SameIs
    <3>2. QED BY <2>1, <2>3, <3>1
  <2>4. QED BY <2>2, <2>3
<1>4. instr \in [1 .. Len(chain) -> Seq({0, 1})]
  <2>1. instr = [d \in 1 .. Len(chain) |-> instr[d]]
    BY <1>1, <1>2
  <2>2. QED BY <1>3, <2>1
<1>5. reg \in [1 .. Len(chain) -> JtagWords]
  <2>1. (CHOOSE w \in JtagWords : TRUE) \in JtagWords
    BY ChainFacts
  <2>2. QED BY <1>1, <1>2, <2>1
<1>6. "idle" \in DOMAIN Jtag!Tap
  BY DEF Jtag!Tap
<1>7. commands \in 0 .. MaxCommands
  BY <1>1, ChainFacts
<1>8. shift \in Seq({0, 1}) /\ got \in Seq({0, 1}) /\ scan \in Seq([tms : {0, 1}, tdi : {0, 1}, in : BOOLEAN])
  BY <1>1
<1>9. JtagTyped
  BY <1>1, <1>3, <1>4, <1>5, <1>6, <1>7, <1>8 DEF JtagTyped
<1>10. QED BY <1>1, <1>9 DEF JtagStages, Unused

LEMMA JtagStep == ASSUME JtagTyped, JtagStages, Jtag!Next PROVE JtagTyped' /\ JtagStages'
<1>1. CASE Jtag!Command
  <2>1. PICK c \in Jtag!Commands : Jtag!Begin(c)
    BY <1>1 DEF Jtag!Command
  <2>2. cmd = Jtag!None
    BY <2>1 DEF Jtag!Begin
  <2>3. cmd \notin Jtag!Commands
    <3> SUFFICES ASSUME cmd \in Jtag!Commands PROVE FALSE
      OBVIOUS
    <3>1. cmd.kind \in {"idcode", "abort", "transfer"}
      BY CommandKinds DEF JtagTyped
    <3>2. cmd.kind = "none"
      BY <2>2 DEF Jtag!None
    <3>3. QED BY <3>1, <3>2
  <2>4. Unused
    BY <2>3 DEF JtagStages, Refused, Scanned, Asked
  <2>5. JtagTyped' /\ (Refused' \/ Scanned(0)')
    BY <2>1, <2>4, BeginScans
  <2>6. CASE Refused'
    BY <2>5, <2>6 DEF JtagStages
  <2>7. CASE Scanned(0)'
    <3>1. \E p \in Nat : Scanned(p)'
      BY <2>7
    <3>2. QED BY <2>5, <3>1 DEF JtagStages
  <2>8. QED BY <2>5, <2>6, <2>7
<1>2. CASE Jtag!Clock
  <2>1. scan # <<>>
    BY <1>2 DEF Jtag!Clock
  <2>2. PICK p \in Nat : Scanned(p)
    BY <2>1 DEF JtagStages, Unused, Refused
  <2>3. JtagTyped' /\ Scanned(p + 1)'
    BY <1>2, <2>2, ClockKeeps
  <2>4. \E q \in Nat : Scanned(q)'
    BY <2>3
  <2>5. QED BY <2>3, <2>4 DEF JtagStages
<1>3. CASE Jtag!AckRead
  <2>1. cmd.kind = "transfer" /\ result = 0
    BY <1>3 DEF Jtag!AckRead
  <2>2. ~Unused /\ ~Refused
    <3>1. ~Unused
      BY <2>1 DEF Unused, Jtag!None
    <3>2. ~Refused
      BY <2>1 DEF Refused, Jtag!Error
    <3>3. QED BY <3>1, <3>2
  <2>3. PICK p \in Nat : Scanned(p)
    BY <2>2 DEF JtagStages
  <2>4. JtagTyped' /\ Scanned(p)'
    BY <1>3, <2>3, AckKeeps
  <2>5. \E q \in Nat : Scanned(q)'
    BY <2>4
  <2>6. QED BY <2>4, <2>5 DEF JtagStages
<1>4. CASE Jtag!Answer
  <2>1. /\ Jtag!Ended /\ cmd' = Jtag!None /\ result' = 0 /\ got' = <<>>
        /\ UNCHANGED <<chain, tap, instr, shift, reg, done, scan, commands>>
    BY <1>4 DEF Jtag!Answer
  <2>2. scan = <<>> /\ tap = "idle"
    <3>1. scan = <<>> /\ ~Unused
      BY <2>1 DEF Jtag!Ended, Unused
    <3>2. CASE Refused
      BY <3>1, <3>2 DEF Refused
    <3>3. CASE \E p \in Nat : Scanned(p)
      BY <2>1, <3>3, EndedIs
    <3>4. QED BY <3>1, <3>2, <3>3 DEF JtagStages
  <2>3. Unused'
    BY <2>1, <2>2 DEF Unused
  <2>4. JtagTyped'
    <3>1. got' \in Seq({0, 1})
      BY <2>1
    <3>2. QED BY <2>1, <3>1 DEF JtagTyped
  <2>5. QED BY <2>3, <2>4 DEF JtagStages
<1>5. QED BY <1>1, <1>2, <1>3, <1>4 DEF Jtag!Next

\* A JTAG chain: for any lengths of the instruction registers, any words and any
\* number of commands, a command does what was asked to the device addressed,
\* nothing to the others, reads the word of that device, and leaves the TAPs in
\* Run-Test/Idle.
THEOREM ChainOfAll == MCSpec => []ChainExact
<1> DEFINE I == part = "jtag" => JtagTyped /\ JtagStages
<1>1. MCInit => I
  BY JtagInit DEF MCInit
<1>2. I /\ [MCNext]_<<part, vars, jtagVars, swdVars, packetVars>> => I'
  <2> SUFFICES ASSUME I, [MCNext]_<<part, vars, jtagVars, swdVars, packetVars>> PROVE I'
    OBVIOUS
  <2>1. CASE JtagNext
    BY <2>1, JtagStep DEF JtagNext
  <2>2. ASSUME UNCHANGED <<part, jtagVars>> PROVE I'
    <3>1. /\ part' = part /\ chain' = chain /\ tap' = tap /\ instr' = instr /\ shift' = shift
          /\ reg' = reg /\ done' = done /\ cmd' = cmd /\ scan' = scan /\ got' = got
          /\ result' = result /\ commands' = commands
      BY <2>2 DEF jtagVars
    <3>2. JtagTyped => JtagTyped'
      BY <3>1 DEF JtagTyped
    <3>3. Jtag!Commands' = Jtag!Commands
      BY <3>1 DEF Jtag!Commands, Jtag!IsDap
    <3>4. (Unused => Unused') /\ (Refused => Refused')
      BY <3>1, <3>3 DEF Unused, Refused
    <3>5. ASSUME NEW p \in Nat, Scanned(p) PROVE Scanned(p)'
      <4>1. Asked'
        BY <3>1, <3>3, <3>5 DEF Scanned, Asked
      <4>2. InIr(p)'
        <5>1. InIr(p)
          BY <3>5 DEF Scanned
        <5>2. QED BY <3>1, <5>1 DEF InIr, IrShifted, Addressed, Jtag!Has, Jtag!Bypassed, Jtag!IsDap
      <4>3. InDr(p)'
        <5>1. InDr(p)
          BY <3>5 DEF Scanned
        <5>2. QED BY <3>1, <5>1 DEF InDr, DrShifted, Kept
      <4>4. Effected(p)'
        BY <3>1, <3>5 DEF Scanned, Effected
      <4>5. QED BY <3>1, <3>5, <4>1, <4>2, <4>3, <4>4 DEF Scanned
    <3>6. (\E p \in Nat : Scanned(p)) => \E p \in Nat : Scanned(p)'
      BY <3>5
    <3>7. JtagStages => JtagStages'
      BY <3>4, <3>6 DEF JtagStages
    <3>8. QED BY <3>1, <3>2, <3>7
  <2>3. CASE SerialNext
    BY <2>2, <2>3 DEF SerialNext
  <2>4. CASE OverlappingNext
    BY <2>2, <2>4 DEF OverlappingNext
  <2>5. CASE SwdNext
    BY <2>2, <2>5 DEF SwdNext
  <2>6. CASE PacketNext
    BY <2>2, <2>6 DEF PacketNext
  <2>7. CASE UNCHANGED <<part, vars, jtagVars, swdVars, packetVars>>
    BY <2>2, <2>7
  <2>8. QED BY <2>1, <2>3, <2>4, <2>5, <2>6, <2>7 DEF MCNext
<1>3. I => ChainExact
  BY JtagHolds DEF ChainExact
<1>4. QED BY <1>1, <1>2, <1>3, PTL DEF MCSpec
=============================================================================
