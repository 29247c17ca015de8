-------------------------- MODULE RingBufferProofs --------------------------
(***************************************************************************)
(* The ring of RingBuffer.tla for every pool size, word width and byte     *)
(* set: its type invariant, the inductive invariant behind it, and the     *)
(* disjointness of the two sides; and that it implements the bounded FIFO  *)
(* of BoundedFifo.tla: every step of the two contexts is a step of the     *)
(* FIFO, or changes nothing a user of it can see.                          *)
(***************************************************************************)
EXTENDS RingBuffer, SequenceTheorems, TLAPS

-----------------------------------------------------------------------------
(* Arithmetic of slots.                                                    *)

\* Division with remainder, as the provers know it.
LEMMA DivMod ==
  ASSUME NEW i \in Nat
  PROVE  /\ i % Size \in 0..Size-1 /\ i \div Size \in Int
         /\ i = Size * (i \div Size) + (i % Size)
BY SizeAssumption

\* Multiplication by the pool size is monotonic.
LEMMA MulMonotonic ==
  ASSUME NEW a \in Int, NEW b \in Int, NEW s \in Nat, a <= b
  PROVE  s * a <= s * b
OBVIOUS

\* A representation with a remainder in range is the division.
LEMMA ModUnique ==
  ASSUME NEW i \in Nat, NEW q \in Int, NEW r \in 0..Size-1, i = Size * q + r
  PROVE  i % Size = r /\ i \div Size = q
<1> DEFINE p == i \div Size
           m == i % Size
<1>1. p \in Int /\ m \in 0..Size-1 /\ i = Size * p + m
  BY DivMod
<1> HIDE DEF p, m
<1>2. ASSUME p < q PROVE FALSE
  <2>1. Size * (p + 1) <= Size * q BY <1>1, <1>2, MulMonotonic, SizeAssumption
  <2>2. Size * (p + 1) = Size * p + Size BY <1>1, SizeAssumption
  <2>3. QED BY <2>1, <2>2, <1>1, SizeAssumption
<1>3. ASSUME q < p PROVE FALSE
  <2>1. Size * (q + 1) <= Size * p BY <1>1, <1>3, MulMonotonic, SizeAssumption
  <2>2. Size * (q + 1) = Size * q + Size BY <1>1, SizeAssumption
  <2>3. QED BY <2>1, <2>2, <1>1, SizeAssumption
<1>4. p = q BY <1>1, <1>2, <1>3
<1>5. m = r BY <1>1, <1>4, SizeAssumption
<1>6. QED BY <1>4, <1>5 DEF p, m

\* A slot is an index of the pool.
LEMMA SlotType == \A i \in Nat : Slot(i) \in 0..Size-1
BY DivMod DEF Slot

\* Counter values less than a lap apart use different slots.
LEMMA SlotDistinct ==
  ASSUME NEW i \in Nat, NEW j \in Nat, i < j, j < i + Size
  PROVE  Slot(i) # Slot(j)
<1> DEFINE p == i \div Size
           q == j \div Size
           r == i % Size
<1>1. SUFFICES ASSUME i % Size = j % Size PROVE FALSE
  BY DEF Slot
<1>2. p \in Int /\ q \in Int /\ r \in 0..Size-1
      /\ i = Size * p + r /\ j = Size * q + r
  BY <1>1, DivMod
<1> HIDE DEF p, q, r
<1>3. CASE q <= p
  <2>1. Size * q <= Size * p BY <1>2, <1>3, MulMonotonic, SizeAssumption
  <2>2. QED BY <2>1, <1>2, SizeAssumption
<1>4. CASE p < q
  <2>1. Size * (p + 1) <= Size * q BY <1>2, <1>4, MulMonotonic, SizeAssumption
  <2>2. Size * (p + 1) = Size * p + Size BY <1>2, SizeAssumption
  <2>3. QED BY <2>1, <2>2, <1>2, SizeAssumption
<1>5. QED BY <1>2, <1>3, <1>4

\* The slot does not notice the wrap of a counter.
LEMMA SlotWrap == ASSUME NEW i \in Nat PROVE Slot(i + Word) = Slot(i)
<1>1. PICK k \in 2..Word : Word = k * Size
  BY WordAssumption
<1> DEFINE p == i \div Size
           r == i % Size
<1>2. p \in Int /\ r \in 0..Size-1 /\ i = Size * p + r
  BY DivMod
<1> HIDE DEF p, r
<1>3. i + Word \in Nat /\ i + Word = Size * (p + k) + r
  BY <1>1, <1>2, WordAssumption, SizeAssumption
<1>4. (i + Word) % Size = r
  BY <1>2, <1>3, ModUnique, WordAssumption
<1>5. QED BY <1>4 DEF Slot, r

\* The word is larger than the pool.
LEMMA WordSize == Word \in Nat /\ Size \in Nat /\ Size >= 2 /\ Word >= 2 * Size
<1>1. PICK k \in 2..Word : Word = k * Size
  BY WordAssumption
<1>2. Size * 2 <= Size * k
  BY <1>1, MulMonotonic, SizeAssumption, WordAssumption
<1>3. QED BY <1>1, <1>2, SizeAssumption, WordAssumption

-----------------------------------------------------------------------------
(* The counters.                                                           *)

\* A write slot is never a slot of an unread byte, as long as write offset
\* and unread bytes together fit the pool.
LEMMA Apart ==
  ASSUME in \in 0..Word-1, out \in 0..Word-1,
         NEW i \in Nat, i + Used < Size, NEW j \in Nat, j < Used
  PROVE  Slot(in + i) # Slot(out + j)
<1>1. CASE in >= out
  <2>1. out + j < in + i /\ in + i < out + j + Size
    BY <1>1, WordSize DEF Used, Minus
  <2>2. QED BY <2>1, SlotDistinct, WordSize
<1>2. CASE in < out
  <2>1. out + j < in + i + Word /\ in + i + Word < out + j + Size
    BY <1>2, WordSize DEF Used, Minus
  <2>2. in + i \in Nat /\ out + j \in Nat /\ in + i + Word \in Nat
    BY WordSize
  <2>3. Slot(in + i + Word) # Slot(out + j)
    BY <2>1, <2>2, SlotDistinct
  <2>4. Slot(in + i + Word) = Slot(in + i)
    BY <2>2, SlotWrap
  <2>5. QED BY <2>3, <2>4
<1>3. QED BY <1>1, <1>2, WordSize

\* A counter that was advanced, with its wrap, still names the same slots.
LEMMA SlotPlus ==
  ASSUME NEW a \in 0..Word-1, NEW n \in 0..Size, NEW i \in Nat
  PROVE  /\ Plus(a, n) \in 0..Word-1
         /\ Slot(Plus(a, n) + i) = Slot(a + n + i)
<1>1. Plus(a, n) \in 0..Word-1
  BY WordSize DEF Plus
<1>2. CASE a + n >= Word
  <2>1. Plus(a, n) + i \in Nat /\ Plus(a, n) + i + Word = a + n + i
    BY <1>2, WordSize DEF Plus
  <2>2. QED BY <1>1, <2>1, SlotWrap
<1>3. CASE ~(a + n >= Word)
  BY <1>1, <1>3 DEF Plus
<1>4. QED BY <1>2, <1>3

\* The byte at write offset i is byte Used + i of the reader.
LEMMA SlotOfIn ==
  ASSUME in \in 0..Word-1, out \in 0..Word-1, NEW i \in Nat
  PROVE  Slot(out + Used + i) = Slot(in + i)
<1>1. CASE in >= out
  BY <1>1, WordSize DEF Used, Minus
<1>2. CASE in < out
  <2>1. in + i \in Nat /\ out + Used + i = in + i + Word
    BY <1>2, WordSize DEF Used, Minus
  <2>2. QED BY <2>1, SlotWrap
<1>3. QED BY <1>1, <1>2, WordSize

\* Storing n bytes adds n to what is used; taking n removes n.
LEMMA UsedPlus ==
  ASSUME NEW a \in 0..Word-1, NEW b \in 0..Word-1, NEW n \in 0..Size,
         Minus(a, b) \in 0..Size
  PROVE  /\ Minus(a, b) + n <= Size => Minus(Plus(a, n), b) = Minus(a, b) + n
         /\ n <= Minus(a, b) => Minus(a, Plus(b, n)) = Minus(a, b) - n
BY WordSize DEF Minus, Plus

\* Free is the room that is left.
LEMMA FreeIs == ASSUME Used \in 0..Size PROVE Free = Size - Used /\ Free \in 0..Size
BY WordSize DEF Free, Minus

-----------------------------------------------------------------------------
(* The inductive invariant.                                                *)

\* A call in progress is one of these records.
Writes == [op : {"idle", "write", "linear"}, data : Seq(Byte), n : 0..Size, k : 0..Size]
Reads  == [op : {"idle", "peek", "read", "drop", "linear"}, n : 0..Size, got : Seq(Byte)]

LEMMA SmallerIs ==
  ASSUME NEW a \in Int, NEW b \in Int
  PROVE  Smaller(a, b) \in {a, b} /\ Smaller(a, b) <= a /\ Smaller(a, b) <= b
BY DEF Smaller

\* What both sides know of the counters in a state of the invariant.
LEMMA Facts ==
  ASSUME IInv
  PROVE  /\ in \in 0..Word-1 /\ out \in 0..Word-1
         /\ Used \in 0..Size /\ Free = Size - Used /\ Free \in 0..Size
         /\ prod \in Writes /\ cons \in Reads
         /\ pool \in [0..Size-1 -> Byte] /\ seen \in Seq(Byte)
<1>1. Used \in 0..Size
  BY WordSize DEF IInv, TypeOK, GrantsFit, Used, Minus
<1>2. QED BY <1>1, FreeIs DEF IInv, TypeOK, Writes, Reads

\* The same for the counters alone.
LEMMA Counters ==
  ASSUME IInv
  PROVE  /\ in \in Nat /\ out \in Nat /\ Used \in Nat /\ Used <= Size
         /\ Size \in Nat /\ Free = Size - Used
BY Facts, WordSize

LEMMA InvInit == Init => IInv
<1> SUFFICES ASSUME Init PROVE IInv
  OBVIOUS
<1>1. Used = 0
  BY WordSize DEF Init, Used, Minus
<1>2. TypeOK
  BY WordSize DEF Init, TypeOK, NoWrite, NoRead
<1>3. GrantsFit
  BY <1>1, WordSize DEF Init, GrantsFit, NoWrite, NoRead
<1>4. CopiesAgree
  BY DEF Init, CopiesAgree, NoWrite, NoRead
<1>5. QED BY <1>2, <1>3, <1>4 DEF IInv

\* A write starts with a grant that fits what is free.
LEMMA InvBeginWrite ==
  ASSUME IInv, NEW op \in {"write", "linear"}, NEW d \in Seq(Byte),
         NEW n \in 0..Size, n <= Len(d), n <= Free, BeginWrite(op, d, n)
  PROVE  IInv'
<1> USE DEF BeginWrite
<1>1. TypeOK'
  BY Facts, WordSize DEF TypeOK, Writes, Reads
<1>2. Used' = Used
  BY DEF Used, Minus
<1>3. GrantsFit'
  <2>1. n + Used <= Size /\ 0 <= n
    BY Facts, WordSize
  <2>2. prod'.n = n /\ prod'.k = 0 /\ prod'.data = d /\ prod'.op # "idle"
    OBVIOUS
  <2>3. QED BY <1>2, <2>1, <2>2 DEF IInv, GrantsFit
<1>4. CopiesAgree'
  BY Facts DEF IInv, CopiesAgree, Reads
<1>5. QED BY <1>1, <1>3, <1>4 DEF IInv

LEMMA InvWriteCopy == ASSUME IInv, WriteCopy PROVE IInv'
<1> USE DEF WriteCopy
<1>1. /\ prod.k \in 0..Size-1 /\ prod.k + Used < Size
      /\ prod.data[prod.k + 1] \in Byte
      /\ in + prod.k \in Nat /\ prod.op # "idle"
  <2>1. /\ prod.n + Used <= Size /\ prod.k <= prod.n /\ prod.n <= Len(prod.data)
        /\ prod.op = "idle" => prod.n = 0
    BY DEF IInv, GrantsFit
  <2>2. prod.k \in Nat /\ prod.n \in Nat /\ prod.data \in Seq(Byte)
    BY Facts DEF Writes
  <2>3. prod.k + 1 \in 1..Len(prod.data)
    BY <2>1, <2>2
  <2>4. prod.data[prod.k + 1] \in Byte
    BY <2>2, <2>3
  <2>5. in \in 0..Word-1 /\ Used \in 0..Size
    BY Facts
  <2>6. prod.k < prod.n
    OBVIOUS
  <2>7. prod.k \in 0..Size-1 /\ prod.k + Used < Size /\ in + prod.k \in Nat
    <3>1. prod.k \in Nat /\ prod.n \in Nat /\ prod.k < prod.n /\ prod.n + Used <= Size
      BY <2>1, <2>2, <2>6
    <3>2. QED BY <3>1, Counters
  <2>8. QED BY <2>1, <2>2, <2>4, <2>6, <2>7
<1>2. TypeOK'
  <2>1. pool' \in [0..Size-1 -> Byte]
    BY <1>1, Facts, SlotType
  <2>2. prod.k + 1 \in 0..Size /\ prod \in Writes
    <3>1. prod \in Writes
      BY Facts
    <3>2. prod.k + 1 \in 0..Size
      BY <1>1, WordSize
    <3>3. QED BY <3>1, <3>2
  <2>3. prod' \in Writes
    BY <2>2 DEF Writes
  <2>4. QED BY <2>1, <2>3, Facts DEF TypeOK, Writes, Reads
<1>3. Used' = Used
  BY DEF Used, Minus
<1>4. GrantsFit'
  BY <1>1, <1>3, Facts DEF IInv, GrantsFit, Writes, Reads
<1>5. ASSUME NEW i \in 0..prod'.k-1 PROVE pool'[Slot(in' + i)] = prod'.data[i + 1]
  <2>1. CASE i = prod.k
    BY <2>1, <1>1, Facts, SlotType DEF Writes
  <2>2. CASE i < prod.k
    <3>1. i \in 0..prod.k-1 /\ in + i \in Nat /\ prod'.data = prod.data
      <4>1. prod \in Writes
        BY Facts
      <4>2. prod'.data = prod.data /\ prod'.k = prod.k + 1
        BY <4>1 DEF Writes
      <4>3. i \in 0..prod.k-1
        BY <4>2, <2>2, <1>1
      <4>4. in + i \in Nat
        BY <4>3, <1>1, Counters
      <4>5. QED BY <4>2, <4>3, <4>4
    <3>2. Slot(in + i) # Slot(in + prod.k)
      <4>. in \in Nat /\ Size \in Nat
        BY ONLY IInv, Counters
      <4>. prod.k \in 0..Size-1 /\ i \in 0..prod.k-1
        BY <3>1, <1>1
      <4>1. in + i < in + prod.k /\ in + prod.k < in + i + Size
        OBVIOUS
      <4>2. QED BY <3>1, <4>1, <1>1, SlotDistinct
    <3>3. pool[Slot(in + i)] = prod.data[i + 1]
      BY <3>1 DEF IInv, CopiesAgree
    <3>4. QED BY <3>1, <3>2, <3>3, <1>1, Facts, SlotType
  <2>3. QED BY <2>1, <2>2, <1>1, <1>5, Facts DEF Writes
<1>6. ASSUME NEW i \in 0..Len(cons'.got)-1 PROVE cons'.got[i + 1] = pool'[Slot(out' + i)]
  <2>1. i \in Nat /\ i < Used
    BY <1>6, Facts DEF IInv, GrantsFit, Reads
  <2>2. Slot(in + prod.k) # Slot(out + i)
    BY <2>1, <1>1, Apart, Facts
  <2>3. cons.got[i + 1] = pool[Slot(out + i)]
    BY <1>6 DEF IInv, CopiesAgree
  <2>4. QED BY <2>1, <2>2, <2>3, <1>1, Facts, SlotType
<1>7. QED BY <1>2, <1>4, <1>5, <1>6 DEF IInv, CopiesAgree

LEMMA InvWriteDone ==
  ASSUME IInv, WriteDone \/ LinearWriteDone
  PROVE  IInv' /\ in' = Plus(in, prod.n) /\ Used' = Used + prod.n
<1>1. /\ prod.n \in 0..Size /\ prod.n <= Free
      /\ prod' = NoWrite /\ UNCHANGED <<out, pool, cons, seen>>
  BY Facts, WordSize DEF IInv, GrantsFit, Writes, WriteDone, LinearWriteDone
<1>2. in' = Plus(in, prod.n)
  BY <1>1, Facts, WordSize DEF WriteDone, LinearWriteDone, Smaller
<1>3. in' \in 0..Word-1
  BY <1>1, <1>2, Facts, SlotPlus
<1>4. Used' = Used + prod.n
  BY <1>1, <1>2, Facts, UsedPlus, WordSize DEF Used
<1>5. TypeOK'
  BY <1>1, <1>3, Facts, WordSize DEF TypeOK, NoWrite, Reads
<1>6. GrantsFit'
  <2>1. prod'.n = 0 /\ prod'.k = 0 /\ prod'.op = "idle" /\ prod'.data = <<>> /\ cons' = cons
    BY <1>1 DEF NoWrite
  <2>2. cons.n <= Used' /\ 0 + Used' <= Size /\ Used' <= Size
    <3>1. cons.n \in Nat /\ prod.n \in Nat /\ cons.n <= Used /\ prod.n <= Free
      BY <1>1, Facts, Counters DEF IInv, GrantsFit, Reads
    <3>2. QED BY <3>1, <1>4, Counters
  <2>3. Len(<<>>) = 0 /\ seen' = seen
    BY <1>1
  <2>4. QED BY <2>1, <2>2, <2>3 DEF IInv, GrantsFit
<1>7. CopiesAgree'
  BY <1>1, Facts DEF IInv, CopiesAgree, NoWrite, Reads
<1>8. QED BY <1>2, <1>4, <1>5, <1>6, <1>7 DEF IInv

LEMMA InvBeginRead ==
  ASSUME IInv, NEW op \in {"peek", "read", "drop", "linear"},
         NEW n \in 0..Size, n <= Used, BeginRead(op, n)
  PROVE  IInv'
<1>1. /\ cons' = [op |-> op, n |-> n, got |-> <<>>] /\ seen' = <<>>
      /\ UNCHANGED <<in, out, pool, prod>>
  BY DEF BeginRead
<1>2. Used' = Used
  BY <1>1 DEF Used, Minus
<1>3. TypeOK'
  BY <1>1, Facts DEF TypeOK, Writes
<1>4. GrantsFit'
  BY <1>1, <1>2, Facts DEF IInv, GrantsFit, Writes
<1>5. CopiesAgree'
  BY <1>1, Facts DEF IInv, CopiesAgree, Writes
<1>6. QED BY <1>3, <1>4, <1>5 DEF IInv

LEMMA InvReadCopy == ASSUME IInv, ReadCopy PROVE IInv'
<1> DEFINE l == Len(cons.got)
<1>1. /\ cons \in Reads /\ l \in Nat /\ l < cons.n /\ cons.op # "idle"
      /\ out + l \in Nat /\ cons.n \in 0..Size /\ cons.n <= Used
  <2>1. cons \in Reads
    BY Facts
  <2>2. cons.n \in 0..Size /\ l \in Nat
    BY <2>1 DEF Reads
  <2>3. l < cons.n /\ cons.op # "idle" /\ cons.n <= Used
    BY DEF ReadCopy, IInv, GrantsFit
  <2>4. QED BY <2>1, <2>2, <2>3, Counters
<1>2. /\ cons' = [cons EXCEPT !.got = Append(cons.got, pool[Slot(out + l)])]
      /\ UNCHANGED <<in, out, pool, prod, seen>>
  BY DEF ReadCopy
<1>3. pool[Slot(out + l)] \in Byte
  BY <1>1, Facts, SlotType
<1>4. /\ cons' \in Reads /\ cons'.op = cons.op /\ cons'.n = cons.n
      /\ cons'.got = Append(cons.got, pool[Slot(out + l)])
      /\ Len(cons'.got) = l + 1
  <2>1. cons.got \in Seq(Byte) /\ l = Len(cons.got)
    BY <1>1 DEF Reads
  <2> DEFINE g == Append(cons.got, pool[Slot(out + l)])
  <2>2. g \in Seq(Byte) /\ Len(g) = l + 1
    BY <2>1, <1>3
  <2> HIDE DEF g
  <2>3. cons' \in Reads /\ cons'.op = cons.op /\ cons'.n = cons.n /\ cons'.got = g
    BY <2>2, <1>1, <1>2 DEF Reads, g
  <2>4. QED BY <2>2, <2>3 DEF g
<1>5. Used' = Used
  BY <1>2 DEF Used, Minus
<1>6. TypeOK'
  BY <1>2, <1>4, Facts DEF TypeOK, Writes, Reads
<1>7. GrantsFit'
  BY <1>1, <1>2, <1>4, <1>5 DEF IInv, GrantsFit
<1>8. ASSUME NEW i \in 0..Len(cons'.got)-1 PROVE cons'.got[i + 1] = pool[Slot(out + i)]
  <2>1. CASE i = l
    BY <2>1, <1>1, <1>4 DEF Reads
  <2>2. CASE i < l
    <3>1. cons'.got[i + 1] = cons.got[i + 1]
      BY <2>2, <1>1, <1>4, <1>8 DEF Reads
    <3>2. i \in 0..l-1
      BY <2>2, <1>1, <1>4, <1>8
    <3>3. QED BY <3>1, <3>2 DEF IInv, CopiesAgree
  <2>3. QED BY <2>1, <2>2, <1>1, <1>4, <1>8
<1>9. CopiesAgree'
  BY <1>2, <1>8 DEF IInv, CopiesAgree
<1>10. QED BY <1>6, <1>7, <1>9 DEF IInv

\* Every call of the reader ends by taking n of the bytes it was granted.
LEMMA InvEndRead ==
  ASSUME IInv, NEW n \in 0..Size, n <= Used, NEW b \in Seq(Byte), EndRead(n, b)
  PROVE  IInv' /\ Used' = Used - n
<1>1. /\ out' = Plus(out, n) /\ seen' = b /\ cons' = NoRead
      /\ UNCHANGED <<in, pool, prod>>
  BY DEF EndRead
<1>2. out' \in 0..Word-1
  BY <1>1, Facts, SlotPlus
<1>3. Used' = Used - n
  BY <1>1, Facts, UsedPlus, WordSize DEF Used
<1>4. TypeOK'
  BY <1>1, <1>2, Facts, WordSize DEF TypeOK, NoRead, Writes
<1>5. GrantsFit'
  <2>1. /\ prod.n + Used <= Size /\ prod.k <= prod.n /\ prod.n <= Len(prod.data)
        /\ prod.op = "idle" => prod.n = 0
    BY DEF IInv, GrantsFit
  <2>2. prod.n \in 0..Size /\ Used \in 0..Size /\ Size \in Nat
    BY Facts, WordSize DEF Writes
  <2>3. Used' \in 0..Size /\ prod.n + Used' <= Size
    BY <1>3, <2>1, <2>2
  <2>4. QED BY <1>1, <2>1, <2>3 DEF GrantsFit, NoRead
<1>6. CopiesAgree'
  BY <1>1, Facts DEF IInv, CopiesAgree, NoRead, Writes
<1>7. QED BY <1>3, <1>4, <1>5, <1>6 DEF IInv

\* How the four calls end, as instances of EndRead.
LEMMA ReadEnds ==
  ASSUME IInv, PeekDone \/ ReadDone \/ DropDone
               \/ \E m \in 0..Size : LinearReadDone(m)
  PROVE  \E n \in 0..Size : \E b \in Seq(Byte) : n <= Used /\ EndRead(n, b)
<1>1. /\ cons.n \in 0..Size /\ cons.n <= Used /\ cons.got \in Seq(Byte)
      /\ Used \in 0..Size /\ 0 \in 0..Size /\ <<>> \in Seq(Byte)
  BY Facts, WordSize DEF Reads, IInv, GrantsFit
<1>2. CASE PeekDone
  BY <1>1, <1>2, WordSize DEF PeekDone
<1>3. CASE ReadDone
  BY <1>1, <1>3 DEF ReadDone
<1>4. CASE DropDone
  BY <1>1, <1>4 DEF DropDone
<1>5. ASSUME NEW m \in 0..Size, LinearReadDone(m)
      PROVE  \E n \in 0..Size : \E b \in Seq(Byte) : n <= Used /\ EndRead(n, b)
  <2>1. m \in 0..Len(cons.got) /\ EndRead(Smaller(m, Used), SubSeq(cons.got, 1, m))
    BY <1>1, <1>5, WordSize DEF LinearReadDone
  <2>2. SubSeq(cons.got, 1, m) \in Seq(Byte)
    BY <1>1, <2>1
  <2>3. Smaller(m, Used) \in 0..Size /\ Smaller(m, Used) <= Used
    BY <1>1, <1>5, WordSize DEF Smaller
  <2>4. QED BY <2>1, <2>2, <2>3
<1>6. QED BY <1>2, <1>3, <1>4, <1>5

\* The locked calls meet no call in progress.
LEMMA LockedFacts ==
  ASSUME IInv, Locked
  PROVE  prod.n = 0 /\ prod.k = 0 /\ Len(cons.got) = 0 /\ cons.n = 0
BY Facts, WordSize DEF IInv, GrantsFit, Locked, Writes, Reads

\* Any pool and counters of the right type restore the invariant then.
LEMMA InvLocked ==
  ASSUME IInv, Locked, UNCHANGED <<prod, cons, seen>>,
         in' \in 0..Word-1, out' \in 0..Word-1,
         pool' \in [0..Size-1 -> Byte], Used' \in 0..Size
  PROVE  IInv'
<1>1. TypeOK'
  BY Facts DEF TypeOK, Writes, Reads
<1>2. GrantsFit'
  <2>1. prod.n + Used' <= Size
    BY LockedFacts, WordSize
  <2>2. QED BY <2>1, LockedFacts, WordSize DEF IInv, GrantsFit, Locked
<1>3. CopiesAgree'
  BY LockedFacts DEF CopiesAgree
<1>4. QED BY <1>1, <1>2, <1>3 DEF IInv

LEMMA InvReset == ASSUME IInv, Reset PROVE IInv' /\ Used' = 0
<1>1. in' = 0 /\ out' = 0 /\ Used' = 0
  BY DEF Reset, Used, Minus
<1>2. QED BY <1>1, InvLocked, Facts, WordSize DEF Reset

\* Storing bytes keeps the pool a pool.
LEMMA StoredType ==
  ASSUME pool \in [0..Size-1 -> Byte], NEW i \in Nat, NEW s \in Seq(Byte)
  PROVE  Stored(i, s) \in [0..Size-1 -> Byte]
<1>1. ASSUME NEW x \in 0..Size-1
      PROVE  (LET k == Slot(x + Size - Slot(i))
              IN  IF k < Len(s) THEN s[k + 1] ELSE pool[x]) \in Byte
  <2> DEFINE k == Slot(x + Size - Slot(i))
  <2>1. k \in 0..Size-1
    <3>1. Slot(i) \in 0..Size-1
      BY SlotType
    <3>2. x + Size - Slot(i) \in Nat
      BY <3>1, WordSize
    <3>3. QED BY <3>2, SlotType
  <2> HIDE DEF k
  <2>2. k < Len(s) => s[k + 1] \in Byte
    BY <2>1, WordSize
  <2>3. (IF k < Len(s) THEN s[k + 1] ELSE pool[x]) \in Byte
    BY <2>2
  <2>4. QED BY <2>3 DEF k
<1>2. QED BY <1>1 DEF Stored

\* The counters after an overwrite of n bytes, moved of them over old ones.
LEMMA OverwriteCounters ==
  ASSUME IInv, NEW n \in 0..Size, NEW moved \in 0..Size,
         moved = (IF n > Free THEN n - Free ELSE 0),
         out' = Plus(out, moved), in' = Plus(in, n)
  PROVE  /\ in' \in 0..Word-1 /\ out' \in 0..Word-1
         /\ moved <= Used /\ Used' = Used - moved + n /\ Used' \in 0..Size
<1>1. in' \in 0..Word-1 /\ out' \in 0..Word-1
  BY Facts, SlotPlus
<1>2. moved <= Used /\ Used - moved + n \in 0..Size
  BY Counters
<1>3. Minus(in, out') = Used - moved
  BY <1>2, Facts, UsedPlus, WordSize DEF Used
<1>4. Used - moved \in 0..Size
  <2>1. Used \in 0..Size /\ Size \in Nat
    BY Facts, WordSize
  <2>2. QED BY <1>2, <2>1
<1>5. Minus(in', out') = Used - moved + n
  BY <1>1, <1>2, <1>3, <1>4, Facts, UsedPlus
<1>6. QED BY <1>1, <1>2, <1>5 DEF Used

LEMMA InvOverwrite ==
  ASSUME IInv, NEW d \in Seq(Byte), Overwrite(d)
  PROVE  IInv'
<1> DEFINE n == Smaller(Len(d), Size)
           moved == IF n > Free THEN n - Free ELSE 0
<1>1. n \in 0..Size /\ n <= Len(d)
  BY WordSize DEF Smaller
<1>2. /\ Locked /\ UNCHANGED <<prod, cons, seen>>
      /\ out' = Plus(out, moved) /\ in' = Plus(in, n)
      /\ pool' = Stored(in, SubSeq(d, 1, n))
  BY DEF Overwrite
<1> HIDE DEF n
<1>3. moved \in 0..Size
  BY <1>1, Facts, WordSize
<1>4. in' \in 0..Word-1 /\ out' \in 0..Word-1 /\ Used' \in 0..Size
  BY <1>1, <1>2, <1>3, OverwriteCounters
<1>5. SubSeq(d, 1, n) \in Seq(Byte) /\ in \in Nat
  BY <1>1, Facts, WordSize
<1>6. pool' \in [0..Size-1 -> Byte]
  BY <1>2, <1>5, Facts, StoredType
<1>7. QED BY <1>2, <1>4, <1>6, InvLocked

LEMMA InvOverwriteByte ==
  ASSUME IInv, NEW b \in Byte, OverwriteByte(b)
  PROVE  IInv'
<1> DEFINE moved == IF 1 > Free THEN 1 - Free ELSE 0
<1>1. /\ Locked /\ UNCHANGED <<prod, cons, seen>> /\ in' = Plus(in, 1)
      /\ pool' = [pool EXCEPT ![Slot(in)] = b]
      /\ out' = IF Full THEN Plus(out, 1) ELSE out
  BY DEF OverwriteByte
<1>2. moved \in 0..Size /\ 1 \in 0..Size /\ out' = Plus(out, moved)
  <2>1. moved = IF Full THEN 1 ELSE 0
    BY Counters DEF Full
  <2>2. Plus(out, 0) = out
    BY Facts, WordSize DEF Plus
  <2>3. QED BY <2>1, <2>2, <1>1, WordSize
<1>3. in' \in 0..Word-1 /\ out' \in 0..Word-1 /\ Used' \in 0..Size
  BY <1>1, <1>2, OverwriteCounters
<1>4. pool' \in [0..Size-1 -> Byte]
  BY <1>1, Facts, SlotType
<1>5. QED BY <1>1, <1>3, <1>4, InvLocked

LEMMA InvNext == ASSUME IInv, Next PROVE IInv'
<1>1. ASSUME NEW d \in Chunk(MaxChunk), Write(d) PROVE IInv'
  <2>1. d \in Seq(Byte) /\ Len(d) \in Nat
    BY ChunkAssumption DEF Chunk
  <2>2. Smaller(Len(d), Free) \in 0..Size
    BY <2>1, Facts, WordSize DEF Smaller
  <2>3. Smaller(Len(d), Free) <= Len(d) /\ Smaller(Len(d), Free) <= Free
    BY <2>1, Facts, WordSize DEF Smaller
  <2>4. QED BY <1>1, <2>1, <2>2, <2>3, InvBeginWrite DEF Write
<1>2. ASSUME NEW b \in Byte, WriteByte(b) PROVE IInv'
  <2> DEFINE d == <<b>>
  <2>1. 1 \in 0..Size /\ 1 <= Free /\ BeginWrite("write", d, 1)
    BY <1>2, Facts, WordSize DEF WriteByte, Full
  <2>2. d \in Seq(Byte) /\ Len(d) = 1
    OBVIOUS
  <2> HIDE DEF d
  <2>3. 1 <= Len(d) /\ "write" \in {"write", "linear"}
    BY <2>2
  <2>4. QED BY <2>1, <2>2, <2>3, InvBeginWrite
<1>3. ASSUME NEW d \in Chunk(MaxChunk), LinearWriteSetup(d) PROVE IInv'
  <2>1. d \in Seq(Byte) /\ Len(d) \in Nat
    BY ChunkAssumption DEF Chunk
  <2>2. Slot(in) \in 0..Size-1
    BY Facts, SlotType, WordSize
  <2>3. Len(d) <= Free /\ Len(d) \in 0..Size
    BY <1>3, <2>1, <2>2, Facts, WordSize DEF LinearWriteSetup, Smaller
  <2>4. QED BY <1>3, <2>1, <2>3, InvBeginWrite DEF LinearWriteSetup
<1>4. CASE Writer
  BY <1>1, <1>2, <1>3, <1>4, InvWriteCopy, InvWriteDone DEF Writer
<1>5. ASSUME NEW op \in {"peek", "read", "drop", "linear"}, NEW size \in 0..MaxChunk,
             BeginRead(op, Smaller(size, Used))
      PROVE  IInv'
  <2>1. Smaller(size, Used) \in 0..Size /\ Smaller(size, Used) <= Used
    BY Facts, ChunkAssumption, WordSize DEF Smaller
  <2>2. QED BY <1>5, <2>1, InvBeginRead
<1>6. ASSUME NEW op \in {"peek", "read", "drop", "linear"}, ~Empty, BeginRead(op, 1)
      PROVE  IInv'
  <2>1. 1 \in 0..Size /\ 1 <= Used
    BY <1>6, Facts, WordSize DEF Empty, Used, Minus
  <2>2. QED BY <1>6, <2>1, InvBeginRead
<1>7. ASSUME ResetRead PROVE IInv'
  BY <1>7, Facts, InvBeginRead, WordSize DEF ResetRead
<1>8. ASSUME LinearReadSetup PROVE IInv'
  <2> DEFINE n == Smaller(Size - Slot(out), Used)
  <2>1. Slot(out) \in 0..Size-1
    BY Facts, SlotType, WordSize
  <2>2. n \in 0..Size /\ n <= Used
    BY <2>1, Facts, WordSize DEF Smaller
  <2>3. QED BY <1>8, <2>2, InvBeginRead DEF LinearReadSetup
<1>9. ASSUME PeekDone \/ ReadDone \/ DropDone \/ \E m \in 0..Size : LinearReadDone(m)
      PROVE  IInv'
  BY <1>9, ReadEnds, InvEndRead
<1>10. CASE Reader
  BY <1>5, <1>6, <1>7, <1>8, <1>9, <1>10, InvReadCopy
  DEF Reader, Peek, Read, Drop, PeekByte, ReadByte, DropByte
<1>11. CASE Owner
  <2>1. Chunk(MaxChunk) \subseteq Seq(Byte)
    BY ChunkAssumption DEF Chunk
  <2>2. QED BY <1>11, <2>1, InvReset, InvOverwrite, InvOverwriteByte DEF Owner
<1>12. QED BY <1>4, <1>10, <1>11 DEF Next

\* The ring keeps its types, the grants of the two sides never exceed what is
\* there, and what was copied agrees with the pool, whatever the two contexts
\* interleave.
THEOREM Invariant == Spec => []IInv
<1>1. IInv /\ UNCHANGED vars => IInv'
  <2> SUFFICES ASSUME IInv, UNCHANGED vars PROVE IInv'
    OBVIOUS
  <2>1. UNCHANGED <<in, out, pool, prod, cons, seen>>
    BY DEF vars
  <2>2. QED BY <2>1 DEF IInv, TypeOK, GrantsFit, CopiesAgree, Used, Minus
<1>2. IInv /\ [Next]_vars => IInv'
  BY <1>1, InvNext
<1>3. QED BY <1>2, InvInit, PTL DEF Spec

\* TypeOK is an invariant of the ring.
THEOREM TypeCorrect == Spec => []TypeOK
<1>1. IInv => TypeOK
  BY DEF IInv
<1>2. QED BY <1>1, Invariant, PTL

\* The slots of a write in progress hold no unread byte: the claim in the
\* header comments that a single writer and a single reader need no lock.
THEOREM NoOverlap == Spec => []WriterAvoidsUnread
<1>1. IInv => WriterAvoidsUnread
  <2> SUFFICES ASSUME IInv, NEW i \in 0..prod.n-1, NEW j \in 0..Used-1
               PROVE  Slot(in + i) # Slot(out + j)
    BY DEF WriterAvoidsUnread
  <2>1. i \in Nat /\ j \in Nat /\ j < Used /\ i + Used < Size
    <3>1. prod.n \in Nat /\ prod.n + Used <= Size
      BY Facts DEF IInv, GrantsFit, Writes
    <3>2. QED BY <3>1, Counters
  <2>2. QED BY <2>1, Apart, Facts
<1>2. QED BY <1>1, Invariant, PTL

-----------------------------------------------------------------------------
(* The refinement of the bounded FIFO.                                     *)

\* The pool is a circle.
LEMMA SlotLap == ASSUME NEW i \in Nat PROVE Slot(i + Size) = Slot(i)
<1> DEFINE p == i \div Size
           r == i % Size
<1>1. p \in Int /\ r \in 0..Size-1 /\ i = Size * p + r
  BY DivMod
<1> HIDE DEF p, r
<1>2. i + Size \in Nat /\ i + Size = Size * (p + 1) + r
  BY <1>1, WordSize
<1>3. (i + Size) % Size = r
  BY <1>1, <1>2, ModUnique
<1>4. QED BY <1>3 DEF Slot, r

\* A small value is its own slot.
LEMMA SlotSmall == ASSUME NEW i \in 0..Size-1 PROVE Slot(i) = i
<1>1. i \in Nat /\ 0 \in Int /\ i = Size * 0 + i
  BY WordSize
<1>2. QED BY <1>1, ModUnique DEF Slot

\* The distance, around the circle, from slot a to slot a + j is j.
LEMMA SlotDistance ==
  ASSUME NEW a \in Nat, NEW j \in 0..Size-1
  PROVE  Slot(Slot(a + j) + Size - Slot(a)) = j
<1> DEFINE p == a \div Size
           q == (a + j) \div Size
           r == Slot(a)
           s == Slot(a + j)
<1>1. /\ p \in Int /\ r \in 0..Size-1 /\ a = Size * p + r
      /\ q \in Int /\ s \in 0..Size-1 /\ a + j = Size * q + s
  BY DivMod, WordSize DEF Slot
<1> HIDE DEF p, q, r, s
<1>2. s + Size - r \in Nat /\ s + Size - r = Size * (p + 1 - q) + j
  <2>1. Size * (p + 1 - q) = Size * p + Size - Size * q
    BY <1>1, WordSize
  <2>2. QED BY <1>1, <2>1, WordSize
<1>3. (s + Size - r) % Size = j
  BY <1>1, <1>2, ModUnique
<1>4. QED BY <1>3 DEF Slot, r, s

-----------------------------------------------------------------------------
(* The refinement mapping.                                                 *)

\* The u bytes of pool p from counter value o on.
Window(p, o, u) == [i \in 1..u |-> p[Slot(o + i - 1)]]

LEMMA WindowIs ==
  ASSUME NEW p \in [0..Size-1 -> Byte], NEW o \in Nat, NEW u \in Nat
  PROVE  /\ Window(p, o, u) \in Seq(Byte) /\ Len(Window(p, o, u)) = u
         /\ \A i \in 1..u : /\ Window(p, o, u)[i] = p[Slot(o + i - 1)]
                            /\ Window(p, o, u)[i] \in Byte
<1>1. ASSUME NEW i \in 1..u PROVE p[Slot(o + i - 1)] \in Byte
  <2>1. o + i - 1 \in Nat
    OBVIOUS
  <2>2. QED BY <2>1, SlotType
<1>2. Window(p, o, u) \in [1..u -> Byte]
  BY <1>1 DEF Window
<1>3. QED BY <1>1, <1>2 DEF Window

\* A sequence with the bytes of the window is the window.
LEMMA WindowEq ==
  ASSUME NEW p \in [0..Size-1 -> Byte], NEW o \in Nat, NEW u \in Nat,
         NEW s \in Seq(Byte), Len(s) = u,
         \A j \in 0..u-1 : s[j + 1] = p[Slot(o + j)]
  PROVE  s = Window(p, o, u)
<1>1. ASSUME NEW i \in 1..Len(s) PROVE s[i] = Window(p, o, u)[i]
  <2>1. i - 1 \in 0..u-1 /\ o + (i - 1) = o + i - 1 /\ (i - 1) + 1 = i
    OBVIOUS
  <2>2. s[i] = p[Slot(o + i - 1)]
    BY <2>1
  <2>3. QED BY <2>2, WindowIs
<1>2. QED BY <1>1, WindowIs, SeqEqual

\* The mapped queue is the unread part of the pool, in both states of a step.
LEMMA ContentsIs ==
  ASSUME IInv
  PROVE  /\ Contents = Window(pool, out, Used)
         /\ Contents \in Seq(Byte) /\ Len(Contents) = Used
         /\ \A j \in 0..Used-1 : Contents[j + 1] = pool[Slot(out + j)]
<1>1. Contents = Window(pool, out, Used)
  BY DEF Contents, Window
<1>2. pool \in [0..Size-1 -> Byte] /\ out \in Nat /\ Used \in Nat
  BY Facts, Counters
<1>3. ASSUME NEW j \in 0..Used-1 PROVE Contents[j + 1] = pool[Slot(out + j)]
  <2>1. j + 1 \in 1..Used /\ out + (j + 1) - 1 = out + j
    BY <1>2
  <2>2. Window(pool, out, Used)[j + 1] = pool[Slot(out + (j + 1) - 1)]
    BY <1>2, <2>1, WindowIs
  <2>3. QED BY <1>1, <2>1, <2>2
<1>4. QED BY <1>1, <1>2, <1>3, WindowIs

\* The queue after a step that leaves u unread bytes: any sequence that has
\* the bytes of the slots.
LEMMA ContentsAfter ==
  ASSUME pool' \in [0..Size-1 -> Byte], out' \in Nat, Used' \in Nat,
         NEW s \in Seq(Byte), Len(s) = Used',
         \A j \in 0..Used'-1 : s[j + 1] = pool'[Slot(out' + j)]
  PROVE  Contents' = s
<1>1. Contents' = Window(pool', out', Used')
  BY DEF Contents, Window
<1>2. QED BY <1>1, WindowEq

-----------------------------------------------------------------------------
(* The steps.                                                              *)

\* A step that moves no counter and no unread byte is not seen by the queue.
LEMMA QueueKept ==
  ASSUME IInv, UNCHANGED <<in, out>>, pool' \in [0..Size-1 -> Byte],
         \A j \in 0..Used-1 : pool'[Slot(out + j)] = pool[Slot(out + j)]
  PROVE  Contents' = Contents
<1>1. Used' = Used
  BY DEF Used, Minus
<1>2. out' \in Nat /\ Used' \in Nat
  BY <1>1, Facts, WordSize
<1>3. \A j \in 0..Used'-1 : Contents[j + 1] = pool'[Slot(out' + j)]
  BY <1>1, ContentsIs
<1>4. QED BY <1>1, <1>2, <1>3, ContentsIs, ContentsAfter

\* Storing a byte of a write in progress is invisible.
LEMMA CopyInvisible == ASSUME IInv, WriteCopy PROVE Contents' = Contents
<1>1. /\ prod.k < prod.n /\ UNCHANGED <<in, out>>
      /\ pool' = [pool EXCEPT ![Slot(in + prod.k)] = prod.data[prod.k + 1]]
  BY DEF WriteCopy
<1>2. prod.k \in Nat /\ prod.k + Used < Size
  BY <1>1, Facts, WordSize DEF IInv, GrantsFit, Writes
<1>3. pool' \in [0..Size-1 -> Byte]
  BY InvWriteCopy DEF IInv, TypeOK
<1>4. ASSUME NEW j \in 0..Used-1 PROVE pool'[Slot(out + j)] = pool[Slot(out + j)]
  <2>1. j \in Nat /\ j < Used /\ out + j \in Nat
    BY Facts, WordSize
  <2>2. Slot(in + prod.k) # Slot(out + j)
    BY <1>2, <2>1, Apart, Facts
  <2>3. Slot(out + j) \in 0..Size-1
    BY <2>1, SlotType
  <2>4. QED BY <1>1, <2>2, <2>3, Facts
<1>5. QED BY <1>1, <1>3, <1>4, QueueKept

\* Storing the counter appends the n bytes that were copied.
LEMMA DoneAppends ==
  ASSUME IInv, WriteDone \/ LinearWriteDone
  PROVE  /\ prod.n \in 0..Size /\ Used + prod.n <= Size /\ seen' = seen
         /\ SubSeq(prod.data, 1, prod.n) \in [1..prod.n -> Byte]
         /\ Contents' = Contents \o SubSeq(prod.data, 1, prod.n)
<1> DEFINE n == prod.n
           d == SubSeq(prod.data, 1, n)
<1>1. /\ n \in 0..Size /\ prod.k = n /\ n <= Len(prod.data) /\ Used + n <= Size
      /\ prod.data \in Seq(Byte) /\ UNCHANGED <<out, pool, cons, seen>>
  BY Facts, WordSize DEF IInv, GrantsFit, Writes, WriteDone, LinearWriteDone
<1>2. Used' = Used + n
  BY InvWriteDone
<1>3. /\ d \in Seq(Byte) /\ Len(d) = n /\ d \in [1..n -> Byte]
      /\ \A i \in 1..n : d[i] = prod.data[i]
  <2>1. n \in Nat /\ \A i \in 1..n : i \in 1..Len(prod.data) /\ prod.data[i] \in Byte
    BY <1>1, WordSize
  <2>2. /\ d \in Seq(Byte) /\ Len(d) = n
        /\ \A i \in 1..n : d[i] = prod.data[i]
    BY <2>1, SubSeqProperties
  <2> HIDE DEF d
  <2>3. d \in [1..n -> Byte]
    BY <2>2
  <2>4. QED BY <2>2, <2>3
<1> HIDE DEF d, n
<1> DEFINE s == Contents \o d
<1>4. /\ s \in Seq(Byte) /\ Len(s) = Used + n
      /\ \A i \in 1..Used + n : s[i] = IF i <= Used THEN Contents[i] ELSE d[i - Used]
  <2>1. Contents \in Seq(Byte) /\ Len(Contents) = Used
    BY ContentsIs
  <2> HIDE DEF Contents
  <2>2. QED BY <1>3, <2>1, ConcatProperties
<1> HIDE DEF s
<1>5. ASSUME NEW j \in 0..Used'-1 PROVE s[j + 1] = pool[Slot(out + j)]
  <2>1. j \in Nat /\ j + 1 \in 1..Used + n /\ Used \in Nat
    BY <1>1, <1>2, Facts, WordSize
  <2>2. CASE j < Used
    <3>1. j + 1 <= Used /\ j \in 0..Used-1
      BY <2>1, <2>2
    <3>2. QED BY <2>1, <3>1, <1>4, ContentsIs
  <2>3. CASE ~(j < Used)
    <3>1. j - Used \in 0..n-1 /\ ~(j + 1 <= Used) /\ out + Used + (j - Used) = out + j
          /\ j + 1 - Used = (j - Used) + 1 /\ j + 1 - Used \in 1..n
      <4>1. j \in Int /\ n \in Int /\ Used \in Int /\ out \in Int
            /\ Used <= j /\ j + 1 <= Used + n
        BY <2>1, <2>3, <1>1, Counters
      <4>2. QED BY <4>1
    <3>2. s[j + 1] = prod.data[(j - Used) + 1]
      BY <2>1, <3>1, <1>3, <1>4
    <3>3. prod.data[(j - Used) + 1] = pool[Slot(in + (j - Used))]
      BY <3>1, <1>1 DEF IInv, CopiesAgree, n
    <3>4. Slot(in + (j - Used)) = Slot(out + j)
      <4>1. j - Used \in Nat
        BY <3>1, <1>1
      <4>2. QED BY <4>1, <3>1, SlotOfIn, Facts
    <3>5. QED BY <3>2, <3>3, <3>4
  <2>4. QED BY <2>2, <2>3
<1>6. pool' \in [0..Size-1 -> Byte] /\ out' \in Nat /\ Used' \in Nat
  BY <1>1, <1>2, Facts, WordSize
<1>7. Contents' = s
  BY <1>1, <1>2, <1>4, <1>5, <1>6, ContentsAfter
<1>8. QED BY <1>1, <1>3, <1>7 DEF s, d, n

\* Every call of the reader removes the n oldest bytes.
LEMMA EndRemoves ==
  ASSUME IInv, NEW n \in 0..Size, n <= Used, NEW b \in Seq(Byte), EndRead(n, b)
  PROVE  Contents' = SubSeq(Contents, n + 1, Len(Contents))
<1>1. /\ out' = Plus(out, n) /\ pool' = pool /\ Used' = Used - n
  BY InvEndRead DEF EndRead
<1>2. pool' \in [0..Size-1 -> Byte] /\ out' \in Nat /\ Used' \in Nat
  <2>1. out' \in 0..Word-1
    BY <1>1, SlotPlus, Facts
  <2>2. QED BY <2>1, <1>1, Facts, WordSize
<1> DEFINE s == SubSeq(Contents, n + 1, Len(Contents))
<1>3. /\ s \in Seq(Byte) /\ Len(s) = Used'
      /\ \A i \in 1..Used' : s[i] = Contents[n + i]
  BY <1>1, ContentsIs, Facts, WordSize
<1> HIDE DEF s
<1>4. ASSUME NEW j \in 0..Used'-1 PROVE s[j + 1] = pool'[Slot(out' + j)]
  <2>1. /\ j \in Nat /\ j + 1 \in 1..Used' /\ n + j \in 0..Used-1
        /\ n + (j + 1) = (n + j) + 1 /\ out + n + j = out + (n + j)
    <3>1. out \in Int /\ Used \in Int /\ n \in Nat /\ Used' = Used - n
      BY <1>1, Facts, WordSize
    <3>2. j \in Int /\ 0 <= j /\ j <= Used - n - 1
      BY <3>1
    <3>3. QED BY <3>1, <3>2
  <2>2. s[j + 1] = pool[Slot(out + (n + j))]
    BY <2>1, <1>3, ContentsIs
  <2>3. Slot(out' + j) = Slot(out + n + j)
    BY <2>1, <1>1, SlotPlus, Facts
  <2>4. QED BY <2>1, <2>2, <2>3, <1>1
<1>5. QED BY <1>2, <1>3, <1>4, ContentsAfter DEF s

\* What a read has copied so far are the oldest bytes of the queue.
LEMMA GotOldest ==
  ASSUME IInv, NEW m \in 0..Len(cons.got)
  PROVE  SubSeq(cons.got, 1, m) = SubSeq(Contents, 1, m)
<1> DEFINE s == SubSeq(cons.got, 1, m)
           t == SubSeq(Contents, 1, m)
<1>1. /\ cons.got \in Seq(Byte) /\ Len(cons.got) <= Used /\ m \in Nat
      /\ Len(cons.got) \in Nat
  BY Facts, WordSize DEF IInv, GrantsFit, Reads
<1>2. ASSUME NEW i \in 1..m
      PROVE  cons.got[i] = Contents[i] /\ cons.got[i] \in Byte /\ Contents[i] \in Byte
  <2>1. i - 1 \in 0..Len(cons.got)-1 /\ i - 1 \in 0..Used-1 /\ (i - 1) + 1 = i
        /\ i \in 1..Len(cons.got) /\ i \in 1..Used
    BY <1>1, Facts, WordSize
  <2>2. cons.got[(i - 1) + 1] = pool[Slot(out + (i - 1))]
    BY <2>1 DEF IInv, CopiesAgree
  <2>3. Contents[(i - 1) + 1] = pool[Slot(out + (i - 1))]
    BY <2>1, ContentsIs
  <2>4. cons.got[i] \in Byte
    BY <2>1, <1>1
  <2>5. QED BY <2>1, <2>2, <2>3, <2>4
<1>3. /\ s \in Seq(Byte) /\ Len(s) = m /\ \A i \in 1..m : s[i] = cons.got[i]
  BY <1>1, <1>2, SubSeqProperties
<1>4. /\ t \in Seq(Byte) /\ Len(t) = m /\ \A i \in 1..m : t[i] = Contents[i]
  <2> HIDE DEF Contents
  <2>1. QED BY <1>1, <1>2, SubSeqProperties
<1> HIDE DEF s, t
<1>5. s = t
  BY <1>1, <1>2, <1>3, <1>4, SeqEqual
<1>6. QED BY <1>5 DEF s, t

\* The four ends of a call of the reader are Look, Take and Drop.
LEMMA EndSteps ==
  ASSUME IInv, PeekDone \/ ReadDone \/ DropDone
               \/ \E m \in 0..Size : LinearReadDone(m)
  PROVE  Fifo!Next
<1>1. /\ cons.n \in 0..Size /\ cons.n <= Used /\ cons.got \in Seq(Byte)
      /\ Used \in 0..Size /\ 0 \in 0..Size /\ <<>> \in Seq(Byte)
      /\ Len(Contents) = Used /\ Contents \in Seq(Byte)
      /\ cons.op # "idle" => seen = <<>>
  BY Facts, WordSize, ContentsIs DEF Reads, IInv, GrantsFit
<1>2. CASE PeekDone
  <2>1. EndRead(0, cons.got) /\ Len(cons.got) = cons.n
    BY <1>2 DEF PeekDone
  <2>2. Contents' = SubSeq(Contents, 0 + 1, Len(Contents))
    BY <1>1, <2>1, EndRemoves
  <2>3. Contents' = Contents
    <3> HIDE DEF Contents
    <3>1. QED BY <1>1, <2>2, SubSeqFull
  <2>4. seen' = SubSeq(Contents, 1, cons.n)
    <3>1. SubSeq(cons.got, 1, cons.n) = cons.got
      BY <1>1, <2>1, SubSeqFull
    <3>2. cons.n \in 0..Len(cons.got)
      BY <1>1, <2>1
    <3>3. QED BY <2>1, <3>1, <3>2, GotOldest DEF EndRead
  <2>5. cons.n \in 0..Len(Contents)
    BY <1>1
  <2>6. QED BY <2>3, <2>4, <2>5 DEF Fifo!Next, Fifo!Look, Fifo!Oldest
<1>3. CASE ReadDone
  <2>1. EndRead(cons.n, cons.got) /\ Len(cons.got) = cons.n
    BY <1>3 DEF ReadDone
  <2>2. Contents' = SubSeq(Contents, cons.n + 1, Len(Contents))
    BY <1>1, <2>1, EndRemoves
  <2>3. seen' = SubSeq(Contents, 1, cons.n)
    <3>1. SubSeq(cons.got, 1, cons.n) = cons.got
      BY <1>1, <2>1, SubSeqFull
    <3>2. cons.n \in 0..Len(cons.got)
      BY <1>1, <2>1
    <3>3. QED BY <2>1, <3>1, <3>2, GotOldest DEF EndRead
  <2>4. cons.n \in 0..Len(Contents)
    BY <1>1
  <2>5. QED BY <2>2, <2>3, <2>4 DEF Fifo!Next, Fifo!Take, Fifo!Oldest, Fifo!AllBut
<1>4. CASE DropDone
  <2>1. EndRead(cons.n, <<>>) /\ seen = <<>>
    BY <1>1, <1>4 DEF DropDone
  <2>2. Contents' = SubSeq(Contents, cons.n + 1, Len(Contents))
    BY <1>1, <2>1, EndRemoves
  <2>3. seen' = seen
    BY <2>1 DEF EndRead
  <2>4. cons.n \in 0..Len(Contents)
    BY <1>1
  <2>5. QED BY <2>2, <2>3, <2>4 DEF Fifo!Next, Fifo!Drop, Fifo!AllBut
<1>5. ASSUME NEW m \in 0..Size, LinearReadDone(m) PROVE Fifo!Next
  <2>1. m <= cons.n /\ Len(cons.got) = cons.n
        /\ EndRead(Smaller(m, Used), SubSeq(cons.got, 1, m))
    BY <1>5 DEF LinearReadDone
  <2>2. Smaller(m, Used) = m /\ m <= Used /\ m \in 0..Len(cons.got)
        /\ m \in 0..Len(Contents)
    BY <1>1, <2>1, WordSize DEF Smaller
  <2>3. SubSeq(cons.got, 1, m) \in Seq(Byte)
    BY <1>1, <2>2
  <2>4. Contents' = SubSeq(Contents, m + 1, Len(Contents))
    BY <1>1, <2>1, <2>2, <2>3, EndRemoves
  <2>5. seen' = SubSeq(Contents, 1, m)
    BY <2>1, <2>2, GotOldest DEF EndRead
  <2>6. QED BY <2>2, <2>4, <2>5 DEF Fifo!Next, Fifo!Take, Fifo!Oldest, Fifo!AllBut
<1>6. QED BY <1>2, <1>3, <1>4, <1>5

-----------------------------------------------------------------------------
(* The locked calls.                                                       *)

\* Unread byte p sits at write offset Free + p, one lap further on.
LEMMA UnreadOffset ==
  ASSUME IInv, NEW p \in 0..Used-1
  PROVE  Free + p \in 0..Size-1 /\ Slot(out + p) = Slot(in + (Free + p))
<1>1. p \in Nat /\ Used \in Nat /\ out \in Nat /\ in \in Nat
      /\ Free = Size - Used /\ Free \in Nat /\ Free + p \in 0..Size-1
      /\ in \in 0..Word-1 /\ out \in 0..Word-1
  BY Facts, WordSize
<1>2. Slot(in + (Free + p)) = Slot(out + Used + (Free + p))
  <2>1. Free + p \in Nat
    BY <1>1
  <2>2. QED BY <1>1, <2>1, SlotOfIn
<1>3. out + Used + (Free + p) = (out + p) + Size /\ out + p \in Nat
  BY <1>1, WordSize
<1>4. QED BY <1>1, <1>2, <1>3, SlotLap

\* The tail of a concatenation, byte by byte.
LEMMA TailOfConcat ==
  ASSUME NEW a \in Seq(Byte), NEW e \in Seq(Byte), NEW m \in 0..Len(a)
  PROVE  LET s == SubSeq(a \o e, m + 1, Len(a \o e))
             u == Len(a) - m + Len(e)
         IN  /\ s \in Seq(Byte) /\ Len(s) = u /\ u \in Nat
             /\ \A j \in 0..u-1 :
                  s[j + 1] = IF m + j < Len(a) THEN a[(m + j) + 1]
                                               ELSE e[(m + j - Len(a)) + 1]
<1> DEFINE c == a \o e
           u == Len(a) - m + Len(e)
           s == SubSeq(c, m + 1, Len(c))
<1>1. Len(a) \in Nat /\ Len(e) \in Nat /\ m \in Nat /\ u \in Nat
  OBVIOUS
<1>2. /\ c \in Seq(Byte) /\ Len(c) = m + u
      /\ \A i \in 1..m + u : c[i] = IF i <= Len(a) THEN a[i] ELSE e[i - Len(a)]
  BY <1>1, ConcatProperties
<1> HIDE DEF c
<1>3. \A i \in m + 1..Len(c) : c[i] \in Byte
  BY <1>1, <1>2
<1>4. /\ s \in Seq(Byte)
      /\ Len(s) = IF m + 1 <= Len(c) THEN Len(c) - (m + 1) + 1 ELSE 0
      /\ \A i \in 1..Len(c) - (m + 1) + 1 : s[i] = c[(m + 1) + i - 1]
  <2>1. m + 1 \in Int /\ Len(c) \in Int
    BY <1>1, <1>2
  <2>2. QED BY <2>1, <1>3, SubSeqProperties
<1> HIDE DEF s, u
<1>5. Len(s) = u /\ Len(c) - (m + 1) + 1 = u
  BY <1>1, <1>2, <1>4
<1>6. ASSUME NEW j \in 0..u-1
      PROVE  s[j + 1] = IF m + j < Len(a) THEN a[(m + j) + 1]
                                          ELSE e[(m + j - Len(a)) + 1]
  <2>1. j + 1 \in 1..u /\ (m + 1) + (j + 1) - 1 = (m + j) + 1 /\ (m + j) + 1 \in 1..m + u
        /\ ((m + j) + 1 <= Len(a) <=> m + j < Len(a))
        /\ (m + j) + 1 - Len(a) = (m + j - Len(a)) + 1
    BY <1>1
  <2>2. s[j + 1] = c[(m + j) + 1]
    BY <2>1, <1>4, <1>5
  <2>3. c[(m + j) + 1] = IF (m + j) + 1 <= Len(a) THEN a[(m + j) + 1]
                                                  ELSE e[(m + j) + 1 - Len(a)]
    BY <2>1, <1>2
  <2>4. QED BY <2>1, <2>2, <2>3
<1>7. QED BY <1>1, <1>4, <1>5, <1>6 DEF s, c, u

\* The step stores the n bytes e at the write offsets and nothing else.
Placed(n, e) ==
  /\ pool' \in [0..Size-1 -> Byte]
  /\ \A j \in 0..n-1 : pool'[Slot(in + j)] = e[j + 1]
  /\ \A j \in n..Size-1 : pool'[Slot(in + j)] = pool[Slot(in + j)]

\* The unread bytes that n new ones displace.
Displaced(n) == IF n > Free THEN n - Free ELSE 0

\* Byte p of old and new bytes together, and where it is once the new ones
\* are placed.
Joined(e, p) == IF p < Used THEN Contents[p + 1] ELSE e[(p - Used) + 1]

LEMMA PlacedBytes ==
  ASSUME IInv, NEW n \in 0..Size, NEW e \in Seq(Byte), Len(e) = n, Placed(n, e),
         NEW p \in Nat, p < Used + n, p >= Displaced(n)
  PROVE  pool'[Slot(out + p)] = Joined(e, p)
<1>1. /\ Size \in Nat /\ n \in Nat /\ Used \in Nat /\ Free \in Nat /\ Free = Size - Used
      /\ out \in Nat /\ in \in 0..Word-1 /\ out \in 0..Word-1
  BY Facts, WordSize
<1>2. CASE p < Used
  <2>1. p \in 0..Used-1
    BY <1>1, <1>2
  <2>2. Free + p \in 0..Size-1 /\ Slot(out + p) = Slot(in + (Free + p))
    BY <2>1, UnreadOffset
  <2>3. Free + p \in n..Size-1
    BY <1>1, <2>2 DEF Displaced
  <2>4. pool'[Slot(out + p)] = pool[Slot(out + p)]
    BY <2>2, <2>3 DEF Placed
  <2>5. Contents[p + 1] = pool[Slot(out + p)]
    BY <2>1, ContentsIs
  <2>6. QED BY <1>2, <2>4, <2>5 DEF Joined
<1>3. CASE ~(p < Used)
  <2>1. p - Used \in 0..n-1 /\ out + Used + (p - Used) = out + p /\ p - Used \in Nat
    BY <1>1, <1>3
  <2>2. e[(p - Used) + 1] = pool'[Slot(in + (p - Used))]
    BY <2>1 DEF Placed
  <2>3. Slot(in + (p - Used)) = Slot(out + p)
    BY <2>1, <1>1, SlotOfIn
  <2>4. QED BY <1>3, <2>2, <2>3 DEF Joined
<1>4. QED BY <1>2, <1>3

\* Writing n bytes e over the circle leaves the newest of old and new bytes.
LEMMA ReplaceIs ==
  ASSUME IInv, NEW n \in 0..Size, NEW e \in Seq(Byte), Len(e) = n,
         Placed(n, e), out' = Plus(out, Displaced(n)), in' = Plus(in, n)
  PROVE  Contents' = SubSeq(Contents \o e, Displaced(n) + 1, Len(Contents \o e))
<1> DEFINE m == Displaced(n)
           s == SubSeq(Contents \o e, m + 1, Len(Contents \o e))
<1>1. m \in 0..Size
  BY Facts, WordSize DEF Displaced
<1>2. /\ out' \in 0..Word-1 /\ m <= Used /\ Used' = Used - m + n /\ Used' \in 0..Size
  BY <1>1, OverwriteCounters DEF Displaced
<1> HIDE DEF m
<1>3. /\ Used \in Nat /\ n \in Nat /\ m \in Nat /\ out' \in Nat /\ Used' \in Nat
      /\ out \in 0..Word-1 /\ out \in Nat
  BY <1>1, <1>2, Facts, WordSize
<1>4. Contents \in Seq(Byte) /\ Len(Contents) = Used
  BY ContentsIs
<1>5. /\ s \in Seq(Byte) /\ Len(s) = Used'
      /\ \A j \in 0..Used'-1 : s[j + 1] = Joined(e, m + j)
  <2> HIDE DEF Contents
  <2>1. m \in 0..Len(Contents)
    BY <1>2, <1>3, <1>4
  <2> DEFINE u == Len(Contents) - m + Len(e)
  <2>2. /\ s \in Seq(Byte) /\ Len(s) = u
        /\ \A j \in 0..u-1 :
             s[j + 1] = IF m + j < Len(Contents) THEN Contents[(m + j) + 1]
                                          ELSE e[(m + j - Len(Contents)) + 1]
    BY <2>1, <1>4, TailOfConcat
  <2>3. u = Used'
    BY <1>2, <1>4
  <2> HIDE DEF u, s
  <2>4. ASSUME NEW j \in 0..u-1 PROVE s[j + 1] = Joined(e, m + j)
    <3>1. j \in Nat /\ u \in Nat /\ (m + j - Used) + 1 = m + j - Used + 1
      BY <1>3, <2>3
    <3>2. CASE m + j < Used
      BY <1>3, <1>4, <2>2, <3>1, <3>2 DEF Joined
    <3>3. CASE ~(m + j < Used)
      BY <1>3, <1>4, <2>2, <3>1, <3>3 DEF Joined
    <3>4. QED BY <3>2, <3>3
  <2>5. QED BY <2>2, <2>3, <2>4
<1> HIDE DEF s, Contents
<1>6. ASSUME NEW j \in 0..Used'-1 PROVE s[j + 1] = pool'[Slot(out' + j)]
  <2> DEFINE p == m + j
  <2>1. p \in Nat /\ p < Used + n /\ p >= m /\ j \in Nat /\ out + m + j = out + p
    BY <1>2, <1>3
  <2>2. s[j + 1] = Joined(e, p)
    BY <1>5
  <2>3. Slot(Plus(out, m) + j) = Slot(out + m + j)
    BY <2>1, <1>1, <1>3, SlotPlus
  <2>4. out' = Plus(out, m) /\ p >= Displaced(n)
    BY <2>1 DEF m
  <2> HIDE DEF p
  <2>5. pool'[Slot(out + p)] = Joined(e, p)
    BY <2>1, <2>4, PlacedBytes
  <2>6. QED BY <2>1, <2>2, <2>3, <2>4, <2>5
<1>7. pool' \in [0..Size-1 -> Byte]
  BY DEF Placed
<1>8. QED BY <1>3, <1>5, <1>6, <1>7, ContentsAfter DEF s, m

LEMMA OverwriteStep ==
  ASSUME IInv, NEW d \in Seq(Byte), Overwrite(d)
  PROVE  [Fifo!Next]_(Fifo!vars)
<1> DEFINE n == Smaller(Len(d), Size)
           e == SubSeq(d, 1, n)
<1>1. n \in 0..Size /\ n <= Len(d) /\ Len(d) \in Nat /\ n \in Nat
  BY WordSize DEF Smaller
<1>2. /\ seen' = seen /\ out' = Plus(out, Displaced(n)) /\ in' = Plus(in, n)
      /\ pool' = Stored(in, e)
  BY DEF Overwrite, Displaced
<1> HIDE DEF n
<1>3. /\ e \in Seq(Byte) /\ Len(e) = n
  <2>1. \A i \in 1..n : d[i] \in Byte
    BY <1>1
  <2>2. QED BY <1>1, <2>1, SubSeqProperties
<1> HIDE DEF e
<1>4. Placed(n, e)
  <2>1. in \in Nat /\ Size \in Nat
    BY Facts, WordSize
  <2>2. pool' \in [0..Size-1 -> Byte]
    BY <1>2, <1>3, <2>1, Facts, StoredType
  <2>3. ASSUME NEW j \in 0..Size-1
        PROVE  pool'[Slot(in + j)] = IF j < n THEN e[j + 1] ELSE pool[Slot(in + j)]
    <3>1. Slot(in + j) \in 0..Size-1
      <4>1. in + j \in Nat
        BY <2>1
      <4>2. QED BY <4>1, SlotType
    <3>2. Slot(Slot(in + j) + Size - Slot(in)) = j
      BY <2>1, SlotDistance
    <3>3. QED BY <3>1, <3>2, <1>2, <1>3 DEF Stored
  <2>4. \A j \in 0..n-1 : pool'[Slot(in + j)] = e[j + 1]
    BY <2>1, <2>3, <1>1
  <2>5. \A j \in n..Size-1 : pool'[Slot(in + j)] = pool[Slot(in + j)]
    BY <2>1, <2>3, <1>1
  <2>6. QED BY <2>2, <2>4, <2>5 DEF Placed
<1>5. Contents' = SubSeq(Contents \o e, Displaced(n) + 1, Len(Contents \o e))
  BY <1>1, <1>2, <1>3, <1>4, ReplaceIs
<1>6. Contents \in Seq(Byte) /\ Len(Contents) = Used
  BY ContentsIs
<1>7. Displaced(n) = IF Len(Contents) + Len(e) > Size
                     THEN Len(Contents) + Len(e) - Size ELSE 0
  <2> HIDE DEF Contents
  <2>1. QED BY <1>1, <1>3, <1>6, Facts, WordSize DEF Displaced
<1> HIDE DEF Contents
<1>8. CASE n = 0
  <2>1. e = <<>> /\ Displaced(n) = 0
    BY <1>3, <1>8, Facts, WordSize DEF Displaced
  <2>2. Contents \o e = Contents
    BY <2>1, <1>6, ConcatEmptySeq
  <2>3. Contents' = Contents
    BY <1>5, <1>6, <2>1, <2>2, SubSeqFull
  <2>4. QED BY <2>3, <1>2 DEF Fifo!vars
<1>9. CASE n # 0
  <2>1. e \in Fifo!Chunks
    <3>1. n \in 1..Size /\ e \in [1..n -> Byte]
      BY <1>1, <1>3, <1>9, WordSize
    <3>2. QED BY <3>1 DEF Fifo!Chunks
  <2>2. QED BY <2>1, <1>2, <1>5, <1>7 DEF Fifo!Next, Fifo!Replace, Fifo!AllBut
<1>10. QED BY <1>8, <1>9

LEMMA OverwriteByteStep ==
  ASSUME IInv, NEW b \in Byte, OverwriteByte(b)
  PROVE  Fifo!Next
<1> DEFINE e == <<b>>
<1>1. e \in Seq(Byte) /\ Len(e) = 1 /\ e[1] = b /\ e \in [1..1 -> Byte]
      /\ 1 \in 0..Size /\ 1 \in 1..Size
  BY WordSize
<1> HIDE DEF e
<1>2. /\ seen' = seen /\ out' = Plus(out, Displaced(1)) /\ in' = Plus(in, 1)
      /\ pool' = [pool EXCEPT ![Slot(in)] = b]
  BY Facts, WordSize DEF OverwriteByte, Displaced, Full, Plus
<1>3. Placed(1, e)
  <2>1. in \in Nat /\ Size \in Nat /\ Slot(in) \in 0..Size-1
    BY Facts, SlotType, WordSize
  <2>2. pool' \in [0..Size-1 -> Byte]
    BY <1>2, <2>1, Facts
  <2>3. pool'[Slot(in)] = b
    BY <1>2, <2>1, Facts
  <2>4. ASSUME NEW j \in 1..Size-1
        PROVE  pool'[Slot(in + j)] = pool[Slot(in + j)]
    <3>1. in + j \in Nat /\ in < in + j /\ in + j < in + Size
      BY <2>1
    <3>2. Slot(in) # Slot(in + j) /\ Slot(in + j) \in 0..Size-1
      BY <3>1, <2>1, SlotDistinct, SlotType
    <3>3. QED BY <3>2, <1>2, Facts
  <2>5. \A j \in 0..1-1 : pool'[Slot(in + j)] = e[j + 1]
    <3>1. ASSUME NEW j \in 0..1-1 PROVE pool'[Slot(in + j)] = e[j + 1]
      <4>1. j = 0 /\ in + j = in /\ j + 1 = 1
        BY <2>1
      <4>2. QED BY <4>1, <2>3, <1>1
    <3>2. QED BY <3>1
  <2>6. QED BY <2>2, <2>4, <2>5 DEF Placed
<1>4. Contents' = SubSeq(Contents \o e, Displaced(1) + 1, Len(Contents \o e))
  BY <1>1, <1>2, <1>3, ReplaceIs
<1>5. Contents \in Seq(Byte) /\ Len(Contents) = Used
  BY ContentsIs
<1> HIDE DEF Contents
<1>6. Displaced(1) = IF Len(Contents) + Len(e) > Size
                     THEN Len(Contents) + Len(e) - Size ELSE 0
  BY <1>1, <1>5, Facts, WordSize DEF Displaced
<1>7. e \in Fifo!Chunks
  BY <1>1 DEF Fifo!Chunks
<1>8. QED BY <1>2, <1>4, <1>6, <1>7 DEF Fifo!Next, Fifo!Replace, Fifo!AllBut

\* The queue is empty when the counters are equal.
LEMMA EmptyAtZero ==
  ASSUME pool \in [0..Size-1 -> Byte], in = 0, out = 0 PROVE Contents = <<>>
<1>1. Used = 0 /\ out \in Nat /\ 0 \in Nat
  BY DEF Used, Minus
<1>2. Contents = Window(pool, out, 0)
  BY <1>1 DEF Contents, Window
<1>3. Contents \in Seq(Byte) /\ Len(Contents) = 0
  BY <1>1, <1>2, WindowIs
<1> HIDE DEF Contents
<1>4. QED BY <1>3, EmptySeq

\* Both counters back to zero: the queue is cleared.
LEMMA ResetStep == ASSUME IInv, Reset PROVE Fifo!Next
<1>1. Contents' = <<>>
  <2>1. pool' \in [0..Size-1 -> Byte] /\ in' = 0 /\ out' = 0
    BY Facts DEF Reset
  <2>2. out' \in Nat /\ Used' = 0 /\ 0 \in Nat
    BY <2>1 DEF Used, Minus
  <2>3. <<>> \in Seq(Byte) /\ Len(<<>>) = 0
    OBVIOUS
  <2>4. \A j \in 0..0-1 : <<>>[j + 1] = pool'[Slot(out' + j)]
    OBVIOUS
  <2>5. QED BY <2>1, <2>2, <2>3, <2>4, ContentsAfter
<1>2. seen' = seen
  BY DEF Reset
<1>3. QED BY <1>1, <1>2 DEF Fifo!Next, Fifo!Clear

\* A finished write is one Accept, or nothing when no byte fitted.
LEMMA DoneStep ==
  ASSUME IInv, WriteDone \/ LinearWriteDone PROVE [Fifo!Next]_(Fifo!vars)
<1> DEFINE n == prod.n
           d == SubSeq(prod.data, 1, n)
<1>1. /\ n \in 0..Size /\ Used + n <= Size /\ seen' = seen
      /\ d \in [1..n -> Byte] /\ Contents' = Contents \o d
  BY DoneAppends
<1>2. Contents \in Seq(Byte) /\ Len(Contents) = Used /\ Used \in Nat
  BY ContentsIs, Facts, WordSize
<1> HIDE DEF n, d, Contents
<1>3. n \in Nat /\ d \in Seq(Byte) /\ Len(d) = n
  BY <1>1, WordSize
<1>4. CASE n = 0
  <2>1. d = <<>>
    BY <1>3, <1>4, EmptySeq
  <2>2. Contents' = Contents
    BY <1>1, <1>2, <2>1, ConcatEmptySeq
  <2>3. QED BY <1>1, <2>2 DEF Fifo!vars
<1>5. CASE n # 0
  <2>1. n \in 1..Size
    BY <1>1, <1>3, <1>5, WordSize
  <2>2. d \in Fifo!Chunks
    BY <1>1, <2>1 DEF Fifo!Chunks
  <2>3. Len(Contents) + Len(d) <= Size
    BY <1>1, <1>2, <1>3
  <2>4. QED BY <1>1, <2>2, <2>3 DEF Fifo!Next, Fifo!Accept
<1>6. QED BY <1>4, <1>5

\* Starting a call moves neither counter nor pool.
LEMMA BeginSteps ==
  ASSUME IInv, UNCHANGED <<in, out, pool>>, seen' = seen \/ seen' = <<>>
  PROVE  [Fifo!Next]_(Fifo!vars)
<1>1. pool' \in [0..Size-1 -> Byte]
  BY Facts
<1>2. Contents' = Contents
  BY <1>1, QueueKept
<1>3. CASE seen' = seen
  BY <1>2, <1>3 DEF Fifo!vars
<1>4. CASE seen' = <<>>
  BY <1>2, <1>4 DEF Fifo!Next, Fifo!Release
<1>5. QED BY <1>3, <1>4

-----------------------------------------------------------------------------
(* The refinement.                                                         *)

LEMMA StepRefines == ASSUME IInv, [Next]_vars PROVE [Fifo!Next]_(Fifo!vars)
<1>1. CASE Writer
  <2>1. CASE \/ \E d \in Chunk(MaxChunk) : Write(d)
             \/ \E b \in Byte : WriteByte(b)
             \/ \E d \in Chunk(MaxChunk) : LinearWriteSetup(d)
    <3>1. UNCHANGED <<in, out, pool, seen>>
      BY <2>1 DEF Write, WriteByte, LinearWriteSetup, BeginWrite
    <3>2. QED BY <3>1, BeginSteps
  <2>2. CASE WriteCopy
    <3>1. Contents' = Contents /\ seen' = seen
      BY <2>2, CopyInvisible DEF WriteCopy
    <3>2. QED BY <3>1 DEF Fifo!vars
  <2>3. CASE WriteDone \/ LinearWriteDone
    BY <2>3, DoneStep
  <2>4. QED BY <1>1, <2>1, <2>2, <2>3 DEF Writer
<1>2. CASE Reader
  <2>1. CASE \/ \E size \in 0..MaxChunk : Peek(size) \/ Read(size) \/ Drop(size)
             \/ PeekByte \/ ReadByte \/ DropByte \/ ResetRead \/ LinearReadSetup
    <3>1. UNCHANGED <<in, out, pool>> /\ seen' = <<>>
      BY <2>1 DEF Peek, Read, Drop, PeekByte, ReadByte, DropByte, ResetRead,
                  LinearReadSetup, BeginRead
    <3>2. QED BY <3>1, BeginSteps
  <2>2. CASE ReadCopy
    <3>1. UNCHANGED <<in, out, pool, seen>>
      BY <2>2 DEF ReadCopy
    <3>2. QED BY <3>1, BeginSteps
  <2>3. CASE PeekDone \/ ReadDone \/ DropDone \/ \E m \in 0..Size : LinearReadDone(m)
    BY <2>3, EndSteps
  <2>4. QED BY <1>2, <2>1, <2>2, <2>3 DEF Reader
<1>3. CASE Owner
  <2>1. CASE Reset
    BY <2>1, ResetStep
  <2>2. ASSUME NEW d \in Chunk(MaxChunk), Overwrite(d) PROVE [Fifo!Next]_(Fifo!vars)
    <3>1. d \in Seq(Byte)
      BY ChunkAssumption DEF Chunk
    <3>2. QED BY <2>2, <3>1, OverwriteStep
  <2>3. ASSUME NEW b \in Byte, OverwriteByte(b) PROVE [Fifo!Next]_(Fifo!vars)
    BY <2>3, OverwriteByteStep
  <2>4. QED BY <1>3, <2>1, <2>2, <2>3 DEF Owner
<1>4. CASE UNCHANGED vars
  <2>1. UNCHANGED <<in, out, pool, seen>>
    BY <1>4 DEF vars
  <2>2. QED BY <2>1, BeginSteps
<1>5. QED BY <1>1, <1>2, <1>3, <1>4 DEF Next

\* chry_ringbuffer.c: for every pool size, word size and interleaving of the
\* two contexts, the readers are handed exactly the bytes the writers stored,
\* in order, none twice and none lost.
THEOREM Refines == Spec => FifoSpec
<1>1. Init => Fifo!Init
  BY EmptyAtZero DEF Init, Fifo!Init
<1>2. IInv /\ [Next]_vars => [Fifo!Next]_(Fifo!vars)
  BY StepRefines
<1>3. Spec => []IInv
  BY Invariant
<1>4. QED BY <1>1, <1>2, <1>3, PTL DEF Spec, FifoSpec, Fifo!Spec

\* chry_ringbuffer_write and linear_write_done: what becomes readable is the
\* prefix of the caller's bytes that fitted, whatever the reader did meanwhile.
THEOREM Accepts == Spec => AcceptsWhatWasOffered
<1>1. ASSUME IInv, Next, prod.op # "idle", prod'.op = "idle"
      PROVE  WriteDone \/ LinearWriteDone
  <2>1. CASE Writer
    <3>1. CASE WriteCopy
      <4>1. prod'.op = prod.op
        BY <3>1, Facts DEF WriteCopy
      <4>2. QED BY <1>1, <4>1
    <3>2. QED BY <1>1, <2>1, <3>1 DEF Writer, Write, WriteByte, LinearWriteSetup, BeginWrite
  <2>2. CASE Reader \/ Owner
    <3>1. prod' = prod
      BY <2>2 DEF Reader, Owner, Peek, Read, Drop, PeekByte, ReadByte, DropByte, ResetRead,
         LinearReadSetup, BeginRead, ReadCopy, PeekDone, ReadDone, DropDone, LinearReadDone,
         EndRead, Reset, Overwrite, OverwriteByte
    <3>2. QED BY <1>1, <3>1
  <2>3. QED BY <1>1, <2>1, <2>2 DEF Next
<1>2. IInv /\ [Next]_vars =>
        [prod.op # "idle" /\ prod'.op = "idle"
           => Contents' = Contents \o SubSeq(prod.data, 1, prod.n)]_vars
  <2> SUFFICES ASSUME IInv, Next, prod.op # "idle", prod'.op = "idle"
               PROVE  Contents' = Contents \o SubSeq(prod.data, 1, prod.n)
    OBVIOUS
  <2>1. WriteDone \/ LinearWriteDone
    BY <1>1
  <2>2. QED BY <2>1, DoneAppends
<1>3. QED BY <1>2, Invariant, PTL DEF Spec, AcceptsWhatWasOffered
=============================================================================
