----------------------------- MODULE RingBuffer -----------------------------
(***************************************************************************)
(* The byte ring of CherryRB (chry_ringbuffer.c): one pool, two            *)
(* free-running unsigned counters, one writer context (a USB interrupt)    *)
(* and one reader context (a task), and no lock between the two.           *)
(*                                                                         *)
(* An operation is not atomic.  It reads the counter of the other side     *)
(* once, moves its bytes one at a time, and only then stores its own       *)
(* counter; the other side may run between any two of these steps.  The    *)
(* two operations that the header comments say "should be add lock always" *)
(* (reset, overwrite) run with both sides idle, in one step.               *)
(***************************************************************************)
EXTENDS Integers, Sequences

CONSTANTS Size,      \* bytes in the pool (rb->mask + 1)
          Word,      \* the counters are unsigned and wrap at Word (2^32)
          Byte,      \* the bytes that are stored
          MaxChunk   \* bound: the largest size argument of a call

\* chry_ringbuffer_init refuses a size below 2 and one that is not a power of
\* two; what the algorithm needs of that is that the size divides the word.
ASSUME SizeAssumption == Size \in Nat /\ Size >= 2
ASSUME WordAssumption == Word \in Nat /\ \E k \in 2..Word : Word = k * Size
ASSUME ChunkAssumption == MaxChunk \in Nat

VARIABLES in,    \* rb->in
          out,   \* rb->out
          pool,  \* rb->pool
          prod,  \* the writer's call in progress: op, data, n accepted, k copied
          cons,  \* the reader's call in progress: op, n granted, got copied
          seen   \* the bytes the last finished read or peek returned

vars == <<in, out, pool, prod, cons, seen>>

-----------------------------------------------------------------------------
\* Unsigned arithmetic of the counters, for operands below Word.
Plus(a, n)  == IF a + n >= Word THEN a + n - Word ELSE a + n
Minus(a, b) == IF a >= b THEN a - b ELSE a - b + Word

Smaller(a, b) == IF a < b THEN a ELSE b

Slot(i) == i % Size            \* i & rb->mask
Used    == Minus(in, out)
\* Mutant: off by one, as if the writer could use one slot more.
FreeOneMore == Minus(Size, Used) + 1

Free    == Minus(Size, Used)
Full    == Used > Size - 1
Empty   == in = out

Chunk(m) == UNION {[1..n -> Byte] : n \in 0..m}

NoWrite == [op |-> "idle", data |-> <<>>, n |-> 0, k |-> 0]
NoRead  == [op |-> "idle", n |-> 0, got |-> <<>>]

Init ==
  /\ in = 0 /\ out = 0
  /\ pool \in [0..Size-1 -> Byte]
  /\ prod = NoWrite /\ cons = NoRead
  /\ seen = <<>>

-----------------------------------------------------------------------------
(* The writer.                                                             *)

BeginWrite(op, d, n) ==
  /\ prod.op = "idle"
  /\ prod' = [op |-> op, data |-> d, n |-> n, k |-> 0]
  /\ UNCHANGED <<in, out, pool, cons, seen>>

Write(d) == BeginWrite("write", d, Smaller(Len(d), Free))

WriteByte(b) == ~Full /\ BeginWrite("write", <<b>>, 1)

\* The caller gets a pointer and a length, and stores the bytes d through it.
LinearWriteSetup(d) ==
  /\ Len(d) <= Smaller(Size - Slot(in), Free)
  /\ BeginWrite("linear", d, Len(d))

\* memcpy, or the caller's own stores, one byte at a time.
WriteCopy ==
  /\ prod.k < prod.n
  /\ pool' = [pool EXCEPT ![Slot(in + prod.k)] = prod.data[prod.k + 1]]
  /\ prod' = [prod EXCEPT !.k = @ + 1]
  /\ UNCHANGED <<in, out, cons, seen>>

\* Mutant: the counter moves by what was asked, not by what fitted.
WriteDoneUnclipped ==
  /\ prod.op = "write" /\ prod.k = prod.n
  /\ in' = Plus(in, Len(prod.data))
  /\ prod' = NoWrite
  /\ UNCHANGED <<out, pool, cons, seen>>

\* Mutant: the counter is stored before the copy has ended.
WriteDoneEarly ==
  /\ prod.op = "write"
  /\ in' = Plus(in, prod.n)
  /\ prod' = NoWrite
  /\ UNCHANGED <<out, pool, cons, seen>>

WriteDone ==
  /\ prod.op = "write" /\ prod.k = prod.n
  /\ in' = Plus(in, prod.n)
  /\ prod' = NoWrite
  /\ UNCHANGED <<out, pool, cons, seen>>

LinearWriteDone ==
  /\ prod.op = "linear" /\ prod.k = prod.n
  /\ in' = Plus(in, Smaller(prod.n, Free))
  /\ prod' = NoWrite
  /\ UNCHANGED <<out, pool, cons, seen>>

-----------------------------------------------------------------------------
(* The reader.                                                             *)

BeginRead(op, n) ==
  /\ cons.op = "idle"
  /\ cons' = [op |-> op, n |-> n, got |-> <<>>]
  /\ seen' = <<>>
  /\ UNCHANGED <<in, out, pool, prod>>

Peek(size) == BeginRead("peek", Smaller(size, Used))
Read(size) == BeginRead("read", Smaller(size, Used))
Drop(size) == BeginRead("drop", Smaller(size, Used))

PeekByte == ~Empty /\ BeginRead("peek", 1)
ReadByte == ~Empty /\ BeginRead("read", 1)
DropByte == ~Empty /\ BeginRead("drop", 1)

\* rb->out = rb->in: the value of in is fetched, then stored.
ResetRead == BeginRead("drop", Used)

LinearReadSetup == BeginRead("linear", Smaller(Size - Slot(out), Used))

\* Mutant: the copy does not advance through the pool.
ReadCopyStuck ==
  /\ cons.op \in {"peek", "read", "linear"}
  /\ Len(cons.got) < cons.n
  /\ cons' = [cons EXCEPT !.got = Append(@, pool[Slot(out)])]
  /\ UNCHANGED <<in, out, pool, prod, seen>>

ReadCopy ==
  /\ cons.op \in {"peek", "read", "linear"}
  /\ Len(cons.got) < cons.n
  /\ cons' = [cons EXCEPT !.got = Append(@, pool[Slot(out + Len(@))])]
  /\ UNCHANGED <<in, out, pool, prod, seen>>

EndRead(n, bytes) ==
  /\ out' = Plus(out, n)
  /\ seen' = bytes
  /\ cons' = NoRead
  /\ UNCHANGED <<in, pool, prod>>

PeekDone == /\ cons.op = "peek" /\ Len(cons.got) = cons.n
            /\ EndRead(0, cons.got)
ReadDone == /\ cons.op = "read" /\ Len(cons.got) = cons.n
            /\ EndRead(cons.n, cons.got)
DropDone == cons.op = "drop" /\ EndRead(cons.n, <<>>)

\* The caller consumed m of the bytes it was given; the call clips m again.
LinearReadDone(m) ==
  /\ cons.op = "linear" /\ Len(cons.got) = cons.n /\ m <= cons.n
  /\ EndRead(Smaller(m, Used), SubSeq(cons.got, 1, m))

-----------------------------------------------------------------------------
(* Calls that need the lock: both sides are stopped while they run.        *)

Locked == prod.op = "idle" /\ cons.op = "idle"

Reset ==
  /\ Locked
  /\ in' = 0 /\ out' = 0
  /\ UNCHANGED <<pool, prod, cons, seen>>

\* The pool after the bytes s are stored from counter value i on.
Stored(i, s) ==
  [x \in 0..Size-1 |->
     LET k == Slot(x + Size - Slot(i)) IN IF k < Len(s) THEN s[k + 1] ELSE pool[x]]

Overwrite(d) ==
  LET size  == Smaller(Len(d), Size)
      moved == IF size > Free THEN size - Free ELSE 0
  IN /\ Locked
     /\ out' = Plus(out, moved)
     /\ pool' = Stored(in, SubSeq(d, 1, size))
     /\ in' = Plus(in, size)
     /\ UNCHANGED <<prod, cons, seen>>

OverwriteByte(b) ==
  /\ Locked
  /\ out' = IF Full THEN Plus(out, 1) ELSE out
  /\ pool' = [pool EXCEPT ![Slot(in)] = b]
  /\ in' = Plus(in, 1)
  /\ UNCHANGED <<prod, cons, seen>>

-----------------------------------------------------------------------------
Writer ==
  \/ \E d \in Chunk(MaxChunk) : Write(d)
  \/ \E b \in Byte : WriteByte(b)
  \/ \E d \in Chunk(MaxChunk) : LinearWriteSetup(d)
  \/ WriteCopy \/ WriteDone \/ LinearWriteDone

Reader ==
  \/ \E size \in 0..MaxChunk : Peek(size) \/ Read(size) \/ Drop(size)
  \/ PeekByte \/ ReadByte \/ DropByte
  \/ ResetRead \/ LinearReadSetup
  \/ ReadCopy \/ PeekDone \/ ReadDone \/ DropDone
  \/ \E m \in 0..Size : LinearReadDone(m)

Owner ==
  \/ Reset
  \/ \E d \in Chunk(MaxChunk) : Overwrite(d)
  \/ \E b \in Byte : OverwriteByte(b)

Next == Writer \/ Reader \/ Owner

Spec == Init /\ [][Next]_vars

-----------------------------------------------------------------------------
TypeOK ==
  /\ in \in 0..Word-1 /\ out \in 0..Word-1
  /\ pool \in [0..Size-1 -> Byte]
  /\ prod \in [op : {"idle", "write", "linear"}, data : Seq(Byte),
               n : 0..Size, k : 0..Size]
  /\ cons \in [op : {"idle", "peek", "read", "drop", "linear"},
               n : 0..Size, got : Seq(Byte)]
  /\ seen \in Seq(Byte)

\* The bytes accepted and not yet taken, oldest first.
Contents == [i \in 1..Used |-> pool[Slot(out + i - 1)]]

Fifo == INSTANCE BoundedFifo WITH q <- Contents

\* Whatever the two contexts interleave, a reader is handed exactly the bytes
\* that were accepted, in order: the ring implements a bounded FIFO.
FifoSpec == Fifo!Spec

\* What the writer gets into the queue is what it offered, as far as it fitted.
AcceptsWhatWasOffered ==
  [][prod.op # "idle" /\ prod'.op = "idle"
       => Contents' = Contents \o SubSeq(prod.data, 1, prod.n)]_vars

\* The slots of a write in progress are outside the bytes the reader may be
\* looking at, so no copy or transfer sees them change under it.
WriterAvoidsUnread ==
  \A i \in 0..prod.n-1 : \A j \in 0..Used-1 : Slot(in + i) # Slot(out + j)

-----------------------------------------------------------------------------
(* Why it works: the grants of the two sides, checked and then proved      *)
(* inductive in RingBufferProofs.                                          *)

\* A side stores its counter only after its bytes have moved, so the other
\* side sees too little room, or too few bytes, but never too much.
GrantsFit ==
  /\ Used <= Size
  /\ prod.n + Used <= Size /\ prod.k <= prod.n /\ prod.n <= Len(prod.data)
  /\ cons.n <= Used /\ Len(cons.got) <= cons.n
  /\ prod.op = "idle" => prod.n = 0
  /\ cons.op = "idle" => cons.n = 0
  /\ cons.op # "idle" => seen = <<>>

\* What has been copied so far agrees with the pool.
CopiesAgree ==
  /\ \A i \in 0..prod.k-1 : pool[Slot(in + i)] = prod.data[i + 1]
  /\ \A i \in 0..Len(cons.got)-1 : cons.got[i + 1] = pool[Slot(out + i)]

IInv == TypeOK /\ GrantsFit /\ CopiesAgree
=============================================================================
