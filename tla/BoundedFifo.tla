---------------------------- MODULE BoundedFifo ----------------------------
(***************************************************************************)
(* What a byte ring promises its two users: a queue of at most Size bytes. *)
(* Bytes leave in the order in which they were accepted, none is invented, *)
(* changed or handed over twice, and an accepted byte leaves the queue     *)
(* only because the reader took or dropped it, or because the owner of     *)
(* both sides overwrote or reset the queue.                                *)
(***************************************************************************)
EXTENDS Naturals, Sequences

CONSTANTS Size,  \* capacity in bytes
          Byte   \* the bytes that may be stored

VARIABLES q,     \* the bytes accepted and not yet taken, oldest first
          seen   \* the bytes the last read or peek handed to the reader

vars == <<q, seen>>

Chunks == UNION {[1..n -> Byte] : n \in 1..Size}

Init == q = <<>> /\ seen = <<>>

Oldest(n) == SubSeq(q, 1, n)
AllBut(s, n) == SubSeq(s, n + 1, Len(s))

\* The writer appends what fits.
Accept == /\ \E d \in Chunks : Len(q) + Len(d) <= Size /\ q' = q \o d
          /\ UNCHANGED seen

\* The reader takes, looks at, or drops the oldest bytes.
Take == \E n \in 0..Len(q) : seen' = Oldest(n) /\ q' = AllBut(q, n)
Look == \E n \in 0..Len(q) : seen' = Oldest(n) /\ UNCHANGED q
Drop == \E n \in 0..Len(q) : q' = AllBut(q, n) /\ UNCHANGED seen

\* The reader is done with what it was handed.
Release == seen' = <<>> /\ UNCHANGED q

\* With both sides stopped: the newest bytes replace the oldest, or all go.
Replace == /\ \E d \in Chunks :
                q' = AllBut(q \o d, IF Len(q) + Len(d) > Size
                                    THEN Len(q) + Len(d) - Size ELSE 0)
           /\ UNCHANGED seen
Clear == q' = <<>> /\ UNCHANGED seen

Next == Accept \/ Take \/ Look \/ Drop \/ Release \/ Replace \/ Clear

Spec == Init /\ [][Next]_vars
=============================================================================
