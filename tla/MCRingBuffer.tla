---------------------------- MODULE MCRingBuffer ----------------------------
(* Small instances of the ring for TLC.  Word is twice Size, so that the   *)
(* counters wrap after two laps of the pool.                               *)
EXTENDS RingBuffer
=============================================================================
