\* A pool of two bytes, chunks larger than the pool.
CONSTANTS
  Size = 2
  Word = 4
  Byte = {b1, b2}
  MaxChunk = 3
SPECIFICATION Spec
INVARIANTS WriterAvoidsUnread IInv
PROPERTIES FifoSpec AcceptsWhatWasOffered
CHECK_DEADLOCK FALSE
