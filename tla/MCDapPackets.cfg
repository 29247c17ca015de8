\* Two slots, a host that keeps two requests unanswered.
CONSTANTS
  Count = 2
  Wrap = 3
  Window = 2
  OneCore = FALSE
  MaxPackets = 5
  MaxAborts = 2
  MaxResets = 0
SPECIFICATION MCSpec
CHECK_DEADLOCK FALSE
INVARIANTS AnswersInOrder QueueConverted ReceivesIntoFreeSlot
PROPERTIES ServerSpec OneWriteAtATime ReceptionResumesOnOneCore RequestsAnswered
