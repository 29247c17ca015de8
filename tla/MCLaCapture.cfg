\* A page with two connections, cancels, failures, instant captures among the
\* others and settings at any time; and one with three, whose polls overlap.
CONSTANTS
  Tabs = {t1}
  Connections = {1, 2, 3}
  Configs = {c1, c2}
  MaxCaptures = 3
  MaxPolls = 1
  UsesInstant = TRUE
SPECIFICATION MCSpec
CHECK_DEADLOCK FALSE
INVARIANTS IInv InstantIsOwn
PROPERTIES PageShowsItsCapture TriggerIsNoticed InstantEnds
