\* The same: what a cancel leaves under way.
CONSTANTS
  Tabs = {t1}
  Connections = {1, 2, 3}
  Configs = {c1, c2}
  MaxCaptures = 3
  MaxPolls = 1
  UsesInstant = TRUE
SPECIFICATION MCSpec
CHECK_DEADLOCK FALSE
PROPERTIES AnswersAreCurrent
