\* One supplier, triggered by hand, answered by webhook and by sweep.
CONSTANTS
  Exceptions = {e1}
  MaxAttempts = 2
  MaxBatch = 2
  Scanners = {}
  Apis = {a1}
  OutboxWorkers = {o1}
  Sweepers = {s1}
  Events = {v1}
  BadContact = {}
  Sensitive = {}
  Readiness = {TRUE}
  ShortReplies = TRUE
  Outcomes = {"unreached", "ontime", "optout"}
  MaxPolls = 1
SPECIFICATION Spec
INVARIANTS TypeOK DialsWithinBudget AwaitingHasCall
PROPERTIES TerminalIsFinal NoDialAfterOptOut ImplementsLifecycle
CHECK_DEADLOCK FALSE
