\* A dispatch that lost its answer is triggered again.
CONSTANTS
  Exceptions = {e1}
  MaxAttempts = 2
  MaxBatch = 2
  Scanners = {}
  Apis = {a1}
  OutboxWorkers = {}
  Sweepers = {}
  Events = {}
  BadContact = {}
  Sensitive = {}
  Readiness = {TRUE}
  ShortReplies = FALSE
  Outcomes = {"unreached"}
  MaxPolls = 0
SPECIFICATION Spec
INVARIANT OneLiveCall
CHECK_DEADLOCK FALSE
