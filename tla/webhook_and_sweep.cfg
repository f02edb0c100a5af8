\* The webhook's result and a sweep of the same call overlap.
CONSTANTS
  Exceptions = {e1}
  MaxAttempts = 1
  MaxBatch = 2
  Scanners = {c1}
  Apis = {}
  OutboxWorkers = {o1}
  Sweepers = {s1}
  Events = {v1}
  BadContact = {}
  Sensitive = {}
  Readiness = {TRUE}
  ShortReplies = FALSE
  Outcomes = {"unreached", "ontime"}
  MaxPolls = 1
SPECIFICATION FairSpec
PROPERTY CallsAreAnswered
CHECK_DEADLOCK FALSE
