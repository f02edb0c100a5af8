\* The sweep alone, with every fault of dispatchers and sweeps.
CONSTANTS
  Exceptions = {e1}
  MaxAttempts = 2
  MaxBatch = 2
  Scanners = {c1}
  Apis = {}
  OutboxWorkers = {}
  Sweepers = {s1}
  Events = {}
  BadContact = {}
  Sensitive = {}
  Readiness = {TRUE, FALSE}
  ShortReplies = TRUE
  Outcomes = {"missing", "unusable", "ontime", "human"}
  MaxPolls = 2
SPECIFICATION FairSpec
PROPERTIES CallsAreAnswered SweepClosesBatches
CHECK_DEADLOCK FALSE
