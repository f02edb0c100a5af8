\* A call is swept, and its terminal event arrives late, under a later attempt.
CONSTANTS
  Exceptions = {e1}
  MaxAttempts = 3
  MaxBatch = 2
  Scanners = {c1}
  Apis = {}
  OutboxWorkers = {o1}
  Sweepers = {s1}
  Events = {v1}
  BadContact = {}
  Sensitive = {}
  Readiness = {TRUE}
  ShortReplies = FALSE
  Outcomes = {"unreached", "ontime"}
  MaxPolls = 0
SPECIFICATION Spec
PROPERTY DuplicateResultIsHarmless
CHECK_DEADLOCK FALSE
