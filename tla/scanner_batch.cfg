\* Two suppliers on one call, planned by the scanner, answered by the sweep alone.
CONSTANTS
  Exceptions = {e1, e2}
  MaxAttempts = 2
  MaxBatch = 2
  Scanners = {c1}
  Apis = {}
  OutboxWorkers = {}
  Sweepers = {s1}
  Events = {}
  BadContact = {}
  Sensitive = {}
  Readiness = {TRUE}
  ShortReplies = FALSE
  Outcomes = {"missing", "unreached", "ontime"}
  MaxPolls = 0
SYMMETRY ExceptionSymmetry
SPECIFICATION Spec
INVARIANTS OneCallPerAttempt AttemptsClaimedOnce AwaitingIsUnanswered ResolvedOnOwnEvidence ClosedOnlyWhenOver
PROPERTIES TerminalIsFinal
CHECK_DEADLOCK FALSE
