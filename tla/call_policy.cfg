\* Three overdue exceptions, one with an unusable number; the scan takes one at a time.
CONSTANTS
  Exceptions = {1, 2, 3}
  BadContact = {2}
  MaxAttempts = 3
  Backoff <- Schedule
  LongAgo = 2
  Limit = 1
  Day = 3
  QuietPolicies <- Policies
  Outcomes = {"unreached", "ontime"}
SPECIFICATION FairSpec
INVARIANTS TypeOK
PROPERTIES QuietHoursAreKept RetriesAreSpaced WaitingIsNotEscalated QueueMoves
CHECK_DEADLOCK FALSE
