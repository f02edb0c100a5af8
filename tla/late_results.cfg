\* One supplier whose results may each arrive twice, the webhook late, under a later
\* attempt, beside one whose note is sensitive.
CONSTANTS
  Exceptions = {e1, e2}
  MaxAttempts = 3
  MaxBatch = 2
  Scanners = {c1, c2}
  Apis = {}
  OutboxWorkers = {o1}
  Sweepers = {s1}
  Events = {v1}
  BadContact = {}
  Sensitive = {e2}
  Readiness = {TRUE}
  ShortReplies = FALSE
  Outcomes = {"unusable"}
  MaxPolls = 0
SYMMETRY ScannerSymmetry
SPECIFICATION Spec
INVARIANTS DisjointClaims OneLiveCall NoUnfitDial
CHECK_DEADLOCK FALSE
