\* Two calls, both announced, the one to two suppliers by an event that two requests may bring;
\* one drain, which may claim both messages at once, and one sweep of both batches.
CONSTANTS
  c1 = c1
  c2 = c2
  e1 = e1
  e2 = e2
  e3 = e3
  v1 = v1
  v2 = v2
  h1 = h1
  h2 = h2
  Calls = {c1, c2}
  Exceptions = {e1, e2, e3}
  Members <- TwoThenOne
  Events = {v1, v2}
  Results <- ReleasesThenSettles
  About <- BothAnnounced
  Handlers = {h1, h2}
  Carriers <- FirstTwice
  Drainers = {d1}
  Sweepers = {s1}
  ClaimLimit = 2
  MaxFaults = 1
SPECIFICATION FairSpec
INVARIANTS TypeOK ResultsComeWithTheirBatch
PROPERTIES EventIsProcessedOnce SettledIsFinal BacklogClears
CHECK_DEADLOCK FALSE
