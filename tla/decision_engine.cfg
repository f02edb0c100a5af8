\* Every answer, around the budget's, the confidence's and the delay's thresholds.
CONSTANTS
  MaxAttempts = 2
  MinConfidence = 60
  DelayThresholdHours = 36
  States = {"CALLING", "HUMAN_REVIEW"}
  Scores = {59, 60}
  Slips = {1, 2}
SPECIFICATION Spec
INVARIANTS TypeOK ResolvesOnFullEvidence ConfidenceOnlyWithholds
  NobodyIsRedialledAgainstTheirWord OutcomesAreFaithful
CHECK_DEADLOCK FALSE
