SPECIFICATION Spec
CONSTANTS
  Requests <- MCRequests
  ReviewerSets <- MCReviewerSets
INVARIANTS
  MatrixHolds
  HardDataAlerts
  AllowIsEarned
\* A verdict is the end of the run.
CHECK_DEADLOCK FALSE
