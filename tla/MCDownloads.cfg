CONSTANTS
  Jobs = {j1, j2}
  Repos = {r}
  Files = {f, g}
  Revisions = {v}
  Size = 2
  None = None
SPECIFICATION FairDownSpec
INVARIANTS
  DownTypeOK
  AppendedIsIntact
  CountIsSize
  ClosedMeansStopped
PROPERTIES
  OutcomeStands
  CancelledEnds
CHECK_DEADLOCK FALSE
