SPECIFICATION FairSpec
CONSTANTS
  Tasks = {1, 2}
  Name <- MCName
  Pollers = {p}
  Edits = {"details", "schedule"}
  Horizon = 3
  MaxVersion = 3
INVARIANTS
  PlannedTimeRunsOnce
  NothingStuck
  NoOverlapUnderOneName
  DispatchableIsUnrun
PROPERTY
  MissedIsTakenUp
