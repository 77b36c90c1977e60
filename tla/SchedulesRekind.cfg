SPECIFICATION Spec
CONSTANTS
  Tasks = {1}
  Name <- MCName
  Pollers = {p}
  Edits = {"schedule"}
  Horizon = 3
  MaxVersion = 3
INVARIANT
  CompletedByItsOwnRun
