SPECIFICATION Spec
CONSTANTS
  Loads = {a, b}
  Updates = {u}
  StaleMax = 1
  Horizon = 2
  MaxRevision = 3
  a = a
  b = b
  u = u
INVARIANTS
  AnswersDoNotRegress
  StaleWithinGrace
  WritesApplyToWhatWasRead
