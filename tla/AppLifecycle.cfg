SPECIFICATION Spec
CONSTANT MaxRuntimes = 3
INVARIANTS
  OneRuntime
  NothingOutlivesStop
