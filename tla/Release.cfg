SPECIFICATION FairSpec
CONSTANTS
  d1 = d1
  d2 = d2
  d3 = d3
  Digests = {d1, d2, d3}
  Legacy = legacy
  NoJournal = NoJournal
  Starts <- MCStarts
  MaxAttempts = 3
  MaxFaults = 3
  LateSignals = FALSE
INVARIANTS
  StateNamesWhatRuns
  JournalCanBeSettled
  RollbackSetIsUsable
PROPERTIES
  SuccessIsFinal
  RecordsTellTheTruth
  RecoversWhenFaultsStop
