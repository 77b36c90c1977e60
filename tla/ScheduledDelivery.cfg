SPECIFICATION FairSpec
CONSTANT
  Runs = {r}
INVARIANTS
  SentOnceOnRecord
  CompletedMeansPosted
PROPERTIES
  ClaimedRunEnds
