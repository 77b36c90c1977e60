SPECIFICATION FairSpec
CONSTANTS
  Families = {"reads", "writes", "searches", "history",
              "meeting_auto", "minute_transcript", "minute_todos"}
  Quotas <- MCQuotas
  Keys = {"outline"}
  PageCount <- MCPageCount
  NoPages = NoPages
  MaxEdits = 1
  Windows = {"w1", "w2"}
  ResultPages <- MCResultPages
  Commands <- MCCommands
  Requests = {"meeting_auto", "minute_transcript", "minute_todos"}
  Input <- MCInput
  MaxMeetingCalls = 4
  NoContent = NoContent
  ContentPages = 2
  Sizes = {1}
  RunBytes = 1
  MaxRevisions = 2
  GroupPages = 3
INVARIANTS
  ReadsOwnWrites
  PagesOfOneSnapshot
  ReceiptsTellTheTruth
  DirectoryOutlivesWriter
  TraversalsMissNothing
PROPERTIES
  TerminationIsNotRetried
  EverythingEnds
CHECK_DEADLOCK FALSE
