SPECIFICATION FairSpec
CONSTANTS
  Events = {1}
  Conversations = {"group"}
  ConversationKey <- MCOneConversation
  Stamps = {0}
  AdmissionSlots = 4
  Unsupported = {}
  AttemptLimit = 2
  MaxFaults = 2
INVARIANTS
  AtMostOneProgress
  FinalComesLast
  ShownIsHeld
PROPERTY
  SettledDespiteSignals
