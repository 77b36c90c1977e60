SPECIFICATION Spec
CONSTANTS
  Events = {1}
  Conversations = {"group"}
  ConversationKey <- MCOneConversation
  Stamps = {0}
  AdmissionSlots = 4
  Unsupported = {}
  AttemptLimit = 3
  MaxFaults = 3
  PromptSends = TRUE
INVARIANT
  WriteOutcomesReported
