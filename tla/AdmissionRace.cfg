SPECIFICATION Spec
CONSTANTS
  Events = {1, 2}
  Conversations = {"group", "private", "other"}
  ConversationKey <- MCConversationKey
  Stamps = {0}
  AdmissionSlots = 2
  Runs = {1}
  ResultChat <- MCResultChat
  Loops = {a, b}
  MaxOpenEnqueues = 2
  MaxDeliveries = 2
  MaxDisturbances = 0
INVARIANT
  SerializedConversation
