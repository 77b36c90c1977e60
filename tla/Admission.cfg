SPECIFICATION FairSpec
CONSTANTS
  Events = {1, 2, 3}
  Conversations = {"group", "private", "other"}
  ConversationKey <- MCConversationKey
  Stamps = {0}
  AdmissionSlots = 2
  Runs = {1, 2}
  ResultChat <- MCResultChat
  Loops = {a, b}
  MaxOpenEnqueues = 1
  MaxDeliveries = 3
  MaxDisturbances = 1
INVARIANTS
  WithinCapacity
  ChatHasOneInvocation
PROPERTY
  InAcceptedOrder
  EverythingAdmitted
