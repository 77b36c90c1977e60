--------------------------- MODULE MCMessageWorker ----------------------------
EXTENDS MessageWorker

\* All events in one conversation.
MCOneConversation == [e \in Events |-> "group"]
===============================================================================
