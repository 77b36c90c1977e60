--------------------------- MODULE MCMemberSignals ----------------------------
EXTENDS MemberSignals

\* All events in one conversation.
MCOneConversation == [e \in Events |-> "group"]
===============================================================================
