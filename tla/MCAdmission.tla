----------------------------- MODULE MCAdmission ------------------------------
EXTENDS Admission

\* Events 1 and 2 in one conversation, event 3 in another.
MCConversationKey == [e \in Events |-> IF e = 3 THEN "private" ELSE "group"]

\* The first run delivers to the group, the second to a chat without events.
MCResultChat == [r \in Runs |-> IF r = 1 THEN "group" ELSE "other"]
===============================================================================
