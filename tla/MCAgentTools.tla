----------------------------- MODULE MCAgentTools ------------------------------
EXTENDS AgentTools

\* What a run may ask for: a few calls of one tool, or one call of several.
Of(asked) == [f \in Families |-> IF f \in DOMAIN asked THEN asked[f] ELSE 0]
MCQuotas ==
  {Of([reads |-> 3, writes |-> 1]),
   Of([searches |-> 2]),
   Of([searches |-> 1, meeting_auto |-> 2]),
   Of([searches |-> 1, minute_todos |-> 3]),
   Of([searches |-> 1, minute_transcript |-> 1]),
   Of([history |-> 3]),
   Of([writes |-> 1, history |-> 1]),
   Of([searches |-> 1, history |-> 1])}

\* A write that shortens the document, and one that does not.
MCPageCount == [v \in 0 .. 4 |-> IF v = 2 THEN 1 ELSE 2]

MCResultPages == [w \in Windows |-> IF w = "w1" THEN 1 ELSE 2]
MCCommands == (1 .. MaxMeetingCalls) \X Slots

\* All artifacts of a meeting; those of a minute, whose associations may be unreadable; one
\* of a minute that is asked for directly.
MCInput ==
  [meeting_auto |-> [reference |-> "meeting", kind |-> "auto", preference |-> "auto"],
   minute_transcript |-> [reference |-> "minute", kind |-> "transcript", preference |-> "auto"],
   minute_todos |-> [reference |-> "minute", kind |-> "todos", preference |-> "minute"]]
===============================================================================
