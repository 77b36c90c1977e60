---------------------------- MODULE MCSchedules -------------------------------
EXTENDS Schedules

\* Two tasks of one name.
MCName == [t \in Tasks |-> "digest"]
===============================================================================
