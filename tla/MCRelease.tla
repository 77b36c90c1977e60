------------------------------- MODULE MCRelease -------------------------------
(* The instances of Release for TLC. *)
EXTENDS Release

CONSTANTS d1, d2, d3

\* A host before its first release, one after it, and one whose state is full.
MCStarts == {<<>>, <<d1, Legacy>>, <<d1, d2, Legacy>>}

================================================================================
