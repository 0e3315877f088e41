--------------------------- MODULE MCSonosSession ---------------------------
\* Instances of SonosSession for TLC.
EXTENDS SonosSession, TLC

CONSTANTS r1, r2, x, y

One == {<<x>>}
Two == {<<x, y>>}
KindsAll == AllKinds
KindsTransport == {"play", "stop", "resume", "next"}

Interchangeable == Permutations(Requests)

Done == [applied |-> TRUE, answered |-> TRUE]
Refused == [applied |-> FALSE, answered |-> FALSE]
Lost == [applied |-> TRUE, answered |-> FALSE]
AnyOutcome == {Done, Refused, Lost}
Taken == {Done, Lost}
=============================================================================
