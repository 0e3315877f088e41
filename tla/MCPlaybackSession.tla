------------------------- MODULE MCPlaybackSession -------------------------
(* Instances of PlaybackSession for TLC. *)
EXTENDS PlaybackSession, TLC

CONSTANTS r1, r2, r3, r4, phone, tablet

Symmetric == Permutations(Requests)

QueueOf(queue, index, state, position, duration) ==
    [queue |-> queue, index |-> index, state |-> state,
     position |-> position, duration |-> duration]
PatchOf(index, state, position, duration) ==
    [index |-> index, state |-> state, position |-> position, duration |-> duration]

\* Queues with and without durations, cursors inside and outside them, and the
\* bodies that take each road through the handlers.
CursorQueues == {<<1>>}
CursorQueueBodies ==
    {QueueOf(queue, index, "playing", position, duration) :
        queue \in {<<>>, <<1>>, <<None, 2>>}, index \in {None, 1},
        position \in {None, 2}, duration \in {None, 1}}
        \cup {QueueOf(<<1>>, 0, "paused", None, None)}
CursorStateBodies ==
    {PatchOf(None, None, 2, None), PatchOf(0, None, 2, None)}
        \cup {PatchOf(1, None, position, None) : position \in {None, 2}}
        \cup {PatchOf(None, state, None, None) : state \in {"paused", "playing"}}
CursorPositions == {0, 2}

\* One queue and one body: the least that shows how a preview taken before an
\* await undoes what happened during it.
TransferQueues == {<<1>>}
NoBodies == {}
NoPositions == {}
PausedStateBodies == {PatchOf(None, "paused", None, None)}
=============================================================================
