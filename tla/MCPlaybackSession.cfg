\* One account, three requests of any kind with cursors, positions and durations in
\* and out of range, one speaker, and one revision used by another account.
CONSTANTS
    None = None
    Accounts = {"alice"}
    r1 = r1
    r2 = r2
    r3 = r3
    r4 = r4
    phone = phone
    tablet = tablet
    Requests = {r1, r2, r3}
    SonosTargets = {"kitchen"}
    Attachments = {phone}
    Queues <- CursorQueues
    QueueBodies <- CursorQueueBodies
    StateBodies <- CursorStateBodies
    SonosPositions <- CursorPositions
    MaxOtherEvents = 1
SPECIFICATION Spec
SYMMETRY Symmetric
INVARIANTS TransferHasQueue ScreenFollows QueueCursor
