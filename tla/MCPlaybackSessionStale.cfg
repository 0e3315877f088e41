\* A second transfer while a pause awaits the speaker.
CONSTANTS
    None = None
    Accounts = {"alice"}
    r1 = r1
    r2 = r2
    r3 = r3
    r4 = r4
    phone = phone
    tablet = tablet
    Requests = {r1, r2, r3, r4}
    SonosTargets = {"kitchen"}
    Attachments = {}
    Queues <- TransferQueues
    QueueBodies <- NoBodies
    StateBodies <- PausedStateBodies
    SonosPositions <- NoPositions
    MaxOtherEvents = 0
SPECIFICATION Spec
SYMMETRY Symmetric
INVARIANT OfferedTransferIsNewest
