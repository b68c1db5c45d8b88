SPECIFICATION Spec
CONSTANTS
    Nodes = {a, b}
    Senders = {a}
    Slots = {1}
    Targets = {r}
    Everyone = Everyone
    MaxSends = 2
    MaxExcept = 2
    CountBits = 1
    QueueCap = 1
    MaxChurn = 1
    MaxFaults = 1
INVARIANTS OnceEach  MissesExplained
CHECK_DEADLOCK FALSE
