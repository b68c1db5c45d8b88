\* Two producers, frames of 0, 1 and 3 bytes against a mark of 3, all policies.
CONSTANTS
    Producers = {p1, p2}
    NoProducer = NoProducer
    NoFrame = NoFrame
    Lens = {0, 1, 3}
    HighWaterMark = 3
    Policies = {"disconnect", "dropNewest", "dropOldest"}
    MaxFrames = 5
SPECIFICATION FairSpec
INVARIANTS WithinBudget NeverSilent NoLostWakeup
PROPERTIES ImplementsLossyQueue
