\* What do lost, late, doubled and reordered packets do to the probe rounds?
CONSTANTS
    Members = {1, 2, 3}
    Mortal = {3}
    IndirectK = 1
    NoNode = 0
    MaxSeq <- Bounds
    MaxInc <- Incarnations
SPECIFICATION ProbeSpec
INVARIANTS PendingIsCurrent  
 
CHECK_DEADLOCK FALSE
