\* Do links end cleanly when dials overlap and connections fail?
CONSTANTS
    Cfg <- TwoVersions
    Dialers = {2}
    Slots = {1, 2}
    Hwm = 2
    Pingers = {1}
    MaxFaults = 1
SPECIFICATION FairSpec
INVARIANTS EndsAgree StaleOnlyIfDeadOnArrival NoLostWakeup
PROPERTIES ClosedIsReleased
CHECK_DEADLOCK FALSE
