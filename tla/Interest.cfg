\* Does every view of what a node hosts heal?
CONSTANTS
    Nodes = {n1, n2, n3}
    Hosts = {n1}
    Targets = {"s", "t"}
    Changes <- TwoRooms
    None = None
    MaxEdges = 2
    Shaky = {{n1, n2}}
    MaxFaults = 1
SPECIFICATION FairSpec
 
PROPERTIES Heals
CHECK_DEADLOCK FALSE
