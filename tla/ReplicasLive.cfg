\* One replica with two configurations and two chunks, under any two faults.
CONSTANTS
    Initial = {r1}
    Scaled = {}
    Configs = 2
    Chunks = 2
    Leftovers = TRUE
    MaxSwaps = 0
    MaxFaults = 2
SPECIFICATION FairSpec
PROPERTIES
    
    
    LossNoticed
CHECK_DEADLOCK FALSE
