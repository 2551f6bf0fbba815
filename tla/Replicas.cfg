\* One replica of the launch and one that scale or a swap adds, without faults.
CONSTANTS
    Initial = {r1}
    Scaled = {s1}
    Configs = 1
    Chunks = 1
    Leftovers = FALSE
    MaxSwaps = 1
    MaxFaults = 0
SPECIFICATION Spec
INVARIANTS
    GuaranteedFire
    
CHECK_DEADLOCK FALSE
