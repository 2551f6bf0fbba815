CONSTANTS
    Lines = 3
    Invalid = {1}
    Limit = 2
    MaxConcurrent = 1
    Chunks = 2
    Capacity = 2
    Drained = 1
    MaxLogLines = 2
    MaxMishaps = 2
SPECIFICATION EngineFairSpec
INVARIANTS
    OutputAnswers
    LogsOnce
PROPERTIES
    RunnerEnds
CHECK_DEADLOCK FALSE
