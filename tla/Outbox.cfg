\* Two events that Koi accepts and one that it refuses, in batches of one row.  Or the
\* heartbeats of a replica with three configurations.
CONSTANTS
    Keys = {k1, k2, p1}
    Poison = {p1}
    BatchSize = 1
    MaxReports = 2
    MaxFaults = 2
    MaxOutages = 1
    Launching = {r1}
    Attempts = 3
    MaxSlow = 2
SPECIFICATION EitherSpec
INVARIANTS
    NothingForgotten
    DuplicatesHaveCauses
    OneLateBeat
PROPERTIES
    Drained
    BeatsEnd
CHECK_DEADLOCK FALSE
