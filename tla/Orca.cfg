\* One job with two rank ids, one plan of two actions, a crash and a call that raises.
CONSTANTS
    j1 = j1
    r1 = r1
    r2 = r2
    Jobs = {j1}
    Ranks = {r1, r2}
    JobOf <- OneJob
    PlanShapes <- LongPlans
    DownPolls = 2
    MaxPlans = 1
    MaxCrashes = 1
    MaxErrors = 1
SPECIFICATION FairSpec
INVARIANTS
    PausedHoldsNothing
PROPERTIES
    FinishedIsFinal
    SwapSurvivesCrashes
    PlansGetApplied
    CancelReachesChunks
