CONSTANTS
    Types <- FourTypes
    Regions <- FourRegions
    Mapped <- LastTwo
    Home = 4
    Quotas <- SomeQuotas
    CsvQuota = 4
    Solutions <- SomeSolutions
    Allowed <- SomeAllowed
    Supported <- SomeSupported
    Context <- SomeContext
    Fallback = "a4"
    Submissions <- SomeRequests
    Scales <- SomeScales
    MaxExpiries = 1
SPECIFICATION SubmissionSpec
INVARIANTS
    ImageAndQuota
PROPERTIES
    DryRunHolds
CHECK_DEADLOCK FALSE
