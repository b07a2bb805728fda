SPECIFICATION Spec
CONSTANTS
    Intervals <- MCIntervals
    Deadlines <- MCDeadlines
    Never = never
    never = never
    MaxLatency = 1
    MaxStall = 1
INVARIANTS
    NilMeansOk
    EndsWithTheContext
    HealthyIsNoticed
PROPERTIES
    PausesAfterFailure
    Returns
