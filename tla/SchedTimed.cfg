\* The AVR build: the read of a delay can tear. Interrupts stop at MAX_CLOCK,
\* so the last sleep of a behaviour has no successor.
SPECIFICATION TSpec
CONSTANTS
    sampling = sampling
    reporting = reporting
    Task = {sampling, reporting}
    NULL = NULL
    SCHED_MAX_TASKS = 3
    Request <- MCRequest
    TearAt <- AvrTearAt
    MAX_LAG = 2
    MAX_CLOCK = 6
INVARIANTS
    TimingTypeOK
    NoDrift
    BoundedOvertaking
PROPERTIES
    EarlyOnlyByTear
    AcceptedRuns
CHECK_DEADLOCK FALSE
