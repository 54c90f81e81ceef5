SPECIFICATION Spec
CONSTANTS
    sampling = sampling
    reporting = reporting
    Task = {sampling, reporting}
    NULL = NULL
    SCHED_MAX_TASKS = 3
    Request <- MCRequest
    TearAt <- AvrTearAt
    MAX_LAG = 2
PROPERTIES
    ReadyRuns
    SleepsAgain
