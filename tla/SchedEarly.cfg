\* The AVR build against the period promised in task_scheduler.h:26.
SPECIFICATION TSpec
CONSTANTS
    sampling = sampling
    reporting = reporting
    Task = {sampling, reporting}
    NULL = NULL
    SCHED_MAX_TASKS = 3
    Request <- MCRequest
    TearAt <- AvrTearAt
    MAX_LAG = 2
    MAX_CLOCK = 6
PROPERTIES
    NeverEarly
CHECK_DEADLOCK FALSE
