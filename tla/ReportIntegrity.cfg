\* A failed read ends its loop as if it had succeeded, against reporting_task.cpp:188.
SPECIFICATION Spec
CONSTANTS
    SAMPLE_SIZE = 2
    STOR_FUN_MAX_RETRIES = 2
    START_COMM_MAX_RETRIES = 2
    RETRY_CONNECTION_MAX_TRIES = 2
    MAX_BYTES_PER_REPORT = 3
    FETCH_SIZE = 2
    FREE_SLOTS = 1
    MAX_STREAM = 4
    MAX_READ_FAULTS = 1
INVARIANTS
    ReadBeforeSent
