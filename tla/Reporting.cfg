\* A report takes three bytes, or two when it is trimmed, in buffers of two; the
\* scheduler has one free slot, so that a one-shot cannot reschedule the task.
SPECIFICATION Spec
CONSTANTS
    SAMPLE_SIZE = 2
    STOR_FUN_MAX_RETRIES = 2
    START_COMM_MAX_RETRIES = 2
    RETRY_CONNECTION_MAX_TRIES = 2
    MAX_BYTES_PER_REPORT = 3
    FETCH_SIZE = 2
    FREE_SLOTS = 1
    MAX_STREAM = 4
    MAX_READ_FAULTS = 2
INVARIANTS
    ConfirmedDelivered
    ReadsInFull
    SentAsAnnounced
    ReleasesStore
PROPERTIES
    TaskReturns
    EventuallyDelivered
