\* Four raw cells and four compressed ones, on pages of three: a page holds cells
\* of both rings, and a sample of three bytes meets the end of the ring and of
\* a page at every offset. PERIOD is two laps of the compressed ring, so that a
\* stale byte is never taken for a new one.
SPECIFICATION Spec
CONSTANTS
    MEMORY_SIZE = 3
    MEMORY_COMPRESSED_MAX = 7
    PAGE_SIZE = 3
    SAMPLE_SIZE = 3
    RAW_START = 1
    COMP_START = 5
    MAX_EMIT = 2
    MAX_RUN = 2
    PERIOD = 8
    MAX_FAULTS = 1
INVARIANTS
    PointersOK
PROPERTIES
    ImplementsByteLog
    StoredExactly
