\* Two pages of two cells; calls of up to three bytes begin anywhere, so that one may
\* have to be split before its first, second or third byte, or end where a page ends.
\* Two polls: a device that is ready at once, late, or too late.
SPECIFICATION Spec
CONSTANTS
    MEMORY_COMPRESSED_MAX = 3
    PAGE_SIZE = 2
    TIMEOUT = 2
    MAX_LEN = 3
    Byte = {0, 1}
INVARIANTS
    DoneUnlessLost
    LostOnlyLate
PROPERTIES
    WritesInPlace
