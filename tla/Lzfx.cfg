SPECIFICATION Spec
CHECK_DEADLOCK FALSE
CONSTANTS
    MEMORY_SIZE = 30
    MEMORY_COMPRESSED_MAX = 56
    SAMPLE_SIZE = 5
    LZFX_MAX_LIT = 9
    Dernier_echantillon = 4
    LONG_REF = 3
    WORD = 65
    BOARDS = {"AVR", "SAMD"}
    STARTS <- MCStarts
    MAX_SAMPLES = 7
    MAX_MISSED = 1
    GO_ON = FALSE
INVARIANTS
    DecodesUnlessSlipped
    RawRingKept
    KeepsUp
PROPERTIES
    CompressReturns
