SPECIFICATION Spec
CHECK_DEADLOCK FALSE
CONSTANTS
    MEMORY_SIZE = 40
    MEMORY_COMPRESSED_MAX = 80
    SAMPLE_SIZE = 5
    LZFX_MAX_LIT = 32
    Dernier_echantillon = 4
    LONG_REF = 3
    WORD = 90
    BOARDS = {"AVR"}
    STARTS <- FarFromEnd
    MAX_SAMPLES = 3
    MAX_MISSED = 0
    GO_ON = TRUE
INVARIANTS
    Decodes
