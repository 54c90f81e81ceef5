SPECIFICATION Spec
CONSTANTS
    MAX_DEPTH = 4
INVARIANTS
    OkMeansOwn
    NeverGivesUp
    NestedOnlyByRejoin
    OffOnlyUnjoined
PROPERTIES
    EventuallyJoins
    KeepsSending
