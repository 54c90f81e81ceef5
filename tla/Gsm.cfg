\* Three failures, in any of the ways the module has.
SPECIFICATION Spec
CONSTANTS
    MAX_AT_TRIES = 2
    MAX_POLLS = 2
    START_COMM_MAX_RETRIES = 2
    MAX_FAULTS = 3
INVARIANTS
    StartOkMeansDownload
    ConnectedUnlessTwoFail
    SendOkMeansDelivered
    ModuleIsOn
    AbortOkMeansOff
PROPERTIES
    CallsReturn
    EventuallyStarts
