SPECIFICATION Spec
CONSTANTS
    MAX_TRIES = 5
    MAX_BEHIND = 3
INVARIANTS
    AnswersFit
    OwnUnlessLate
    ResultTrue
PROPERTIES
    DialoguesReturn
