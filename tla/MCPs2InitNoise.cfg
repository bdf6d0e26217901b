CONSTANTS
    Machines <- Noisy
    MaxKeys = 1
    MaxResend = 2
    MaxLate = 1
SPECIFICATION Spec
INVARIANTS DevicesIdentified KeyboardDriverHasKeyboard AnswersConsumed
PROPERTIES Terminates
