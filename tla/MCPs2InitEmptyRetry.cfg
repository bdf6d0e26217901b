CONSTANTS
    Machines <- Noisy
    MaxKeys = 0
    MaxResend = 1
    MaxLate = 1
SPECIFICATION Spec
PROPERTIES TimeoutEndsCommand
