SPECIFICATION Spec
CONSTANTS
    Lines <- MCLines
    FirmwareMasks <- MCFirmwareMasks
    ReturnAddress = 4096
    MaxRaise = 3
INVARIANT
    VectorPassed
