CONSTANTS
    Machines <- AllMachines
    MaxKeys = 0
    MaxResend = 0
    MaxLate = 0
SPECIFICATION Spec
INVARIANTS
    TypeOK PortsDetected ConfigSettled DevicesIdentified EmptyPortSilent
    KeyboardDriverHasKeyboard KeyboardDriven FaultFromFirstPort AnswersConsumed
PROPERTIES Terminates
