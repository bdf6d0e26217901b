CONSTANTS
    Machines <- AllHealthy
    MaxKeys = 0
    MaxResend = 0
    MaxLate = 0
SPECIFICATION Spec
INVARIANTS ScanSetChecked
