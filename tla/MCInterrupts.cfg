SPECIFICATION Spec
CONSTANTS
    Lines <- MCLines
    FirmwareMasks <- MCFirmwareMasks
    ReturnAddress = 4096
    MaxRaise = 3
INVARIANTS
    TypeOK
    VectorsMatch
    MasksRestored
    InServiceEnded
    FaultOnlyUnprepared
PROPERTY
    RequestServed
