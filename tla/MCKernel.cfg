CONSTANTS
    Null = null
    Machines <- MCMachines
    Sectors = 2
SPECIFICATION Spec
INVARIANTS FadtIsListed ControllerFollowsTables NothingReadNothingRun
PROPERTY EnableReturns
