CONSTANTS
    Null = null
    Machines <- MCMachines
    Sectors = 2
SPECIFICATION Spec

PROPERTY NoAcpiBoots
