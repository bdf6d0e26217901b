CONSTANTS
    DEFAULT_WAIT = 64
    U32 = 256
SPECIFICATION Spec
INVARIANTS TypeOK ResultMeaning
PROPERTIES ImplementsWait
