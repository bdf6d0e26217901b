CONSTANTS
    NCOL = 5
    NROW = 3
    U8 = 11
    MaxRow = 4
    Glyph = {space}
    Blank = blank
    NL = nl
    CR = cr
    Space = space
    Notice = space
    EOI = 4
    MaxChars = 2
    MaxInterrupts = 2
SPECIFICATION Spec
INVARIANT TypeOK
PROPERTIES AtomicUnlessInterrupted StrayRows CharReturns
