CONSTANTS
    NCOL = 2
    NROW = 3
    U8 = 6
    MaxRow = 5
    Glyph = {a, b}
    Blank = Blank
SPECIFICATION Spec
INVARIANTS TypeOK ParkedAtColumnZero BelowIsBlank
PROPERTIES OffscreenUntouched ImplementsTerminal
