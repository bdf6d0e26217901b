CONSTANTS
    U = 256
    Memory = 14
    Bases = {2, 8, 10, 16}
    Sizes = {0, 1, 2, 3, 4, 5, 6, 7, 8, 9, 10, 11, 12}
    Unset = unset
    Messages <- MCMessages
    Numbers <- MCNumbers
    Strings <- MCStrings
    Letters <- MCLetters
    BufSize = 6
SPECIFICATION PrintSpec
INVARIANTS TypeOK ResultIsNumeral BufferInBounds OutputIsExpansion
