\* Allocations may fail while any line is handled.
CONSTANTS
    Sections = {A}
    EofValues <- EofAsAccepted
    SeekLiterals <- SeekSmall
    PasswordValues <- MCPasswordValues
    AliasValues <- MCAliasValues
    MaxLines = 2
    InjectFaults = TRUE

SPECIFICATION Spec

INVARIANT NoNullEntryWrite
