\* save-eof written with a space after '=', as "key = value" in spec.md.
CONSTANTS
    Sections = {A, B}
    EofValues <- EofSpaced
    SeekLiterals <- SeekSmall
    PasswordValues <- MCPasswordValues
    AliasValues <- MCAliasValues
    MaxLines = 3
    InjectFaults = FALSE

SPECIFICATION Spec

INVARIANT SaveEofAsConfigured
