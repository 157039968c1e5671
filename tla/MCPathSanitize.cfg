\* sanitize_nested_path over ASCII names built from '.', '/', '\', ':', 'a',
\* and is_valid_utf8 over byte strings of up to four bytes: ASCII,
\* continuation bytes at the boundaries of the overlong ranges, and the lead
\* bytes C1, C2, E0, F0, F4 and F5.
CONSTANTS
    MaxNestedPathLength = 5
    MaxLen = 6
    Alphabet = {46, 47, 92, 58, 97}
    Utf8MaxLen = 4
    Utf8Alphabet = {65, 128, 144, 160, 191, 193, 194, 224, 240, 244, 245}

SPECIFICATION Spec

INVARIANT NoOverlongAccepted
INVARIANT MountPathsWhole
