\* sanitize_nested_path over ASCII names built from '.', '/', '\', ':', 'a'.
CONSTANTS
    MaxNestedPathLength = 5
    MaxLen = 6
    Alphabet = {46, 47, 92, 58, 97}
    Utf8MaxLen = 0
    Utf8Alphabet = {}

SPECIFICATION Spec

INVARIANT SanitizedStaysInside
