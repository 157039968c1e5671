\* BufferCap 8 stands for 1 GiB (one unit = 128 MiB).  Chunks of 1 and 3
\* units make capacities that are not powers of two; member sizes cover an
\* empty archive, one that fits after doubling (4), one that fits the cap
\* but not a doubled capacity (7) and one above the cap (9).
CONSTANTS
    BufferCap = 8
    ChunkSizes = {1, 3}
    MemberSizes = {0, 4, 7, 9}

SPECIFICATION Spec

INVARIANT ExtractionFailsOnlyBeyondCap
