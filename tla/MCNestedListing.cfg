\* Chunks of 1 and 2 units give capacities that are not powers of two.
CONSTANTS
    MaxRecursionDepth = 3
    DefaultMaxRecursionDepth = 2
    DefaultMaxUnpackedSize = 40
    BufferCap = 4
    ChunkSizes = {1, 2}
    NoArchive = NoArchive
    Archives <- MCArchives
    TopArchives <- MCTopArchives
    Nested <- MCNested
    FpHash <- MCFpHash
    Size <- MCSize
    Mtime <- MCMtime
    Unpacked <- MCUnpacked
    DepthOptions <- MCDepthOptions
    SizeOptions <- MCSizeOptions

SPECIFICATION FairSpec

INVARIANT TypeOK
INVARIANT StackMirrorsWalk
INVARIANT ChainOwnedByOpenLevels
INVARIANT ContextWithinLimits
INVARIANT ExpansionMatchesReference
INVARIANT BufferHoldsDelivered
INVARIANT TempFileWhole
INVARIANT EnteredLevelsWhole
PROPERTY ListingTerminates
