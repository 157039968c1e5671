\* As MCRarConfig.cfg, but rarconfig_destroy may run while another thread is
\* inside a getter (no lock held across the call).
CONSTANTS
    Threads = {t1, t2}
    File <- MCFile
    Paths <- MCPaths
    AliasFiles <- MCAliasFiles
    AliasInputs <- SiblingInputs
    MaxTables = 2
    MaxAliases = 2
    RwLockHeld = FALSE

SYMMETRY ThreadSymmetry

SPECIFICATION Spec

INVARIANT NoUseAfterFree
