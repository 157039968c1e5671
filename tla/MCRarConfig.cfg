\* Two threads; the table may be built, destroyed and built again; callers
\* hold the global lock across each call (spec.md section 5).
CONSTANTS
    Threads = {t1, t2}
    File <- MCFile
    Paths <- MCPaths
    AliasFiles <- MCAliasFiles
    AliasInputs <- SiblingInputs
    MaxTables = 2
    MaxAliases = 2
    RwLockHeld = TRUE


SYMMETRY ThreadSymmetry

SPECIFICATION Spec

PROPERTY ImplementsConfigService
