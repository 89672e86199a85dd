\* Every sequence of three commands on the profile of MCFilesystem: a path is
\* removed, made again as something else and copied over.
CONSTANTS
    Names = {1, 2}
    Paths <- MCPaths
    Contents = {"", "x"}
    Rows <- MCRows
    Dynamic <- MCDynamic
    SystemFiles <- MCSystemFiles
    RecursionLimit = 2
    MaxOps = 3
SPECIFICATION Spec
INVARIANTS
    LayersDisjoint
    ListingMatchesLookup
    CopyIsFaithful
PROPERTIES
    ImplementsPathMap
CHECK_DEADLOCK FALSE
