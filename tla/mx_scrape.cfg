SPECIFICATION Spec
CONSTANTS
    Paths <- TablePaths
    Entities <- MCEntities
    Rows <- MCRows
    NameLabels <- MCNameLabels
    Identity <- MCIdentity
    Missing <- MCMissing
    Strips <- StripNodes
    Reports <- MCReports
INVARIANTS
    TypeOK
    OnlyReported
    NothingLost
    WellFormed
\* a scrape ends
CHECK_DEADLOCK FALSE
