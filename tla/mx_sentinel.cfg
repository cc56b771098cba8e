SPECIFICATION Spec
CONSTANTS
    Paths <- TablePaths
    Entities <- MCEntities
    Rows <- MCRows
    NameLabels <- MCNameLabels
    Identity <- MCIdentity
    Missing <- MCMissing
    Strips <- StripNodes
    Reports <- PlainReports
INVARIANTS
    OnlyMissingFiltered
\* a scrape ends
CHECK_DEADLOCK FALSE
