SPECIFICATION FairSpec
CONSTANTS
    Threads = {t1, t2}
    Retries = 2
    None = None
    Bound <- SessionBudget
INVARIANTS
    TypeOK
    EmptyJustified
PROPERTIES
    RefusalJustified
    SessionRecovers
