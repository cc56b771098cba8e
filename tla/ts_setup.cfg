SPECIFICATION FairSpec
CONSTANTS
    Runs = {s1, s2}
    Initial = old
    None = None
    Bound <- SetupBudget
INVARIANTS
    TypeOK
    UntoldJustified
    NothingLeft
    SecretCurrent
PROPERTIES
    RefinesGrant
    SetupEnds
\* when all runs are over nothing changes any more
CHECK_DEADLOCK FALSE
