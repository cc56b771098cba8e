SPECIFICATION FairSpec
CONSTANTS
    Texts = {"t1", "t2"}
    Refusal = "page"
    Lists = {"t1", "t2"}
    Tokens = {"k1", "k2"}
    Configs = {{"CaCert"}, {"CaCert", "TokenInEnv"}, {"TokenInEnv", "Standalone"}}
    Absent = Absent
    Partial = Partial
    None = None
    Bound <- FaultBudget
INVARIANTS
    TypeOK
    NeverTorn
    UpdatePublishes
    LitterBounded
PROPERTIES
    RefinesServerList
    EventuallyLoaded
    StandaloneEnds
\* a process that was terminated, or ran once, does nothing more
CHECK_DEADLOCK FALSE
