SPECIFICATION FairSpec
CONSTANTS
    Pods = {p1}
    Clusters = {"A", "a", "b"}
    Names = {"a", "b"}
    Lower <- MCLower
    NoCluster = "noCluster"
    Hosts = {"h1", "h2", "h3"}
    Ports = {9100}
    Paths = {"esx", "vsan"}
    Texts = {"two", "grow", "twin", "none", "anon", "bad"}
    Unparsable = {"bad"}
    Providers <- MCProviders
    Label = "lbl"
    MonitorName = "lbl"
    Absent = Absent
    None = None
    Monitor = Monitor
    Bound <- FaultBudget
INVARIANTS
    TypeOK
    PassSynced
    MonitorSynced
PROPERTIES
    DropsOnlyObsolete
    CleanupComplete
    EventuallySynced
\* a pod that was terminated does nothing more
CHECK_DEADLOCK FALSE
