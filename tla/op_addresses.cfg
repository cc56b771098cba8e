SPECIFICATION Spec
CONSTANTS
    Pods = {p1}
    Clusters = {"A", "a", "b"}
    Names = {"a", "b"}
    Lower <- MCLower
    NoCluster = "noCluster"
    Hosts = {"h1", "h2", "h3"}
    Ports = {9100}
    Paths = {"esx", "vsan"}
    Texts = {"two", "grow", "bad"}
    Unparsable = {"bad"}
    Providers <- MCProviders
    Label = "lbl"
    MonitorName = "lbl"
    Absent = Absent
    None = None
    Monitor = Monitor
    Bound <- CalmBudget
INVARIANTS
    QuiescentAddresses
