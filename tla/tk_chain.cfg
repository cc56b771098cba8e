SPECIFICATION ChainFairSpec
CONSTANTS
    Runs = {s1, s2}
    Initial = old
    None = None
    Bound <- SetupBudget
    Texts = {"t1"}
    Refusal = "page"
    Lists = {"t1"}
    Configs = {{}}
    Absent = Absent
    Partial = Partial
    DaemonBound <- SidecarBudget
INVARIANTS
    RefusedOnlyLate
    Delivered
PROPERTIES
    RotationSurvived
\* when all runs are over nothing changes any more
CHECK_DEADLOCK FALSE
