SPECIFICATION Spec
CONSTANTS
    Texts = {"t1", "t2"}
    Refusal = "page"
    Lists = {"t1", "t2"}
    Tokens = {"k1", "k2"}
    Configs = {{}}
    Absent = Absent
    Partial = Partial
    None = None
    Bound <- OneChange
INVARIANTS
    ListIsList
