SPECIFICATION Spec
CONSTANTS
    Workers = {w1, w2}
    Subs = {s1}
    Kinds = {"admins", "residents"}
    Limits <- TwoPlans
    Ends = {1}
    MaxBulk = 1
    MaxRows = 3
    Timeout = 0
    MaxTime = 1
SYMMETRY Symmetry
INVARIANTS
    TypeOK
    OvershootBounded
PROPERTIES
    QuotaGrace
