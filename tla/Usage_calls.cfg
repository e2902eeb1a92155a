CONSTANTS
    u1 = u1  u2 = u2  w1 = w1  w2 = w2  w3 = w3
    Users = {u1}
    Workers = {w1, w2, w3}
    Limit = 2
    LastDay = 1
    MaxBudgets = 2
    None = None
SPECIFICATION Spec
SYMMETRY MCSymmetry
INVARIANT TypeOK
PROPERTIES
    KeepsBudget
    RefusedWhenSpent
