CONSTANTS
    u1 = u1  u2 = u2  u3 = u3  w1 = w1  w2 = w2
    Users = {u1, u2, u3}
    Workers = {w1, w2}
    MaxUsers = 1
    LastTick = 2
    None = None
SPECIFICATION Spec
SYMMETRY MCSymmetry
PROPERTY AdmittedStays
