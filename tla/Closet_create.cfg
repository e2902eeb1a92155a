CONSTANTS
    u1 = u1  u2 = u2  w1 = w1  w2 = w2
    i1 = i1  i2 = i2  i3 = i3  i4 = i4  i5 = i5
    Users = {u1}
    Workers = {w1, w2}
    ItemIds = {i1, i2, i3, i4, i5}
    Categories = {"hat", "scarf", "shoes"}
    FieldSets = {"plain", "waterproof", "sneaker"}
    Template <- MCTemplate
    MaxItems = 2
    MaxBatch = 2
    Singles <- MCSingles
    Batches <- MCBatches
    Edits <- NoEdits
    Absent = Absent
    Keep = Keep
SPECIFICATION Spec
SYMMETRY MCSymmetry
INVARIANTS
    NoOrphans
    OvershootBounded
    BatchReport
    AccountGone
