CONSTANTS
    u1 = u1  u2 = u2  w1 = w1  w2 = w2
    i1 = i1  i2 = i2  i3 = i3  i4 = i4  i5 = i5
    Users = {u1, u2}
    Workers = {w1, w2}
    ItemIds = {i1, i2}
    Categories = {"hat", "scarf", "shoes"}
    FieldSets = {"plain", "waterproof", "sneaker"}
    Template <- MCTemplate
    MaxItems = 3
    MaxBatch = 2
    Singles <- MCHats
    Batches <- NoBatches
    Edits <- MCEdits
    Absent = Absent
    Keep = Keep
SPECIFICATION Spec
SYMMETRY MCSymmetry
INVARIANTS
    TypeOK
    NoLockCycle
PROPERTIES
    DeletedStaysDeleted
    OwnRowOnly
    UnracedUpdateFits
