CONSTANTS
    h1 = h1  h2 = h2  h3 = h3  c1 = c1  c2 = c2
    Handlers = {h1, h2}
    Conns = {c1, c2}
    Cats = {"hat", "kilt"}
    Seeded = {"hat"}
    BatchHandlers = {h1}
    MaxEntries = 2
    None = None
SPECIFICATION FairSpec
INVARIANTS
    TypeOK
    PoolConserved
    NoStall
    KnownCategoryFound
    NoBareCategory
PROPERTY EveryRequestAnswered
