SPECIFICATION Spec
CONSTANTS
    None = None
    Kinds = {"hat", "jeans"}
    Template <- MCTemplate
    Flags = {"waterproof"}
    Texts = {"warm "}
    Trimmed <- MCTrimmed
    Writes <- MCWrites
    InitRows <- MCInitRows
    MaxItems = 3
    PageSize = 2
    MaxClicks = 2
    MaxEdits = 1
    MaxUnderWay = 2
    MaxMishaps = 1
CHECK_DEADLOCK FALSE
INVARIANTS
    TypeOK
    PageShowsPrefix
PROPERTIES
    FirstPageCurrent
    SaveKeepsTheRest
    LoadingEnds
