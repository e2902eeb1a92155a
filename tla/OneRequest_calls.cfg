SPECIFICATION Spec
CONSTANTS
    None = None
    NaN = NaN
    Template <- MCTemplate
    NumberOf <- MCNumberOf
    MaxColors = 2
    MaxClauseLength = 5
    MaxNestingDepth = 1
    MaxAstNodes = 9
    MaxAstDepth = 4
    Ids = {1, 2, 3}
    User = "user"
    OtherRows <- MCOtherRows
    MaxItems = 2
    MaxBatch = 3
    QueryLimit = 1
    ListingLimit = 2
    RawItems <- MCRawItems
    Batches <- MCBatches
    Patches <- MCPatches
    RawCategories <- MCRawCategories
    Trees <- MCTrees
    Clauses <- MCClauses
    ApiPaths <- MCApiPaths
    Files <- MCFiles
    Paths <- MCPaths
INVARIANTS
    TypeOK
    StoredFieldsValid
    AnswersComplete
    PrescanExact
    RoutesReach
PROPERTIES
    BatchAnswered
    UpdateTouchesNamed
