CONSTANTS
    r1 = r1  r2 = r2  r3 = r3  k1 = k1  k2 = k2
    Requests = {r1, r2, r3}
    McpRequests = {r1, r2}
    Keys = {k1, k2}
    Configured = {"SUPABASE_URL", "SUPABASE_JWT_SECRET"}
    BackOff = 2
    SetLifetime = 2
    SlowFetch = 1
    MaxTime = 3
    MaxFaults = 1
    None = None
    SentTokens <- MCTokens
SPECIFICATION FairSpec
INVARIANTS
    TypeOK
    EnteredContextKept
PROPERTIES
    StartsOnce
    GoodTokenAccepted
    FailedLookupsSpaced
    EveryRequestAnswered
