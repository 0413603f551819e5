SPECIFICATION Spec
CONSTANTS
    NeProcs = {p, q, r}
    NeOutputs = 2
    NeMaxDamages = 1
    PrEntries = {"a", "b"}
    PrSize <- MCPrSize
    PrLimits <- MCPrLimits
    PrDay = 0
    PrMaxTime = 1
    PrMaxCopies = 2
    WtProjects <- MCWtProjects
    WtLayouts <- MCWtLayouts
    WtRequests <- MCWtRequests
    WtMaxEdits = 2
    DvLayouts <- MCDvLayouts
    DvMaxEdits = 2
    CpProcs = {c, d}
    CpLeader = c
    CpGrace = 1
    CpMaxChunks = 2
    RtProjects <- MCRtProjects
    RtHeights = {1, 2}
    RtMaxLines = 3
    RtMaxKeys = 2
    RtMaxCycles = 2
    VnPackages <- MCVnPackages
    VnLocks <- MCVnLocks
    VnMaxChanges = 3
    DpProjects <- MCDpProjects
    DpManifests <- MCDpManifests
    DpDeclared <- MCDpDeclared
    DpConfigs <- MCDpConfigs
    AcTokens <- MCAcTokens
    AcConfigs <- MCAcConfigs
    AcLegacy = {"C"}
    AcRules <- MCAcRules
    AcClaims <- MCAcClaims
    AcUploads = {u1, u2}
    AcSessionLife = 1
    AcScopeLife = 2
    AcBatch = 2
    AcMaxTime = 3
    AcMaxStarts = 2
INVARIANTS
    SurroundingsTypeOK
    EntriesSafety
    
    
    DependenciesSafety
    
CHECK_DEADLOCK FALSE
