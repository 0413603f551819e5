SPECIFICATION Spec
CONSTANTS
    ExecTasks <- MCExecTasks
    ExecProject <- MCExecProject
    ExecTarget <- MCExecTarget
    ExecOptions <- MCExecOptions
    ExecMaxTransfers = 1
    ExecAttempts = 2
    ExecMaxEdits = 1
    RestRestorers = {r1, r2, r3}
    RestMaxFolders = 2
    RestMaxFaults = 1
    RestOld = old
    BunRuns = {a, b}
    BunMaxReplaced = 2
    KeyProjects <- MCKeyProjects
    KeyRank <- MCKeyRank
    KeyRoot <- MCKeyRoot
    KeyUpstream <- MCKeyUpstream
    KeyDevUpstream <- MCKeyDevUpstream
    KeyFiles <- MCKeyFiles
    KeyConfigs <- MCKeyConfigs
    KeyMaxEdits = 1
    WsDirs <- MCWsDirs
    WsPlace <- MCWsPlace
    WsNames <- MCWsNames
    WsRank <- MCWsRank
    WsLayouts <- MCWsLayouts
    WsConfigs <- MCWsConfigs
    NmTasks <- MCNmTasks
    NmConfigs <- MCNmConfigs
    NmInvocations = 2
    NmMaxEdits = 1
INVARIANTS
    TasksTypeOK
    ExecSafety
    ResultsSafety
    PlanningSafety
    NmSafety
    NmHitsAreFresh
PROPERTIES
    ExecTasksEnd
CHECK_DEADLOCK FALSE
