SPECIFICATION Spec
CONSTANTS
    core = core
    lib = lib
    app = app
    api = api
    bench = bench
    NoProject = NoProject
    Projects <- MCProjects
    Upstream <- MCUpstream
    DevUpstream <- MCDevUpstream
    CustomBuild <- MCCustomBuild
    Order <- MCOrder
    OrderWithDev <- MCOrderWithDev
    MaxParallel = 2
    TerminalEnabled = FALSE
INVARIANTS
    TransitiveDependencyOrder
CHECK_DEADLOCK FALSE
