SPECIFICATION Spec
CONSTANTS
    File = {"f1", "f2", "f3", "f4"}
    Root = "f1"
    Missing = Missing
    MaxDepth = 2
    KnownVar = {"HOME"}
    IncludeCases <- MCIncludeCases
    Pkg = {"git", "rustup", "term", "crate", "gone"}
    Bucket = {"extras", "fonts"}
    NoBucket = NoBucket
    Host <- MCHost
    Homes <- MCHomes
    GroupName = {"core", "tools", "desktop", "f1", "f2", "f3", "f4"}
    Cmds <- MCCmds
    NoChoice = NoChoice
    PathRefresh = PathRefresh
    MaxRuns = 2
    MaxTouches = 2
    MaxFaults = 2
CHECK_DEADLOCK FALSE
INVARIANTS TypeOK EachSettled ReportTrue LoadSound
PROPERTIES ToolchainReached
