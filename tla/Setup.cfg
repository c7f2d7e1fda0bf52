SPECIFICATION MCSpec
CONSTANTS
    r1 = r1  r2 = r2  u1 = u1  u2 = u2
    NoUrl = NoUrl  NoDir = NoDir  NoText = NoText  Unset = Unset  Hole = Hole
    Loose = Loose  Wrapped = Wrapped  Cut = Cut
    NoFile = NoFile  NoRecord = NoRecord  BrokenRecord = BrokenRecord  NotFound = NotFound
    RepoPath = {r1, r2}
    Url = {u1, u2}
    InitCmds <- MCInitCmds
    Text <- MCText
    Tokens <- MCTokens
    Length <- MCLength
    Name <- MCName
    PathCases <- MCPathCases
    Section = {"apps", "env", "git", "loose", "win", "odd"}
    Key = {"a", "b", "c"}
    Val = {"v1", "v2"}
    Ints = {"one"}
    Line = {"comment"}
    Place <- MCPlace
    Machine <- MCMachine
    Remote <- MCRemote
    Cwd = r2
    SetupCmds <- MCSetupCmds
    Edits <- MCEdits
    MaxTouches = 2
    MaxRuns = 3
CHECK_DEADLOCK FALSE
INVARIANTS TypeOK RecordTruthful InitLeavesConfig EarlierSectionsWritten
INVARIANTS UnattendedStable SkippedHooksShow ResolverSound
PROPERTIES OwnDirsKept TouchesOnlyAnswers
