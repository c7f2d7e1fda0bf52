SPECIFICATION MCSpec
CONSTANTS
    d1 = d1  d2 = d2  s1 = s1  s2 = s2  c1 = c1  c2 = c2  u = u
    linux = linux  windows = windows
    Absent = Absent  Unreadable = Unreadable  NoEntry = NoEntry
    BadConfig = BadConfig  NoSrc = NoSrc
    Dst = {d1, d2}
    Src = {s1, s2}
    Content = {c1, c2, u}
    Platform = {linux, windows}
    Host = linux
    Proc = {p1}
    Adopter = {q1}
    Configs <- MCConfigs
    Commands <- MCCommands
    Adoptions <- MCAdoptions
    HomeSrc <- MCHomeSrc
    MaxEdits = 2
    MaxRuns = 3
    Racing = FALSE
CHECK_DEADLOCK FALSE
INVARIANTS TypeOK RecordsKnown LinkConverges UnlinkClears AdoptSettlesDrift LinkLeavesGreen
PROPERTIES NoSilentLoss TemplateEditsSurvive DryRunReadOnly SourcesKept KeepsCustody
