SPECIFICATION MCSpec
CONSTANTS
    d1 = d1  d2 = d2  s1 = s1  s2 = s2  c1 = c1  c2 = c2  u = u
    linux = linux  windows = windows
    Absent = Absent  Unreadable = Unreadable  NoEntry = NoEntry
    BadConfig = BadConfig  NoSrc = NoSrc
    Dst = {d1}
    Src = {s1}
    Content = {c1, u}
    Platform = {linux, windows}
    Host = linux
    Proc = {p1, p2}
    Adopter = {q1}
    Configs <- RaceConfigs
    Commands <- RaceCommands
    Adoptions <- RaceAdoptions
    HomeSrc <- MCHomeSrc
    MaxEdits = 1
    MaxRuns = 3
    Racing = TRUE
SYMMETRY ProcSymmetry
CHECK_DEADLOCK FALSE
INVARIANTS LinkConverges UnlinkClears AdoptSettlesDrift

