SPECIFICATION MCUncrashed
CONSTANTS
    d1 = d1  d2 = d2  s1 = s1  s2 = s2  c1 = c1  c2 = c2  u = u
    linux = linux  windows = windows
    Absent = Absent  Unreadable = Unreadable  NoEntry = NoEntry
    BadConfig = BadConfig  NoSrc = NoSrc
    Dst = {d1, d2}
    Src = {s1, s2}
    Content = {c1, c2, u}
    Platform = {linux, windows}
    Host = linux
    Proc = {p1}
    Adopter = {q1}
    Configs <- ImportConfigs
    Commands <- MCCommands
    Adoptions <- ImportAdoptions
    HomeSrc <- MCHomeSrc
    MaxEdits = 1
    MaxRuns = 3
    Racing = FALSE
CHECK_DEADLOCK FALSE
PROPERTY ClobbersOnlyItsOwn
