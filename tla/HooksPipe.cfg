SPECIFICATION Spec
CONSTANTS
    v = v  w = w  setup = setup  update = update
    linux = linux  windows = windows  menu = menu  other = other  a1 = a1  a2 = a2
    NoVar = NoVar
    Group = {menu, other}
    Name = {a1, a2}
    Platform = {linux, windows}
    Host = linux
    Var = {v, w}
    PipeSize = 2
    MaxInput = 4
    Program <- MCProgram
    Phase = {setup, update}
    Hooklists <- NoHooks
    Commandlists <- LonePipe
    MaxJobs = 1
CHECK_DEADLOCK FALSE
INVARIANT ResultOnExit
