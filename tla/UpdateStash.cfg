SPECIFICATION MCUncrashed
CONSTANTS
    f = f  g = g  b0 = b0  b1 = b1  b2 = b2  b3 = b3  c0 = c0  c1 = c1  c2 = c2  c3 = c3
    Gone = Gone  Markers = Markers
    Path = {f, g}
    Blob = {b0, b1, b2, b3}
    Commit = {c0, c1, c2, c3}
    Tree <- MCTree
    Before <- MCBefore
    Combine <- MCCombine
    MaxTouches = 2
    MaxStash = 2
INVARIANT StashRestored
