CONSTANTS
    a = a
    b = b
    h1 = h1
    h2 = h2
    s1 = s1
    s2 = s2
    Layers = {a, b}
    HRs = {h1, h2}
    Specs = {s1, s2}
    NoLayer = NoLayer
    NoSpec = NoSpec
    FirstSources <- Shared
    Delay <- MCDelay
    MaxTime = 0
    MaxRV = 2
    MaxEdits = 1
    MaxLag = 2
SPECIFICATION Spec
PROPERTY ApplyOwnOnly
