CONSTANTS
    a = a
    b = b
    h1 = h1
    h2 = h2
    s1 = s1
    s2 = s2
    Layers = {a, b}
    HRs = {h1}
    Specs = {s1}
    NoLayer = NoLayer
    NoSpec = NoSpec
    FirstSources <- AnySources
    Delay <- MCDelay
    MaxTime = 2
    MaxRV = 5
    MaxEdits = 2
    MaxLag = 2
SPECIFICATION Spec
PROPERTY PruneOwnOnly
