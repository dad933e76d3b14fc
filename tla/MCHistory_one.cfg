CONSTANTS
    a = a
    b = b
    h1 = h1
    s1 = s1
    Layers = {a, b}
    HRs = {h1}
    Specs = {s1}
    NoLayer = NoLayer
    NoSpec = NoSpec
    FirstSources <- AnySources
    Delay <- OneTick
    MaxTime = 2
    MaxRV = 5
    MaxEdits = 2
    MaxLag = 2
SPECIFICATION HSpec
INVARIANTS
    TypeOK
    GraceBeforePrune
    SecondLook
PROPERTIES
    ContractKept
    TransferNeedsLabel
    OnlyNamed
