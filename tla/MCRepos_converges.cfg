CONSTANTS
    Layers = {a}
    Founders = {a}
    NoLayer = NoLayer
    MaxRev = 2
    MaxEdits = 1
    MaxCrashes = 0
    MaxLag = 2
    a = a
    b = b
SPECIFICATION FairSpec
PROPERTIES Converges
