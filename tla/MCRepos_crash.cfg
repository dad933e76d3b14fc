CONSTANTS
    Layers = {a}
    Founders = {a}
    NoLayer = NoLayer
    MaxRev = 2
    MaxEdits = 0
    MaxCrashes = 1
    MaxLag = 2
    a = a
    b = b
SPECIFICATION Spec
INVARIANTS SyncedMeansData
