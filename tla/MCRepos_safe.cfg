CONSTANTS
    Layers = {a}
    Founders = {a}
    NoLayer = NoLayer
    MaxRev = 2
    MaxEdits = 2
    MaxCrashes = 1
    MaxLag = 2
    a = a
    b = b
SPECIFICATION Spec
INVARIANTS TypeOK NoLinkLeftBehind ReportCoversRead SyncedUnlessRestarted
PROPERTIES DeployedNeverRollsBack
