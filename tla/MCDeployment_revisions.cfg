CONSTANTS
    base = base
    top = top
    x = x
    y = y
    NoAddon = NoAddon
    Layers = {base, top}
    DependsOn <- TopOnBase
    Addons <- TopGoes
    Annotated = {}
    MaxRev = 2
    MaxEdits = 0
    MaxFaults = 0
SPECIFICATION Spec
INVARIANTS TypeOK
PROPERTIES RolloutKept ReportNeverRollsBack
