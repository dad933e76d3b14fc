CONSTANTS
    base = base
    top = top
    x = x
    y = y
    NoAddon = NoAddon
    Layers = {base, top}
    DependsOn <- TopOnBase
    Addons <- BothChange
    Annotated = {}
    MaxRev = 1
    MaxEdits = 0
    MaxFaults = 1
SPECIFICATION FairSpec
PROPERTIES AllDeployed
