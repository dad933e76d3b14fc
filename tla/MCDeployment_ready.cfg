CONSTANTS
    base = base
    top = top
    x = x
    y = y
    NoAddon = NoAddon
    Layers = {base, top}
    DependsOn <- TopOnBase
    Addons <- BothChange
    Annotated = {}
    MaxRev = 2
    MaxEdits = 0
    MaxFaults = 0
SPECIFICATION Spec
PROPERTIES DeployedIsReady
