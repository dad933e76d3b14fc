CONSTANTS
    base = base
    top = top
    x = x
    y = y
    NoAddon = NoAddon
    Layers = {base, top}
    DependsOn <- TopOnBase
    Addons <- BothChange
    Annotated = {top}
    MaxRev = 1
    MaxEdits = 1
    MaxFaults = 0
SPECIFICATION FairSpec
INVARIANTS DeployedVersion
PROPERTIES RolloutKept AllDeployed
