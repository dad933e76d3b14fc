CONSTANTS
  base = base
  top = top
  Layers = {base,top}
  DependsOn <- TopOnBase
  Deploying = {base}
  Legacy = {base}
  Timeout = 1
  Workers = 1
  MaxRev = 2
  MaxEdits = 1
  MaxFaults = 1
  MaxUpsets = 1
SPECIFICATION FairSpec
INVARIANTS TypeOK NothingForgotten HoldComplete
PROPERTIES Settles
