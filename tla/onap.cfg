SPECIFICATION Spec
CONSTANTS
    r1 = r1  r2 = r2  m1 = m1  v1 = v1  v2 = v2  p1 = p1
    None = None
    Regions <- TwoRegions
    Vnfms <- OneVnfm
    Vnfs <- TwoVnfs
    Policies <- OnePolicy
    MaxRuns = 3
    MaxFaults = 1
INVARIANTS
    TypeOK
    EndsExplained
    OwnPackages
PROPERTIES
    ImplementsDeployment
CHECK_DEADLOCK FALSE
