SPECIFICATION FairSpec
CONSTANTS
    d1 = d1  d2 = d2  g1 = g1  g2 = g2  s1 = s1  s2 = s2
    f1 = f1  f2 = f2  f3 = f3  u1 = u1  u2 = u2  None = None
    Device = {d1, d2}
    Group = {g1}
    File = {f1, f2}
    User = {u1}
    OwnerOf <- OneUser
    GroupOf <- OneGroup
    SlotOf <- TwoSlots
    SlotReset = {s1, s2}
    BusReset = FALSE
    Flr = {}
    Igd = {}
    DisableIdleD3 = TRUE
    Rebind = TRUE
    Reliable = FALSE
INVARIANTS
    TypeOK
PROPERTIES
    ReleaseCompletes
    RemoveWaitsForUsers
CHECK_DEADLOCK FALSE
