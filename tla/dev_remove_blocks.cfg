SPECIFICATION FairSpec
CONSTANTS
    d1 = d1  d2 = d2  g1 = g1  g2 = g2  s1 = s1  s2 = s2
    f1 = f1  f2 = f2  f3 = f3  u1 = u1  u2 = u2  None = None
    Device = {d1}
    Group = {g1}
    File = {f1}
    User = {u1}
    OwnerOf <- LoneUser
    GroupOf <- LoneGroup
    SlotOf <- LoneSlot
    SlotReset = {}
    BusReset = FALSE
    Flr = {d1}
    Igd = {}
    DisableIdleD3 = FALSE
    Rebind = TRUE
    Reliable = FALSE
PROPERTIES
    RemoveWaitsForUsers
CHECK_DEADLOCK FALSE
