SPECIFICATION Spec
CONSTANTS
    d1 = d1  d2 = d2  g1 = g1  g2 = g2  s1 = s1  s2 = s2
    f1 = f1  f2 = f2  f3 = f3  u1 = u1  u2 = u2  None = None
    Device = {d1, d2}
    Group = {g1, g2}
    File = {f1, f2}
    User = {u1, u2}
    OwnerOf <- TwoUsers
    GroupOf <- TwoGroups
    SlotOf <- TwoSlots
    SlotReset = {}
    BusReset = TRUE
    Flr = {d1}
    Igd = {d2}
    DisableIdleD3 = FALSE
    Rebind = TRUE
    Reliable = FALSE
INVARIANTS
    HeldDevicesAlive
    IdleNeedsReset
PROPERTIES
    ResetSparesOthers
CHECK_DEADLOCK FALSE
