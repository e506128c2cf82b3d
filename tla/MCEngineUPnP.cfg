CONSTANTS
  a1 = a1
  a2 = a2
  i1 = i1
  i2 = i2
  None = None
  Addrs = {a1}
  Inners = {i1}
  AddrOf <- MCOnePort
  Outers = {o1, o2}
  RecheckEvery = 2
  KeepAliveLimit = 3
  STUNLimit = 3
  LeaseDuration = 6
  TickGap = 2
  TickTime = 1
  StartTime = 2
  InnerDrift = FALSE
  Configs <- MCUPnP
SPECIFICATION Spec
INVARIANTS
  ResourcesOwned
  PortStaysOpen
  ChangeNoticedInTime
