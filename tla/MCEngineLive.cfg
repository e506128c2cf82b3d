CONSTANTS
  a1 = a1
  a2 = a2
  i1 = i1
  i2 = i2
  None = None
  Addrs = {a1, a2}
  Inners = {i1, i2}
  AddrOf <- MCAddrOf
  Outers = {o1, o2}
  RecheckEvery = 1
  KeepAliveLimit = 2
  STUNLimit = 2
  LeaseDuration = 4
  TickGap = 2
  TickTime = 1
  StartTime = 2
  InnerDrift = FALSE
  Configs <- MCRetryTarget
SPECIFICATION FairSpec
PROPERTIES
  CancelStops
  Recovers
