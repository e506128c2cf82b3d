CONSTANTS
  a1 = a1
  a2 = a2
  i1 = i1
  i2 = i2
  None = None
  Addrs = {a1}
  Inners = {i1, i2}
  AddrOf <- MCPortsOf
  Outers = {o1, o2}
  RecheckEvery = 2
  KeepAliveLimit = 2
  STUNLimit = 2
  LeaseDuration = 4
  TickGap = 2
  TickTime = 1
  StartTime = 2
  InnerDrift = TRUE
  Configs <- MCNoUPnP
SPECIFICATION Spec
INVARIANTS
  TypeOK
  AnnouncedPairServed
PROPERTIES
  ServesOnePairAtATime
