SPECIFICATION Spec
CONSTANTS
    x = x
    y = y
    m1 = m1
    m2 = m2
    None = None
    Instances = {x, y}
    Pairs = {m1, m2}
    Features <- MCFeatures
    SkipUnchanged = {y}
    MaxCalls <- MCCalls
    MaxMishaps = 1
INVARIANTS
    TypeOK
    AnnouncedEverywhere
    PortIsOpen
    StatusTellsTruth
PROPERTIES
    OpenStaysOpen
SYMMETRY Symmetric
CHECK_DEADLOCK FALSE
