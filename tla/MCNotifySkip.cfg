SPECIFICATION Spec
CONSTANTS
    x = x
    y = y
    m1 = m1
    m2 = m2
    None = None
    Instances = {x}
    Pairs = {m1, m2}
    Features <- MCSkipOnly
    SkipUnchanged = {x}
    MaxCalls <- MCTwoCalls
    MaxMishaps = 1
INVARIANT WebhookKnowsMapping
SYMMETRY Symmetric
CHECK_DEADLOCK FALSE
