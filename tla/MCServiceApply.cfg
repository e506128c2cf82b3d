SPECIFICATION FairSpec
CONSTANTS
    a = a
    b = b
    p = p
    q = q
    r1 = r1
    Off = Off
    Instances = {a, b}
    Prints = {p, q}
    Scripts = {r1}
    Globals = {"on"}
    Commands = {"boot", "start"}
    EditsInScript = FALSE
    MaxEdits = 2
    MaxCalls = 1
    MaxFaults = 0
    MaxKills = 1
INVARIANT AppliedWhenQuiet
PROPERTY EnabledGetsServed
CHECK_DEADLOCK FALSE
