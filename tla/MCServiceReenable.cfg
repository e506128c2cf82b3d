SPECIFICATION Spec
CONSTANTS
    a = a
    p = p
    q = q
    r1 = r1
    Off = Off
    Instances = {a}
    Prints = {p, q}
    Scripts = {r1}
    Globals = {"on", "off"}
    Commands = {"boot"}
    EditsInScript = FALSE
    MaxEdits = 2
    MaxCalls = 0
    MaxFaults = 0
    MaxKills = 0
INVARIANT AppliedWhenQuiet
SYMMETRY Symmetric
CHECK_DEADLOCK FALSE
