SPECIFICATION Spec
CONSTANTS
    a = a
    p = p
    q = q
    r1 = r1
    r2 = r2
    Off = Off
    Instances = {a}
    Prints = {p, q}
    Scripts = {r1, r2}
    Globals = {"on"}
    Commands = {}
    EditsInScript = TRUE
    MaxEdits = 1
    MaxCalls = 0
    MaxFaults = 0
    MaxKills = 0
INVARIANT AppliedWhenQuiet
SYMMETRY Symmetric
CHECK_DEADLOCK FALSE
