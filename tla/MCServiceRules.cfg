SPECIFICATION Spec
CONSTANTS
    a = a
    b = b
    p = p
    q = q
    r1 = r1
    Off = Off
    Instances = {a, b}
    Prints = {p}
    Scripts = {r1}
    Globals = {"on", "off"}
    Commands = {"boot", "start", "stop"}
    EditsInScript = TRUE
    MaxEdits = 3
    MaxCalls = 1
    MaxFaults = 1
    MaxKills = 1
INVARIANT LiveRulesKept
SYMMETRY Symmetric
CHECK_DEADLOCK FALSE
