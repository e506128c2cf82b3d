SPECIFICATION Spec
CONSTANTS
    a = a
    b = b
    p = p
    q = q
    r1 = r1
    r2 = r2
    Off = Off
    Instances = {a, b}
    Prints = {p, q}
    Scripts = {r1, r2}
    Globals = {"on"}
    Commands = {}
    EditsInScript = TRUE
    MaxEdits = 2
    MaxCalls = 1
    MaxFaults = 0
    MaxKills = 0
INVARIANT TypeOK
PROPERTY SparesUnchanged
SYMMETRY Symmetric
CHECK_DEADLOCK FALSE
