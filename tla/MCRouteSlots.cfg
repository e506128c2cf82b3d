SPECIFICATION Spec
CONSTANTS
    a = a
    b = b
    c = c
    p = p
    q = q
    NoSlot = NoSlot
    Sections = {a, b, c}
    MaxSlot = 1
    Passes = {p, q}
    Edits = {"append", "delete", "move", "set"}
    Faults = {"set", "commit"}
    MaxEdits = 4
    MaxFaults = 1
    MaxReboots = 1
SYMMETRY Symmetric
INVARIANTS
    DistinctSlots
PROPERTIES
    SlotPersists
CHECK_DEADLOCK FALSE
