CONSTANTS
    Conn = {c1, c2, c3}
    None = None
    QueueSize = 1
SPECIFICATION Spec
INVARIANTS FreeSlotIsAdvertised
PROPERTY LinkKeepsPlace
CHECK_DEADLOCK FALSE
SYMMETRY Symmetry
