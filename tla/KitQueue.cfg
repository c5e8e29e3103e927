SPECIFICATION Spec
CONSTANTS
    Views = {v1, v2}
    Windows = {0, 1}
    States = {"Bold"}
    MaxPuts = 4
SYMMETRY ViewSymmetry
INVARIANTS TypingPreserved NewestArrives NoObsolete AllArrive
CHECK_DEADLOCK FALSE
