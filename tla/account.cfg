SPECIFICATION Spec
CONSTANTS
    Coins = {c1}
    Tasks = {t1, t2}
    Free = free
    Slots = {1}
SYMMETRY Symmetry
INVARIANTS TypeOK NotEnabledWhileClosing
PROPERTIES StartHonorsStop DisabledIsFlat
CHECK_DEADLOCK FALSE
