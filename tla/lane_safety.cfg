CONSTANTS
    Fills = {1, 2}
    Plan <- MCFlip
    Stale = {2}
    MaxChanges = 2
    Flat = Flat
    Committed = Committed
SPECIFICATION Spec
INVARIANTS CompleteIsDecided
PROPERTIES SendInOrder SendUndecided DecisionsStand
CHECK_DEADLOCK FALSE
