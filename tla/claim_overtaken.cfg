CONSTANTS
    Fills = {1, 2}
    Plan <- MCOpenClose
    Stale = {}
    MaxChanges = 0
    Flat = Flat
    Committed = Committed
SPECIFICATION Spec
PROPERTIES NotOvertaken
CHECK_DEADLOCK FALSE
