SPECIFICATION PaperSpec
CONSTANTS
    Consumers = {c1}
    Recovery = recovery
    Operator = operator
    Free = free
    Plan <- Fills
    MaxTroubles = 0
INVARIANTS BooksBalance
CHECK_DEADLOCK FALSE
