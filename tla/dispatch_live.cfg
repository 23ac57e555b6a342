SPECIFICATION FairSpec
CONSTANTS
  Orders = {o1}
  Entries = {o1}
  Workers = {w1}
  NoWorker = NoWorker
  MaxAttempts = 1
PROPERTIES ExecutionIsBooked OutboxDrains
