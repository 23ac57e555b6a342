SPECIFICATION Spec
CONSTANTS
  Orders = {o1}
  Entries = {o1}
  Workers = {w1, w2}
  NoWorker = NoWorker
  MaxAttempts = 2
SYMMETRY Symmetry
INVARIANTS AtMostOneExecution SentOnce
PROPERTIES  KeepsPromise
