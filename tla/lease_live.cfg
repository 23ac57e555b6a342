SPECIFICATION FairLeaseSpec
CONSTANTS
  w1 = w1
  w2 = w2
  trading = trading
  maintenance = maintenance
  Workers = {w1, w2}
  Capabilities = {trading, maintenance}
  Wants <- MCHandover
  Loops = {l1}
  NoHolder = NoHolder
  Orphaned = Orphaned
  LeaseTtl = 3
  RenewalInterval = 1
  Timeout = 1
  Drain = 1
  Startup = 1
  Lag = 2
  Cleanup = 0
PROPERTIES LoopsEndFirst LoserStops FailedLoopRuns DeadReplaced
