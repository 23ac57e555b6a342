SPECIFICATION TimelySpec
CONSTANTS
  Tasks = {t1, t2, t3}
  Nobody = Nobody
  Orphan = Orphan
  Ttl = 8
  Stale = 6
  Interval = 2
  AskDelay = 2
  LeaveDelay = 1
  w1 = w1
  w2 = w2
  Workers = {w1, w2}
  Capabilities = {"trading", "maintenance"}
  Wants <- Roles
  Loops = {l1, l2}
  NoHolder = NoHolder
  Orphaned = Orphaned
  LeaseTtl = 9
  RenewalInterval = 3
  Timeout = 3
  Drain = 1
  Startup = 1
  Lag = 0
  Cleanup = 0
SYMMETRY Symmetry
INVARIANTS MutualExclusion Exclusive
 
