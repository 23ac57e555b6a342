SPECIFICATION FairSpec
CONSTANTS
  Tasks = {t1, t2}
  Nobody = Nobody
  Orphan = Orphan
  Ttl = 4
  Stale = 3
  Interval = 1
  AskDelay = 2
  LeaveDelay = 1
PROPERTIES LoserLeaves OrphanReplaced
