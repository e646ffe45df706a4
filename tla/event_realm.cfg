CONSTANTS
  c1 = c1
  c2 = c2
  r1 = r1
  r2 = r2
  w1 = w1
  w2 = w2
  t1 = t1
  t2 = t2
  d1 = d1
  Zero = Zero
  NoDue = NoDue
  Totals <- TwoTotals
  Dues <- OneDue
  Realms <- TwoRealms
  Contents <- OneContent
  Workers <- OneWorker
  Threads <- OneThread
  MaxAttempts = 2
  MaxEdits = 2
  MaxFaults = 0
  MaxJobs = 1
  MaxCreates = 1
  MaxBatch = 10
  MaxCrashes = 0
  MaxRepeats = 0
  PutStatuses = {}
SPECIFICATION Spec
INVARIANT EventStaysInRealm
CHECK_DEADLOCK FALSE
