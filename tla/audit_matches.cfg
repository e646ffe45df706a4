CONSTANTS
  c1 = c1
  c2 = c2
  r1 = r1
  r2 = r2
  w1 = w1
  w2 = w2
  t1 = t1
  t2 = t2
  d1 = d1
  Zero = Zero
  NoDue = NoDue
  Totals <- OneTotal
  Dues <- OneDue
  Realms <- OneRealm
  Contents <- OneContent
  Workers <- OneWorker
  Threads <- OneThread
  MaxAttempts = 2
  MaxEdits = 0
  MaxFaults = 0
  MaxJobs = 2
  MaxCreates = 1
  MaxBatch = 10
  MaxCrashes = 0
  MaxRepeats = 0
  PutStatuses = {}
SPECIFICATION HistorySpec
SYMMETRY Symmetry
INVARIANT AuditMatches
CHECK_DEADLOCK FALSE
