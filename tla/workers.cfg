CONSTANTS
  c1 = c1
  c2 = c2
  r1 = r1
  r2 = r2
  w1 = w1
  w2 = w2
  t1 = t1
  t2 = t2
  d1 = d1
  Zero = Zero
  NoDue = NoDue
  Totals <- OneTotal
  Dues <- OneDue
  Realms <- OneRealm
  Contents <- OneContent
  Workers <- TwoWorkers
  Threads <- OneThread
  MaxAttempts = 2
  MaxEdits = 0
  MaxFaults = 0
  MaxJobs = 2
  MaxCreates = 2
  MaxBatch = 1
  MaxCrashes = 1
  MaxRepeats = 1
  PutStatuses = {}
SPECIFICATION Spec
SYMMETRY Symmetry
INVARIANT OneOwner
INVARIANT QueueInvariant
INVARIANT CrashCostsABatch
PROPERTY QueueTerminal
PROPERTY JobsAreAQueue
PROPERTY EventsAreAQueue
CHECK_DEADLOCK FALSE
