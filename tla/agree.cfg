CONSTANTS
  c1 = c1
  c2 = c2
  r1 = r1
  r2 = r2
  w1 = w1
  w2 = w2
  t1 = t1
  t2 = t2
  d1 = d1
  Zero = Zero
  NoDue = NoDue
  Totals <- TwoTotals
  Dues <- OneDue
  Realms <- OneRealm
  Contents <- OneContent
  Workers <- OneWorker
  Threads <- OneThread
  MaxAttempts = 2
  MaxEdits = 1
  MaxFaults = 0
  MaxJobs = 3
  MaxCreates = 1
  MaxBatch = 10
  MaxCrashes = 0
  MaxRepeats = 0
  PutStatuses = {"Voided"}
SPECIFICATION Spec
INVARIANT StatusAgreement
INVARIANT EchoAbsorbed
INVARIANT DeleteMirrored
INVARIANT SingleRow
PROPERTY NoResurrection
PROPERTY OnlyCreateReopens
CHECK_DEADLOCK FALSE
