CONSTANTS
  f1 = f1
  f2 = f2
  Fam = {f1, f2}
  Device = {d1, d2}
  Request = {r1}
  Job = {j1}
  Cred <- MCCred
  BatchLimit = 4
SPECIFICATION FairSpec
INVARIANTS RemovedDeviceHoldsNothing ReportIsTrue
PROPERTIES KeepsLoginChains RevocationsPublished
CHECK_DEADLOCK FALSE
