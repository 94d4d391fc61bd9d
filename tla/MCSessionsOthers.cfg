CONSTANTS
  f1 = f1
  f2 = f2
  Fam = {f1, f2}
  Device = {d1}
  Request = {r1}
  Job = {}
  Cred <- MCCred
  BatchLimit = 4
SPECIFICATION Spec
PROPERTIES RevokeOthersKeepsCurrent
CHECK_DEADLOCK FALSE
