CONSTANTS
  w1 = w1
  k1 = k1
  k2 = k2
  w2 = w2
  W = {w1}
  Amount <- MCOneAmount
  UsdValue <- MCOneAmount
  KeyOf <- MCOneKey
  DailyLimit = 1
  Funds = 1
  Command <- MCCommand
  Worker = {k1, k2}
  Dispatched = {w1}
  MaxGens = 2
  MaxAttempts = 2
  RpcTries = 2
  LatePolls = 1
  MaxStalls = 1
SYMMETRY Workers
SPECIFICATION Spec
INVARIANTS TypeOK BroadcastIsKnown RetryNeedsAnswer IntentMatchesState PublishedHasJob
PROPERTIES KeepsPayoutPromise
