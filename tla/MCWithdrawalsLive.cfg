CONSTANTS
  w1 = w1
  k1 = k1
  k2 = k2
  w2 = w2
  W = {w1, w2}
  Amount <- MCAmount
  UsdValue <- MCAmount
  KeyOf <- MCKeyOf
  DailyLimit = 4
  Funds = 3
  Command <- MCFewCommands
  Worker = {k1}
  Dispatched = {w1}
  MaxGens = 1
  MaxAttempts = 2
  RpcTries = 1
  LatePolls = 2
  MaxStalls = 1
SPECIFICATION FairSpec
INVARIANT FundsAccounted
PROPERTIES MonitoringEnds
