CONSTANTS
  Period = 6
  Skew = 9
  RequestTimeout = 7
  Latency = 1
  Transit = 1
  MaxBehind = 7
  Unhurried = 2
  Lifetime = {8, 9, 17}
  Waiter = {w1}
SPECIFICATION FairCallsSpec
INVARIANTS
  CallsTypeOK
  FreshToken
  ResolvedHasToken
  AcceptedOnArrival
PROPERTIES
  EveryWaiterResolves
  TokenComesBack
  NeverSpins
