CONSTANTS
  User = {alice}
  Address <- MCAddress
  Proxy <- MCProxy
  Header <- MCHeader
  Config <- MCConfig
  Ceiling <- MCCeiling
  Traffic <- MCTraffic
  Unit = 3
  StaleAfter = 3
  None = None
  MaxTime = 5
  MaxRewind = 1
SPECIFICATION Spec
INVARIANTS
  EvictionUnnoticed
  RateKept
  RetryExact
