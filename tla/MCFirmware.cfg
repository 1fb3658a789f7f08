SPECIFICATION LiveSpec
CONSTANTS
  IPs = {a, b}
  Clients = {c1, c2}
  Gateway = gw
  Server = srv
  None = none
  Any = any
  Leases <- MCLeases
  Default = 5
  Period = 3
  MaxLost = 1
  MaxLate = 1
  MaxBoots = 1
INVARIANTS CacheIsTrue ServesItsLease
PROPERTIES DhcpIsBroadcast ReplyToRequester Acquires
