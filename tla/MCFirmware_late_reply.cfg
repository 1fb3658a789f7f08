SPECIFICATION LiveSpec
CONSTANTS
  IPs = {a}
  Clients = {c1}
  Gateway = gw
  Server = srv
  None = none
  Any = any
  Leases <- MCLong
  Default = 4
  Period = 4
  MaxLost = 0
  MaxLate = 1
  MaxBoots = 0
PROPERTY LateReplyIsHarmless
