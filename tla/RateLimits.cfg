SPECIFICATION Spec
CONSTANTS
  r1 = r1
  r2 = r2
  r3 = r3
  r4 = r4
  ip1 = ip1
  ip2 = ip2
  Requests <- MCRequests
  IPs <- MCIPs
  IpOf <- MCIpOf
  NoVisitor = NoVisitor
  Keep = 3
  Sweep = 1
  Interval = 2
  Slack = 1
  MaxTime = 7
  MaxLimiters = 3
SYMMETRY Symm
INVARIANTS
  WaitersKeepLimiter
  RateHonoured
  StaleGone
CHECK_DEADLOCK FALSE
