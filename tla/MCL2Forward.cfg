\* Three refreshes, so that a buffer is filled twice.
SPECIFICATION L2Spec
CONSTANTS
  gw = gw
  host = host
  Ip <- MCIp
  Gw = gw
  OnLink <- MCOnLink
  Group = group
  Refreshes = 3
INVARIANTS RewriteFromOneRefresh
